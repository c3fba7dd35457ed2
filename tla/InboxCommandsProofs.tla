-------------------------- MODULE InboxCommandsProofs --------------------------
(***************************************************************************)
(* The commands use the store as it means to be used: every step of theirs *)
(* is a transaction of MessageStore or leaves the messages alone, so all   *)
(* that MessageStoreProofs shows holds under any number of commands in any *)
(* interleaving, with commands dying anywhere.  Besides: the types, the    *)
(* two invariants about todos and the two about completion replies.        *)
(*                                                                         *)
(* CommandsInv is inductive.  It adds to CommandsTypeOK what a running     *)
(* command has read and may still rely on when it writes (JobsOK), and     *)
(* that a replacement todo, even of a deleted todo, is no fresh one.       *)
(*                                                                         *)
(* ReplyInv is inductive together with it.  A reply is made in three steps *)
(* (complete, compose, INSERT); ReplyInv follows it through them.          *)
(***************************************************************************)
EXTENDS InboxCommands, MessageStoreProofs

(* A command between two transactions: a reply goes to a role, and a todo   *)
(* is added to a message that was claimed.                                  *)
JobsOK ==
  /\ job \in [Proc -> Job]
  /\ \A p \in Proc :
       /\ At(p, "reply") => state[job[p].message] # "none"
                            /\ envelope[job[p].message].sender \in Role
       /\ At(p, "insert_todo") => lease[job[p].message] # NoLease

EnvelopesOK ==
  /\ envelope \in [Message -> Envelope \cup {NoEnvelope}]
  /\ \A m \in Message : envelope[m] = NoEnvelope <=> state[m] = "none"

(* Any todo, open or not, belongs to a message that was claimed.            *)
TodosClaimed ==
  \A t \in Todo : todoState[t] # "none" => lease[todoMessage[t]] # NoLease

ReplacementsExist ==
  \A t \in Todo : supersededBy[t] # NoTodo => todoState[supersededBy[t]] # "none"

TodosOK == TodoTypeOK /\ SupersedeChain /\ ReplacementsExist

CommandsInv ==
  /\ StoreInv
  /\ TodosOK
  /\ TodosClaimed
  /\ EnvelopesOK
  /\ roleState \in [Role -> RoleState]
  /\ JobsOK

(* What no step takes back: a message stays on record with its envelope,    *)
(* and a message that was claimed was claimed.                              *)
Keeps ==
  \A m \in Message :
    /\ state[m] # "none" => state'[m] # "none" /\ envelope'[m] = envelope[m]
    /\ lease[m] # NoLease => lease'[m] # NoLease

-----------------------------------------------------------------------------
(* Jobs. *)

(* What the transaction a command is at says about what it carries.         *)
LEMMA JobKinds ==
  ASSUME NEW j \in Job
  PROVE  /\ j.at = "create" => j \in Draft
         /\ j.at \in {"notify", "mark"} => j.role \in Role
         /\ j.at \in {"auto_ack", "complete", "reply"} => j.role \in Role /\ j.message \in Message
         /\ j.at \in {"complete", "reply"} => j.wake \in BOOLEAN
         /\ j.at = "complete" => j.reply \in BOOLEAN
         /\ j.at = "insert_todo" => j.message \in Message
BY DEF Job, Draft, Idle

(* The job of one command changes, soundly, and nothing else it relies on.  *)
LEMMA JobStep ==
  ASSUME JobsOK, Keeps, NEW p \in Proc, NEW next \in Job, GoTo(p, next),
         next.at = "reply" => state'[next.message] # "none"
                              /\ envelope'[next.message].sender \in Role,
         next.at = "insert_todo" => lease'[next.message] # NoLease
  PROVE  JobsOK'
<1>1. job' \in [Proc -> Job] /\ job'[p] = next /\ \A q \in Proc \ {p} : job'[q] = job[q]
  BY DEF JobsOK, GoTo
<1>2. ASSUME NEW q \in Proc
      PROVE  /\ At(q, "reply")' => state'[job'[q].message] # "none"
                                   /\ envelope'[job'[q].message].sender \in Role
             /\ At(q, "insert_todo")' => lease'[job'[q].message] # NoLease
  <2>1. CASE q = p  BY <1>1, <2>1 DEF At
  <2>2. CASE q # p
    <3>1. job'[q] = job[q] /\ job[q] \in Job  BY <1>1, <2>2 DEF JobsOK
    <3>2. job[q].at \in {"reply", "insert_todo"} => job[q].message \in Message
      BY <3>1, JobKinds
    <3> QED  BY <3>1, <3>2 DEF JobsOK, Keeps, At
  <2> QED  BY <2>1, <2>2
<1> QED  BY <1>1, <1>2 DEF JobsOK

(* Nobody's job changes.                                                    *)
LEMMA JobsStay ==
  ASSUME JobsOK, Keeps, job' = job
  PROVE  JobsOK'
<1>1. \A q \in Proc : job[q].at \in {"reply", "insert_todo"} => job[q].message \in Message
  BY JobKinds DEF JobsOK
<1> QED  BY <1>1 DEF JobsOK, Keeps, At

(* A fresh command has a well-typed job.                                    *)
LEMMA IdleIsJob == Idle \in Job /\ Idle.at = "idle"
BY DEF Job, Idle

(* A command ends.                                                          *)
LEMMA JobEnds ==
  ASSUME JobsOK, Keeps, NEW p \in Proc, GoTo(p, Idle)
  PROVE  JobsOK'
BY IdleIsJob, JobStep

-----------------------------------------------------------------------------
(* Todos. *)

(* add_todo on a claimed message keeps the todos in order.                  *)
LEMMA InsertTodoOK ==
  ASSUME TodosOK, NEW t \in Todo, NEW m \in Message, InsertTodo(t, m)
  PROVE  TodosOK'
<1>1. /\ todoState[t] = "none" /\ todoState'[t] = "open" /\ todoMessage'[t] = m
      /\ supersededBy' = supersededBy
      /\ \A u \in Todo \ {t} : todoState'[u] = todoState[u] /\ todoMessage'[u] = todoMessage[u]
      /\ supersededBy[t] = NoTodo
  BY DEF InsertTodo, TodosOK, TodoTypeOK, SupersedeChain
<1>2. TodoTypeOK'
  BY <1>1, NoMessageAssumption DEF InsertTodo, TodosOK, TodoTypeOK, TodoState
<1>3. SupersedeChain'
  BY <1>1 DEF TodosOK, TodoTypeOK, SupersedeChain
<1>4. ReplacementsExist'
  BY <1>1 DEF TodosOK, TodoTypeOK, ReplacementsExist
<1> QED  BY <1>2, <1>3, <1>4 DEF TodosOK

(* todo done and todo reopen keep the todos in order.                       *)
LEMMA MarkTodoOK ==
  ASSUME TodosOK, NEW t \in Todo, CompleteTodo(t) \/ ReopenTodo(t)
  PROVE  TodosOK'
<1>1. /\ todoState[t] \in {"open", "done"} /\ todoState'[t] \in {"open", "done"}
      /\ supersededBy' = supersededBy /\ todoMessage' = todoMessage
      /\ todoState' \in [Todo -> TodoState]
      /\ \A u \in Todo \ {t} : todoState'[u] = todoState[u]
  BY DEF CompleteTodo, ReopenTodo, TodosOK, TodoTypeOK, TodoState
<1>2. TodoTypeOK'  BY <1>1 DEF TodosOK, TodoTypeOK
<1>3. SupersedeChain'  BY <1>1 DEF TodosOK, TodoTypeOK, SupersedeChain
<1>4. ReplacementsExist'  BY <1>1 DEF TodosOK, TodoTypeOK, ReplacementsExist
<1> QED  BY <1>2, <1>3, <1>4 DEF TodosOK

(* todo supersede adds one link to the chain and breaks none.               *)
LEMMA SupersedeTodoOK ==
  ASSUME TodosOK, NEW t \in Todo, NEW new \in Todo, SupersedeTodo(t, new)
  PROVE  TodosOK'
<1>1. /\ t # new /\ todoState[t] = "open" /\ todoState[new] = "none"
      /\ todoState'[t] = "superseded" /\ todoState'[new] = "open"
      /\ todoState' \in [Todo -> TodoState]
      /\ \A u \in Todo \ {t, new} : todoState'[u] = todoState[u]
  BY DEF SupersedeTodo, TodosOK, TodoTypeOK, TodoState
<1>2. /\ todoMessage'[new] = todoMessage[t] /\ todoMessage[t] # NoMessage
      /\ todoMessage' \in [Todo -> Message \cup {NoMessage}]
      /\ \A u \in Todo \ {new} : todoMessage'[u] = todoMessage[u]
  BY <1>1 DEF SupersedeTodo, TodosOK, TodoTypeOK
<1>3. /\ supersededBy'[t] = new /\ supersededBy' \in [Todo -> Todo \cup {NoTodo}]
      /\ \A u \in Todo \ {t} : supersededBy'[u] = supersededBy[u]
      /\ supersededBy[new] = NoTodo
      /\ \A u \in Todo : supersededBy[u] # new
  BY <1>1, NoTodoAssumption
     DEF SupersedeTodo, TodosOK, TodoTypeOK, SupersedeChain, ReplacementsExist
<1>4. TodoTypeOK'  BY <1>1, <1>2, <1>3 DEF TodosOK, TodoTypeOK
<1>5. ASSUME NEW u \in Todo, todoState'[u] = "superseded"
      PROVE  /\ supersededBy'[u] \in Todo \ {u}
             /\ todoMessage'[supersededBy'[u]] = todoMessage'[u]
             /\ todoState'[supersededBy'[u]] \in {"open", "done", "superseded"}
  <2>1. CASE u = t  BY <1>1, <1>2, <1>3, <2>1
  <2>2. CASE u # t
    <3>1. u # new /\ todoState[u] = "superseded" /\ supersededBy'[u] = supersededBy[u]
      BY <1>1, <1>3, <1>5, <2>2
    <3>2. /\ supersededBy[u] \in Todo \ {u} /\ supersededBy[u] # new
          /\ todoMessage[supersededBy[u]] = todoMessage[u]
          /\ todoState[supersededBy[u]] \in {"open", "done", "superseded"}
      BY <1>3, <3>1 DEF TodosOK, SupersedeChain
    <3> QED  BY <1>1, <1>2, <3>1, <3>2
  <2> QED  BY <2>1, <2>2
<1>6. \A u \in Todo : supersededBy'[u] # NoTodo => todoState'[u] \in {"superseded", "deleted"}
  BY <1>1, <1>3 DEF TodosOK, SupersedeChain
<1>7. \A u, v \in Todo : supersededBy'[u] # NoTodo /\ supersededBy'[u] = supersededBy'[v] => u = v
  BY <1>3 DEF TodosOK, SupersedeChain
<1>8. SupersedeChain'  BY <1>5, <1>6, <1>7 DEF SupersedeChain
<1>9. ReplacementsExist'
  BY <1>1, <1>3 DEF TodosOK, TodoTypeOK, ReplacementsExist
<1> QED  BY <1>4, <1>8, <1>9 DEF TodosOK

(* todo clear takes a todo away together with its whole chain.              *)
LEMMA ClearTodosOK ==
  ASSUME TodosOK, NEW m \in Message, ClearTodos(m)
  PROVE  TodosOK'
<1>1. /\ supersededBy' = supersededBy /\ todoMessage' = todoMessage
      /\ todoState' \in [Todo -> TodoState]
      /\ \A t \in Todo : todoMessage[t] = m => todoState'[t] = "deleted"
      /\ \A t \in Todo : todoMessage[t] # m => todoState'[t] = todoState[t]
  BY DEF ClearTodos, TodosOK, TodoTypeOK, TodoState
<1>2. \A t \in Todo : todoMessage[t] = m => todoState[t] # "none"
  BY NoMessageAssumption DEF TodosOK, TodoTypeOK
<1>3. TodoTypeOK'  BY <1>1, <1>2 DEF TodosOK, TodoTypeOK
<1>4. SupersedeChain'
  <2>1. ASSUME NEW t \in Todo, todoState'[t] = "superseded"
        PROVE  /\ supersededBy[t] \in Todo \ {t}
               /\ todoMessage[supersededBy[t]] = todoMessage[t]
               /\ todoState'[supersededBy[t]] \in {"open", "done", "superseded"}
    <3>1. todoMessage[t] # m /\ todoState[t] = "superseded"  BY <1>1, <2>1
    <3> QED  BY <1>1, <3>1 DEF TodosOK, SupersedeChain
  <2>2. \A t \in Todo : supersededBy[t] # NoTodo => todoState'[t] \in {"superseded", "deleted"}
    BY <1>1 DEF TodosOK, SupersedeChain
  <2> QED  BY <1>1, <2>1, <2>2 DEF TodosOK, SupersedeChain
<1>5. ReplacementsExist'
  BY <1>1 DEF TodosOK, TodoTypeOK, ReplacementsExist
<1> QED  BY <1>3, <1>4, <1>5 DEF TodosOK

-----------------------------------------------------------------------------
(* Steps. *)

(* A transaction of the store deletes no row and resets no lease.           *)
LEMMA StoreKeeps ==
  ASSUME StoreInv, [StoreNext]_storeVars, NEW m \in Message
  PROVE  /\ state[m] # "none" => state'[m] # "none"
         /\ lease[m] # NoLease => lease'[m] # NoLease
<1>1. state \in [Message -> State] /\ lease \in [Message -> Nat] /\ now \in Nat
  BY TimeAssumption DEF StoreInv, StoreTypeOK
<1>2. ASSUME NEW n \in Message, NEW kind \in Kind, NEW p \in Priority, NEW r \in Role,
             NEW born \in State, CreateMessage(n, kind, p, r, born)
      PROVE  (state[m] # "none" => state'[m] # "none") /\ lease' = lease
  BY <1>1, <1>2 DEF CreateMessage
<1>3. ASSUME NEW r \in Role, NEW n \in Message, ClaimNext(r, n)
      PROVE  (state[m] # "none" => state'[m] # "none")
             /\ (lease[m] # NoLease => lease'[m] # NoLease)
  <2>1. now + ClaimSeconds # NoLease  BY <1>1, LeaseAssumption DEF NoLease
  <2> QED  BY <1>1, <1>3, <2>1 DEF ClaimNext
<1>4. ASSUME NEW r \in Role, NEW n \in Message, AckMessage(r, n) \/ CompleteMessage(r, n)
      PROVE  (state[m] # "none" => state'[m] # "none") /\ lease' = lease
  BY <1>1, <1>4 DEF AckMessage, CompleteMessage
<1>5. ASSUME NEW r \in Role, NEW S \in SUBSET Message, CompleteReplies(r, S)
      PROVE  (state[m] # "none" => state'[m] # "none") /\ lease' = lease
  BY <1>5 DEF CompleteReplies
<1>6. ASSUME NEW r \in Role, MarkNotified(r)
      PROVE  (state[m] # "none" => state'[m] # "none") /\ lease' = lease
  BY <1>6 DEF MarkNotified
<1>7. CASE Tick  BY <1>7 DEF Tick
<1>8. CASE UNCHANGED storeVars  BY <1>8 DEF storeVars
<1> QED  BY <1>2, <1>3, <1>4, <1>5, <1>6, <1>7, <1>8 DEF StoreNext

(* A store transaction other than the INSERT: everything but the jobs.      *)
LEMMA StoreStepOK ==
  ASSUME CommandsInv, [StoreNext]_storeVars, UNCHANGED <<todoVars, envelope, roleState>>,
         \A m \in Message : state[m] = "none" => state'[m] = "none"
  PROVE  /\ StoreInv' /\ TodosOK' /\ TodosClaimed' /\ EnvelopesOK'
         /\ roleState' \in [Role -> RoleState]
         /\ Keeps
<1>1. StoreInv'  BY NextInv DEF CommandsInv
<1>2. Keeps  BY StoreKeeps DEF CommandsInv, Keeps
<1>3. TodosOK'
  BY DEF CommandsInv, TodosOK, TodoTypeOK, SupersedeChain, ReplacementsExist, todoVars
<1>4. TodosClaimed'
  BY <1>2, <1>3 DEF CommandsInv, TodosClaimed, Keeps, todoVars, TodosOK, TodoTypeOK
<1>5. EnvelopesOK'  BY <1>2 DEF CommandsInv, EnvelopesOK, Keeps
<1> QED  BY <1>1, <1>2, <1>3, <1>4, <1>5 DEF CommandsInv

(* A step that only moves one command on.                                   *)
LEMMA JobOnlyOK ==
  ASSUME CommandsInv, UNCHANGED <<storeVars, todoVars, envelope, roleState>>,
         NEW p \in Proc, NEW next \in Job, GoTo(p, next),
         next.at = "reply" => state[next.message] # "none"
                              /\ envelope[next.message].sender \in Role,
         next.at = "insert_todo" => lease[next.message] # NoLease
  PROVE  CommandsInv' /\ [StoreNext]_storeVars
<1>1. state' = state /\ lease' = lease /\ envelope' = envelope  BY DEF storeVars
<1>2. /\ StoreInv' /\ TodosOK' /\ TodosClaimed' /\ EnvelopesOK'
      /\ roleState' \in [Role -> RoleState]
      /\ Keeps
  BY <1>1, StoreStepOK
<1>3. JobsOK'  BY <1>1, <1>2, JobStep DEF CommandsInv
<1> QED  BY <1>2, <1>3 DEF CommandsInv

(* A step that changes todos only, and perhaps ends a command.              *)
LEMMA TodoOnlyOK ==
  ASSUME CommandsInv, UNCHANGED <<storeVars, envelope, roleState>>, TodosOK', TodosClaimed',
         NEW p \in Proc, GoTo(p, Idle) \/ job' = job
  PROVE  CommandsInv' /\ [StoreNext]_storeVars
<1>1. StoreInv'  BY NextInv DEF CommandsInv
<1>2. state' = state /\ lease' = lease /\ envelope' = envelope /\ roleState' = roleState
  BY DEF storeVars
<1>3. Keeps  BY <1>2 DEF Keeps
<1>4. EnvelopesOK'  BY <1>2 DEF CommandsInv, EnvelopesOK
<1>5. JobsOK'  BY <1>3, JobEnds, JobsStay DEF CommandsInv
<1> QED  BY <1>1, <1>2, <1>4, <1>5 DEF CommandsInv

(* What a message is born as is one of the states of a claimable or blocked *)
(* row.                                                                     *)
LEMMA BirthType ==
  ASSUME NEW r, NEW priority, NEW forced
  PROVE  Birth(r, priority, forced) \in {"queued", "blocked"}
BY DEF Birth

(* The steps of send, broadcast and notify keep the invariant.              *)
LEMMA SendingOK ==
  ASSUME CommandsInv, NEW p \in Proc, Sending(p)
  PROVE  CommandsInv' /\ [StoreNext]_storeVars
<1>1. ASSUME NEW s \in Sender, NEW r \in Role, NEW forced \in BOOLEAN,
             NEW priority \in SendPriority, NEW wake \in BOOLEAN,
             StartSend(p, s, r, priority, forced, wake)
      PROVE  CommandsInv' /\ [StoreNext]_storeVars
  <2> DEFINE next == [at |-> "create", kind |-> "task", priority |-> priority,
                      recipient |-> r, sender |-> s, related |-> NoMessage,
                      born |-> Birth(r, priority, forced), forced |-> forced, wake |-> wake]
  <2>1. next \in Draft  BY BirthType, SendPriorityAssumption DEF Draft, Kind
  <2>2. next \in Job /\ next.at = "create"  BY <2>1 DEF Job
  <2>3. GoTo(p, next) /\ UNCHANGED <<storeVars, todoVars, envelope, roleState>>
    BY <1>1 DEF StartSend
  <2> HIDE DEF next
  <2> QED  BY <2>2, <2>3, JobOnlyOK
<1>2. ASSUME NEW s \in Sender, NEW r \in Role, NEW forced \in BOOLEAN,
             StartNotice(p, s, r, forced)
      PROVE  CommandsInv' /\ [StoreNext]_storeVars
  <2> DEFINE next == [at |-> "create", kind |-> "notice", priority |-> Low,
                      recipient |-> r, sender |-> s, related |-> NoMessage,
                      born |-> IF roleState[r] = "active" \/ forced
                               THEN "completed" ELSE "blocked",
                      forced |-> forced, wake |-> FALSE]
  <2>1. next \in Draft  BY PriorityUseAssumption DEF Draft, Kind, Low
  <2>2. next \in Job /\ next.at = "create"  BY <2>1 DEF Job
  <2>3. GoTo(p, next) /\ UNCHANGED <<storeVars, todoVars, envelope, roleState>>
    BY <1>2 DEF StartNotice
  <2> HIDE DEF next
  <2> QED  BY <2>2, <2>3, JobOnlyOK
<1>3. ASSUME NEW m \in Message, Create(p, m)
      PROVE  CommandsInv' /\ [StoreNext]_storeVars
  <2> DEFINE d == job[p]
             e == [sender |-> d.sender, related |-> d.related]
             next == IF d.born = "queued" /\ d.wake
                     THEN [at |-> "notify", role |-> d.recipient] ELSE Idle
  <2>1. d \in Draft  BY <1>3, JobKinds DEF CommandsInv, JobsOK, Create, At
  <2>2. /\ d.kind \in Kind /\ d.priority \in Priority /\ d.recipient \in Role
        /\ d.born \in State /\ d.sender \in Sender /\ d.related \in Message \cup {NoMessage}
    BY <2>1 DEF Draft, State, Claimable
  <2>3. /\ CreateMessage(m, d.kind, d.priority, d.recipient, d.born)
        /\ envelope' = [envelope EXCEPT ![m] = e] /\ GoTo(p, next)
        /\ UNCHANGED <<todoVars, roleState>>
    BY <1>3 DEF Create
  <2>4. next \in Job /\ next.at \in {"notify", "idle"}  BY <2>2, IdleIsJob DEF Job
  <2>5. e \in Envelope  BY <2>2 DEF Envelope
  <2>6. StoreNext  BY <2>2, <2>3 DEF StoreNext
  <2>7. StoreInv'  BY <2>6, NextInv DEF CommandsInv
  <2> HIDE DEF d, e, next
  <2>8. /\ state[m] = "none" /\ state'[m] # "none" /\ envelope'[m] = e
        /\ \A n \in Message \ {m} : state'[n] = state[n] /\ envelope'[n] = envelope[n]
    <3>1. d.born # "none"  BY <2>3 DEF CreateMessage, BirthStates
    <3> QED
      BY <2>3, <3>1 DEF CreateMessage, CommandsInv, StoreInv, StoreTypeOK, EnvelopesOK
  <2>9. EnvelopesOK'
    <3>1. envelope' \in [Message -> Envelope \cup {NoEnvelope}]
      BY <2>3, <2>5 DEF CommandsInv, EnvelopesOK
    <3> QED  BY <2>5, <2>8, <3>1, NoEnvelopeAssumption DEF CommandsInv, EnvelopesOK
  <2>10. Keeps  BY <2>6, <2>8, StoreKeeps DEF CommandsInv, Keeps
  <2>11. TodosOK'
    BY <2>3 DEF CommandsInv, TodosOK, TodoTypeOK, SupersedeChain, ReplacementsExist, todoVars
  <2>12. TodosClaimed'
    BY <2>3, <2>10, <2>11 DEF CommandsInv, TodosClaimed, Keeps, todoVars, TodosOK, TodoTypeOK
  <2>13. JobsOK'  BY <2>3, <2>4, <2>10, JobStep DEF CommandsInv
  <2> QED  BY <2>3, <2>6, <2>7, <2>9, <2>11, <2>12, <2>13 DEF CommandsInv
<1>4. ASSUME NEW r \in Role, StartNotify(p, r)
      PROVE  CommandsInv' /\ [StoreNext]_storeVars
  <2> DEFINE next == [at |-> "notify", role |-> r]
  <2>1. next \in Job /\ next.at = "notify"  BY DEF Job
  <2>2. GoTo(p, next) /\ UNCHANGED <<storeVars, todoVars, envelope, roleState>>
    BY <1>4 DEF StartNotify
  <2> HIDE DEF next
  <2> QED  BY <2>1, <2>2, JobOnlyOK
<1>5. CASE Notify(p)
  <2> DEFINE next == [job[p] EXCEPT !.at = "mark"]
  <2>1. next \in Job /\ next.at = "mark"
    <3>1. job[p] \in [at : {"notify", "mark"}, role : Role]
      BY <1>5 DEF Notify, At, CommandsInv, JobsOK, Job, Draft, Idle
    <3>2. next \in [at : {"notify", "mark"}, role : Role] /\ next.at = "mark"  BY <3>1
    <3> QED  BY <3>2 DEF Job
  <2>2. GoTo(p, Idle) \/ GoTo(p, next)  BY <1>5 DEF Notify
  <2>3. UNCHANGED <<storeVars, todoVars, envelope, roleState>>  BY <1>5 DEF Notify
  <2> HIDE DEF next
  <2> QED  BY <2>1, <2>2, <2>3, IdleIsJob, JobOnlyOK
<1>6. CASE Mark(p)
  <2>1. job[p].role \in Role  BY <1>6, JobKinds DEF Mark, At, CommandsInv, JobsOK
  <2>2. StoreNext  BY <1>6, <2>1 DEF Mark, StoreNext
  <2>3. \A m \in Message : state[m] = "none" => state'[m] = "none"
    BY <1>6 DEF Mark, MarkNotified
  <2>4. UNCHANGED <<todoVars, envelope, roleState>> /\ GoTo(p, Idle)  BY <1>6 DEF Mark
  <2>5. /\ StoreInv' /\ TodosOK' /\ TodosClaimed' /\ EnvelopesOK'
        /\ roleState' \in [Role -> RoleState] /\ Keeps
    BY <2>2, <2>3, <2>4, StoreStepOK
  <2>6. JobsOK'  BY <2>4, <2>5, JobEnds DEF CommandsInv
  <2> QED  BY <2>2, <2>5, <2>6 DEF CommandsInv
<1> QED  BY <1>1, <1>2, <1>3, <1>4, <1>5, <1>6 DEF Sending

(* A transaction on messages that exist, by a command that ends with it or  *)
(* goes on soundly.                                                         *)
LEMMA TransactionOK ==
  ASSUME CommandsInv, [StoreNext]_storeVars, UNCHANGED <<todoVars, envelope, roleState>>,
         \A m \in Message : state[m] = "none" => state'[m] = "none",
         job' = job \/ \E p \in Proc : \E next \in Job :
           /\ GoTo(p, next)
           /\ next.at # "insert_todo"
           /\ next.at = "reply" => /\ state[next.message] # "none"
                                   /\ envelope[next.message].sender \in Role
                                   /\ next.message \in Message
  PROVE  CommandsInv' /\ [StoreNext]_storeVars
<1>1. /\ StoreInv' /\ TodosOK' /\ TodosClaimed' /\ EnvelopesOK'
      /\ roleState' \in [Role -> RoleState] /\ Keeps
  BY StoreStepOK
<1>2. CASE job' = job
  <2>1. JobsOK'  BY <1>1, <1>2, JobsStay DEF CommandsInv
  <2> QED  BY <1>1, <2>1 DEF CommandsInv
<1>3. ASSUME NEW p \in Proc, NEW next \in Job, GoTo(p, next), next.at # "insert_todo",
             next.at = "reply" => /\ state[next.message] # "none"
                                  /\ envelope[next.message].sender \in Role
                                  /\ next.message \in Message
      PROVE  CommandsInv' /\ [StoreNext]_storeVars
  <2>1. next.at = "reply" => state'[next.message] # "none"
                             /\ envelope'[next.message].sender \in Role
    BY <1>1, <1>3 DEF Keeps
  <2>2. JobsOK'  BY <1>1, <1>3, <2>1, JobStep DEF CommandsInv
  <2> QED  BY <1>1, <2>2 DEF CommandsInv
<1> QED  BY <1>2, <1>3

(* The transactions on claimed or claimable messages insert no row.         *)
LEMMA NoInsert ==
  ASSUME CommandsInv, NEW r \in Role, NEW m \in Message,
         ClaimNext(r, m) \/ AckMessage(r, m) \/ CompleteMessage(r, m)
  PROVE  /\ StoreNext
         /\ \A n \in Message : state[n] = "none" => state'[n] = "none"
<1>1. StoreNext  BY DEF StoreNext
<1>2. state \in [Message -> State]  BY DEF CommandsInv, StoreInv, StoreTypeOK
<1>3. state[m] # "none"
  BY DEF ClaimNext, AckMessage, CompleteMessage, ClaimCandidates, Inbox
<1>4. \A n \in Message \ {m} : state'[n] = state[n]
  BY <1>2 DEF ClaimNext, AckMessage, CompleteMessage
<1> QED  BY <1>1, <1>3, <1>4

(* The steps of the inbox subcommands keep the invariant.                   *)
LEMMA WorkingOK ==
  ASSUME CommandsInv, NEW p \in Proc, Working(p)
  PROVE  CommandsInv' /\ [StoreNext]_storeVars
<1>1. ASSUME NEW r \in Role, NEW m \in Message, NEW autoAck \in BOOLEAN,
             InboxNext(p, r, m, autoAck)
      PROVE  CommandsInv' /\ [StoreNext]_storeVars
  <2> DEFINE next == IF autoAck THEN [at |-> "auto_ack", role |-> r, message |-> m] ELSE Idle
  <2>1. next \in Job /\ next.at \in {"auto_ack", "idle"}  BY IdleIsJob DEF Job
  <2>2. ClaimNext(r, m) /\ GoTo(p, next) /\ UNCHANGED <<todoVars, envelope, roleState>>
    BY <1>1 DEF InboxNext
  <2>3. StoreNext /\ \A n \in Message : state[n] = "none" => state'[n] = "none"
    BY <2>2, NoInsert
  <2> HIDE DEF next
  <2> QED  BY <2>1, <2>2, <2>3, TransactionOK
<1>2. ASSUME NEW r \in Role, NEW m \in Message, InboxAck(p, r, m)
      PROVE  CommandsInv' /\ [StoreNext]_storeVars
  <2>1. AckMessage(r, m) /\ job' = job /\ UNCHANGED <<todoVars, envelope, roleState>>
    BY <1>2 DEF InboxAck
  <2>2. StoreNext /\ \A n \in Message : state[n] = "none" => state'[n] = "none"
    BY <2>1, NoInsert
  <2> QED  BY <2>1, <2>2, TransactionOK
<1>3. ASSUME NEW r \in Role, NEW m \in Message, NEW allowOpen \in BOOLEAN,
             NEW reply \in BOOLEAN, NEW wake \in BOOLEAN,
             StartComplete(p, r, m, allowOpen, reply, wake)
      PROVE  CommandsInv' /\ [StoreNext]_storeVars
  <2> DEFINE next == [at |-> "complete", role |-> r, message |-> m, allowed |-> allowOpen,
                      reply |-> reply, wake |-> wake]
  <2>1. next \in Job /\ next.at = "complete"  BY DEF Job
  <2>2. GoTo(p, next) /\ UNCHANGED <<storeVars, todoVars, envelope, roleState>>
    BY <1>3 DEF StartComplete
  <2> HIDE DEF next
  <2> QED  BY <2>1, <2>2, JobOnlyOK
<1>4. ASSUME NEW r \in Role, NEW S \in SUBSET Message, InboxCompleteReplies(p, r, S)
      PROVE  CommandsInv' /\ [StoreNext]_storeVars
  <2>1. CompleteReplies(r, S) /\ job' = job /\ UNCHANGED <<todoVars, envelope, roleState>>
    BY <1>4 DEF InboxCompleteReplies
  <2>2. StoreNext  BY <2>1 DEF StoreNext
  <2>3. \A n \in Message : state[n] = "none" => state'[n] = "none"
    BY <2>1 DEF CompleteReplies, ReadReplies, Held
  <2> QED  BY <2>1, <2>2, <2>3, TransactionOK
<1>5. CASE AutoAck(p)
  <2>1. job[p].role \in Role /\ job[p].message \in Message
    BY <1>5, JobKinds DEF AutoAck, At, CommandsInv, JobsOK
  <2>2. GoTo(p, Idle) /\ UNCHANGED <<todoVars, envelope, roleState>>  BY <1>5 DEF AutoAck
  <2>3. CASE AckMessage(job[p].role, job[p].message)
    <3>1. StoreNext /\ \A n \in Message : state[n] = "none" => state'[n] = "none"
      BY <2>1, <2>3, NoInsert
    <3> QED  BY <2>2, <3>1, IdleIsJob, TransactionOK
  <2>4. CASE UNCHANGED storeVars
    <3>1. UNCHANGED <<storeVars, todoVars, envelope, roleState>>  BY <2>2, <2>4
    <3> QED  BY <2>2, <3>1, IdleIsJob, JobOnlyOK
  <2> QED  BY <1>5, <2>3, <2>4 DEF AutoAck
<1>6. CASE FinishComplete(p)
  <2> DEFINE c == job[p]
             next == IF c.reply /\ Answerable(c.message)
                     THEN [at |-> "reply", role |-> c.role, message |-> c.message,
                           wake |-> c.wake]
                     ELSE Idle
  <2>1. c.role \in Role /\ c.message \in Message /\ c.wake \in BOOLEAN
    BY <1>6, JobKinds DEF FinishComplete, At, CommandsInv, JobsOK
  <2>2. UNCHANGED <<todoVars, envelope, roleState>>  BY <1>6 DEF FinishComplete
  <2>3. CASE CompleteMessage(c.role, c.message) /\ GoTo(p, next)
    <3>1. next \in Job /\ next.at \in {"reply", "idle"}  BY <2>1, IdleIsJob DEF Job
    <3>2. StoreNext /\ \A n \in Message : state[n] = "none" => state'[n] = "none"
      BY <2>1, <2>3, NoInsert
    <3>3. state[c.message] # "none"  BY <2>3 DEF CompleteMessage, Inbox
    <3>4. next.at = "reply" => next.message = c.message /\ envelope[c.message].sender \in Role
      BY IdleIsJob DEF Answerable
    <3> HIDE DEF next
    <3> QED  BY <2>1, <2>2, <2>3, <3>1, <3>2, <3>3, <3>4, TransactionOK
  <2>4. CASE GoTo(p, Idle) /\ UNCHANGED storeVars
    <3>1. UNCHANGED <<storeVars, todoVars, envelope, roleState>>  BY <2>2, <2>4
    <3> QED  BY <2>4, <3>1, IdleIsJob, JobOnlyOK
  <2> QED  BY <1>6, <2>3, <2>4 DEF FinishComplete
<1>7. CASE StartReply(p)
  <2> DEFINE to == envelope[job[p].message].sender
             next == [at |-> "create", kind |-> "completion_notice", priority |-> Normal,
                      recipient |-> to, sender |-> job[p].role, related |-> job[p].message,
                      born |-> Birth(to, Normal, FALSE), forced |-> FALSE,
                      wake |-> job[p].wake]
  <2>1. /\ job[p].role \in Role /\ job[p].message \in Message /\ job[p].wake \in BOOLEAN
        /\ to \in Role
    BY <1>7, JobKinds DEF StartReply, At, CommandsInv, JobsOK
  <2> HIDE DEF to
  <2>2. next \in Draft
    BY <2>1, BirthType, SenderAssumption, PriorityUseAssumption DEF Draft, Kind, Normal
  <2>3. next \in Job /\ next.at = "create"  BY <2>2 DEF Job
  <2>4. GoTo(p, next) /\ UNCHANGED <<storeVars, todoVars, envelope, roleState>>
    BY <1>7 DEF StartReply, to
  <2> HIDE DEF next
  <2> QED  BY <2>3, <2>4, JobOnlyOK
<1> QED  BY <1>1, <1>2, <1>3, <1>4, <1>5, <1>6, <1>7 DEF Working

(* The steps of the todo subcommands keep the invariant.                    *)
LEMMA ChecklistOK ==
  ASSUME CommandsInv, NEW p \in Proc, Checklist(p)
  PROVE  CommandsInv' /\ [StoreNext]_storeVars
<1> USE DEF CommandsInv
<1>1. ASSUME NEW m \in Message, StartAddTodo(p, m)
      PROVE  CommandsInv' /\ [StoreNext]_storeVars
  <2> DEFINE next == [at |-> "insert_todo", message |-> m]
  <2>1. next \in Job /\ next.at = "insert_todo" /\ next.message = m  BY DEF Job
  <2>2. lease[m] # NoLease
    <3>1. state[m] \in {"claimed", "acknowledged"}  BY <1>1 DEF StartAddTodo, Held
    <3>2. row[m].kind # "notice"  BY <3>1 DEF StoreInv, NoticesAreRecords
    <3> QED  BY <3>1, <3>2 DEF StoreInv, ClaimsExpire, ClosedWasClaimed
  <2>3. GoTo(p, next) /\ UNCHANGED <<storeVars, todoVars, envelope, roleState>>
    BY <1>1 DEF StartAddTodo
  <2> HIDE DEF next
  <2> QED  BY <2>1, <2>2, <2>3, JobOnlyOK
<1>2. ASSUME NEW t \in Todo, FinishAddTodo(p, t)
      PROVE  CommandsInv' /\ [StoreNext]_storeVars
  <2> DEFINE m == job[p].message
  <2>1. m \in Message /\ lease[m] # NoLease
    BY <1>2, JobKinds DEF FinishAddTodo, JobsOK, At
  <2>2. InsertTodo(t, m) /\ UNCHANGED <<storeVars, envelope, roleState>> /\ GoTo(p, Idle)
    BY <1>2 DEF FinishAddTodo
  <2> HIDE DEF m
  <2>3. TodosOK'  BY <2>1, <2>2, InsertTodoOK
  <2>4. TodosClaimed'
    BY <2>1, <2>2 DEF InsertTodo, TodosClaimed, TodosOK, TodoTypeOK, storeVars
  <2> QED  BY <2>2, <2>3, <2>4, TodoOnlyOK
<1>3. CASE EditTodo(p)
  <2>1. UNCHANGED <<storeVars, envelope, roleState>> /\ job' = job /\ lease' = lease
    BY <1>3 DEF EditTodo, storeVars
  <2>2. ASSUME NEW t \in Todo, CompleteTodo(t) \/ ReopenTodo(t)
        PROVE  TodosOK' /\ TodosClaimed'
    <3>1. TodosOK'  BY <2>2, MarkTodoOK
    <3>2. TodosClaimed'
      BY <2>1, <2>2 DEF CompleteTodo, ReopenTodo, TodosClaimed, TodosOK, TodoTypeOK
    <3> QED  BY <3>1, <3>2
  <2>3. ASSUME NEW t \in Todo, NEW u \in Todo, SupersedeTodo(t, u)
        PROVE  TodosOK' /\ TodosClaimed'
    <3>1. TodosOK'  BY <2>3, SupersedeTodoOK
    <3>2. TodosClaimed'
      BY <2>1, <2>3 DEF SupersedeTodo, TodosClaimed, TodosOK, TodoTypeOK
    <3> QED  BY <3>1, <3>2
  <2>4. ASSUME NEW m \in Message, ClearTodos(m)
        PROVE  TodosOK' /\ TodosClaimed'
    <3>1. TodosOK'  BY <2>4, ClearTodosOK
    <3>2. \A t \in Todo : todoMessage[t] = m => todoState[t] # "none"
      BY NoMessageAssumption DEF TodosOK, TodoTypeOK
    <3>3. TodosClaimed'
      BY <2>1, <2>4, <3>2 DEF ClearTodos, TodosClaimed, TodosOK, TodoTypeOK
    <3> QED  BY <3>1, <3>3
  <2>5. TodosOK' /\ TodosClaimed'  BY <1>3, <2>2, <2>3, <2>4 DEF EditTodo
  <2> QED  BY <2>1, <2>5, TodoOnlyOK
<1> QED  BY <1>1, <1>2, <1>3 DEF Checklist

(* A role that is paused or resumed disturbs no table but its own.          *)
LEMMA SetRoleStateOK ==
  ASSUME CommandsInv, NEW p \in Proc, NEW r \in Role, NEW s \in RoleState, SetRoleState(p, r, s)
  PROVE  CommandsInv' /\ [StoreNext]_storeVars
<1>1. UNCHANGED <<storeVars, todoVars, envelope>> /\ job' = job
      /\ roleState' \in [Role -> RoleState]
  BY DEF SetRoleState, CommandsInv
<1>2. StoreInv'  BY <1>1, NextInv DEF CommandsInv
<1>3. state' = state /\ lease' = lease /\ envelope' = envelope  BY <1>1 DEF storeVars
<1>4. TodosOK'
  BY <1>1 DEF CommandsInv, TodosOK, TodoTypeOK, SupersedeChain, ReplacementsExist, todoVars
<1>5. TodosClaimed'  BY <1>1, <1>3 DEF CommandsInv, TodosClaimed, todoVars
<1>6. EnvelopesOK'  BY <1>3 DEF CommandsInv, EnvelopesOK
<1>7. JobsOK'  BY <1>1, <1>3 DEF CommandsInv, JobsOK, At
<1> QED  BY <1>1, <1>2, <1>4, <1>5, <1>6, <1>7 DEF CommandsInv

(* Every step keeps the invariant and is a step of the store or a stutter.  *)
LEMMA CommandsStep ==
  CommandsInv /\ [Next]_commandVars => CommandsInv' /\ [StoreNext]_storeVars
<1> SUFFICES ASSUME CommandsInv, [Next]_commandVars
             PROVE  CommandsInv' /\ [StoreNext]_storeVars
  OBVIOUS
<1>1. ASSUME NEW p \in Proc, Abort(p)  PROVE CommandsInv' /\ [StoreNext]_storeVars
  <2>1. GoTo(p, Idle) /\ UNCHANGED <<storeVars, todoVars, envelope, roleState>>
    BY <1>1 DEF Abort
  <2> QED  BY <2>1, IdleIsJob, JobOnlyOK
<1>2. CASE PassTime
  <2>1. StoreNext /\ job' = job /\ UNCHANGED <<todoVars, envelope, roleState>>
    BY <1>2 DEF PassTime, StoreNext
  <2>2. \A m \in Message : state[m] = "none" => state'[m] = "none"
    BY <1>2 DEF PassTime, Tick
  <2> QED  BY <2>1, <2>2, TransactionOK
<1>3. CASE UNCHANGED commandVars
  <2>1. /\ UNCHANGED <<storeVars, todoVars, envelope, roleState>> /\ job' = job
        /\ UNCHANGED <<todoVars, envelope, roleState>> /\ state' = state
    BY <1>3 DEF commandVars, storeVars
  <2> QED  BY <2>1, TransactionOK
<1> QED
  BY <1>1, <1>2, <1>3, SendingOK, WorkingOK, ChecklistOK, SetRoleStateOK DEF Next

(* The invariant holds of an empty database and fresh commands.             *)
LEMMA CommandsInit == Init => CommandsInv
<1> SUFFICES ASSUME Init PROVE CommandsInv  OBVIOUS
<1>1. StoreInv  BY InitInv DEF Init
<1>2. TodosOK /\ TodosClaimed
  BY DEF Init, TodoInit, TodosOK, TodoTypeOK, TodoState, SupersedeChain, ReplacementsExist,
         TodosClaimed
<1>3. EnvelopesOK  BY DEF Init, StoreInit, EnvelopesOK
<1>4. roleState \in [Role -> RoleState]  BY RoleStateAssumption DEF Init
<1>5. JobsOK
  <2>1. job \in [Proc -> Job] /\ \A p \in Proc : job[p].at = "idle"
    BY IdleIsJob DEF Init
  <2> QED  BY <2>1 DEF JobsOK, At
<1> QED  BY <1>1, <1>2, <1>3, <1>4, <1>5 DEF CommandsInv

(* The inductive invariant of the commands.                                 *)
THEOREM CommandsInvariant == Spec => []CommandsInv
<1>1. Init => CommandsInv  BY CommandsInit
<1>2. CommandsInv /\ [Next]_commandVars => CommandsInv'  BY CommandsStep
<1> QED  BY <1>1, <1>2, PTL DEF Spec

(* Type correctness of the commands and of all the tables they share.       *)
THEOREM CommandsTypeCorrect == Spec => []CommandsTypeOK
<1>1. CommandsInv => CommandsTypeOK
  BY DEF CommandsInv, CommandsTypeOK, StoreInv, TodosOK, EnvelopesOK, JobsOK
<1> QED  BY <1>1, CommandsInvariant, PTL

(* Whatever commands do, together or dying half-way, the store sees its own *)
(* transactions one after another (MessageStore's specification).           *)
THEOREM CommandsImplementStore == Spec => StoreSpec
<1>1. Init => StoreInit  BY DEF Init
<1>2. CommandsInv /\ [Next]_commandVars => [StoreNext]_storeVars  BY CommandsStep
<1> QED  BY <1>1, <1>2, CommandsInvariant, PTL DEF Spec, StoreSpec

(* Hence the promises of WorkQueue hold for the running system.             *)
THEOREM CommandsImplementQueue == Spec => QueueImplementation
BY CommandsImplementStore, StoreImplementsQueue, PTL

(* What a message that a role has accepted, finished or never got may still *)
(* become.                                                                  *)
Onward(m) ==
  /\ state[m] \in {"acknowledged", "completed"} => state'[m] \in {"acknowledged", "completed"}
  /\ state[m] = "completed" => state'[m] = "completed"
  /\ state[m] = "blocked" => state'[m] = "blocked"

ClosedForGood == [][\A m \in Message : Onward(m)]_commandVars

(* The items of WorkQueue.                                                  *)
LEMMA QueueGoesOn ==
  ASSUME [Queue!Next]_QueueStatus, NEW m \in Message
  PROVE  /\ QueueStatus[m] \in {"accepted", "finished"} =>
              QueueStatus'[m] \in {"accepted", "finished"}
         /\ QueueStatus[m] = "finished" => QueueStatus'[m] = "finished"
         /\ QueueStatus[m] = "parked" => QueueStatus'[m] = "parked"
<1>1. ASSUME NEW S \in SUBSET Message, NEW from, NEW to, Queue!Move(S, from, to)
      PROVE  QueueStatus'[m] = QueueStatus[m] \/ (QueueStatus[m] \in from /\ QueueStatus'[m] = to)
  BY <1>1 DEF Queue!Move
<1>2. CASE \E i \in Message : Queue!Post(i) \/ Queue!Lease(i) \/ Queue!Accept(i)
  BY <1>1, <1>2 DEF Queue!Post, Queue!Lease, Queue!Accept
<1>3. CASE \E S \in SUBSET Message : Queue!Lapse(S) \/ Queue!Finish(S)
  BY <1>1, <1>3 DEF Queue!Lapse, Queue!Finish
<1>4. CASE UNCHANGED QueueStatus
  BY <1>4
<1> QED  BY <1>2, <1>3, <1>4 DEF Queue!Next

(* Acknowledged work is never offered to anybody again, completed work is   *)
(* never reopened and a blocked message never delivered, whichever commands *)
(* of which roles race or die: claim_next, ack_message and complete_message *)
(* repeat in their UPDATE what their SELECT saw.                            *)
THEOREM WorkIsClosedForGood == Spec => ClosedForGood
<1>1. CommandsInv /\ CommandsInv' /\ [Next]_commandVars => [\A m \in Message : Onward(m)]_commandVars
  <2> SUFFICES ASSUME CommandsInv, CommandsInv', [Next]_commandVars, NEW m \in Message
               PROVE  Onward(m)
    OBVIOUS
  <2>1. StoreInv /\ StoreInv' /\ StoreTypeOK /\ StoreTypeOK'
    BY DEF CommandsInv, StoreInv
  <2>2. [Queue!Next]_QueueStatus
    BY <2>1, CommandsStep, NextImplements
  <2>3. state[m] \in State /\ state'[m] \in State
    BY <2>1 DEF StoreTypeOK
  <2>4. /\ state[m] = "completed" <=> QueueStatus[m] = "finished"
        /\ state[m] = "acknowledged" <=> QueueStatus[m] = "accepted"
        /\ state[m] = "blocked" <=> QueueStatus[m] = "parked"
    BY <2>1, <2>3, StatusOf DEF State, Claimable, Held
  <2>5. /\ state'[m] = "completed" <=> QueueStatus'[m] = "finished"
        /\ state'[m] = "acknowledged" <=> QueueStatus'[m] = "accepted"
        /\ state'[m] = "blocked" <=> QueueStatus'[m] = "parked"
    BY <2>1, <2>3, StatusOfNext DEF State, Claimable, Held
  <2> QED  BY <2>2, <2>4, <2>5, QueueGoesOn DEF Onward
<1> QED  BY <1>1, CommandsInvariant, PTL DEF Spec, ClosedForGood

(* An open todo sits on work that was claimed, although todo add checks the *)
(* message in one step and inserts in another.                              *)
THEOREM TodosSitOnClaimedWork == Spec => []TodosOnClaimedWork
<1>1. CommandsInv => TodosOnClaimedWork
  BY DEF CommandsInv, TodosClaimed, TodosOnClaimedWork
<1> QED  BY <1>1, CommandsInvariant, PTL

(* The audit trail of superseded todos is never broken.                     *)
THEOREM SupersededTodosChain == Spec => []SupersedeChain
<1>1. CommandsInv => SupersedeChain  BY DEF CommandsInv, TodosOK
<1> QED  BY <1>1, CommandsInvariant, PTL

-----------------------------------------------------------------------------
(* Completion replies. *)

(* Role r has done the work of message m and closed it.                     *)
Answers(m, r) == state[m] = "completed" /\ row[m].kind = "task" /\ row[m].recipient = r

(* A reply about m, from the role that did the work to the one that asked.  *)
SoundReply(m, from, to) == m \in Message /\ Answers(m, from) /\ envelope[m].sender = to

IsReply(n) == state[n] # "none" /\ row[n].kind = "completion_notice"

IsDraft(p) == At(p, "create") /\ job[p].kind = "completion_notice"

(* Every reply is sound from the moment its command has closed the work.    *)
AnswersOK ==
  /\ \A n \in Message :
       IsReply(n) => SoundReply(envelope[n].related, envelope[n].sender, row[n].recipient)
  /\ \A p \in Proc :
       /\ IsDraft(p) => SoundReply(job[p].related, job[p].sender, job[p].recipient)
       /\ At(p, "reply") => Answers(job[p].message, job[p].role)

Reports(n, m) == IsReply(n) /\ envelope[n].related = m

Owes(p, m) ==
  \/ At(p, "reply") /\ job[p].message = m
  \/ IsDraft(p) /\ job[p].related = m

(* No message has two replies, counting the one a command still owes.       *)
OneAnswer ==
  \A m \in Message :
    /\ \A n, k \in Message : Reports(n, m) /\ Reports(k, m) => n = k
    /\ \A p, q \in Proc : Owes(p, m) /\ Owes(q, m) => p = q
    /\ \A n \in Message, p \in Proc : ~(Reports(n, m) /\ Owes(p, m))

ReplyInv == AnswersOK /\ OneAnswer

(* A row is written once, and completed is a final state.                   *)
Settles ==
  \A m \in Message :
    /\ state[m] # "none" => /\ state'[m] # "none" /\ row'[m] = row[m]
                            /\ envelope'[m] = envelope[m]
    /\ state[m] = "completed" => state'[m] = "completed"

(* No transaction of the store changes a row, or reopens completed work.    *)
LEMMA StoreSettles ==
  ASSUME StoreInv, [StoreNext]_storeVars, NEW m \in Message
  PROVE  /\ state[m] # "none" => state'[m] # "none" /\ row'[m] = row[m]
         /\ state[m] = "completed" => state'[m] = "completed"
<1>1. state \in [Message -> State] /\ row \in [Message -> Row \cup {NoRow}]
  BY DEF StoreInv, StoreTypeOK
<1>2. ASSUME NEW n \in Message, NEW kind \in Kind, NEW p \in Priority, NEW r \in Role,
             NEW born \in State, CreateMessage(n, kind, p, r, born)
      PROVE  state[m] # "none" => state'[m] = state[m] /\ row'[m] = row[m]
  BY <1>1, <1>2 DEF CreateMessage
<1>3. ASSUME NEW r \in Role, NEW n \in Message,
             ClaimNext(r, n) \/ AckMessage(r, n) \/ CompleteMessage(r, n)
      PROVE  /\ state[m] # "none" => state'[m] # "none"
             /\ state[m] = "completed" => state'[m] = "completed"
             /\ row' = row
  BY <1>1, <1>3
     DEF ClaimNext, AckMessage, CompleteMessage, ClaimCandidates, Claimable, Expired, Held
<1>4. ASSUME NEW r \in Role, NEW S \in SUBSET Message, CompleteReplies(r, S)
      PROVE  /\ state[m] # "none" => state'[m] # "none"
             /\ state[m] = "completed" => state'[m] = "completed"
             /\ row' = row
  BY <1>4 DEF CompleteReplies
<1>5. ASSUME NEW r \in Role, MarkNotified(r)
      PROVE  /\ state[m] # "none" => state'[m] # "none"
             /\ state[m] = "completed" => state'[m] = "completed"
             /\ row' = row
  BY <1>5 DEF MarkNotified
<1>6. CASE Tick  BY <1>6 DEF Tick
<1>7. CASE UNCHANGED storeVars  BY <1>7 DEF storeVars
<1> QED  BY <1>2, <1>3, <1>4, <1>5, <1>6, <1>7 DEF StoreNext

(* What was sound stays sound, whatever is written.                         *)
LEMMA SoundStays ==
  ASSUME Settles, NEW m, NEW r
  PROVE  /\ m \in Message /\ Answers(m, r) => Answers(m, r)'
         /\ \A to : SoundReply(m, r, to) => SoundReply(m, r, to)'
BY DEF Settles, Answers, SoundReply

(* A step that neither records a reply nor lets a command owe one.          *)
LEMMA QuietOK ==
  ASSUME CommandsInv, ReplyInv, Settles,
         \A n \in Message : IsReply(n)' => state[n] # "none",
         \A p \in Proc : job'[p] = job[p] \/ (~At(p, "reply") /\ ~IsDraft(p))'
  PROVE  ReplyInv'
<1>1. \A n \in Message : IsReply(n)' => /\ IsReply(n) /\ row'[n] = row[n]
                                        /\ envelope'[n] = envelope[n]
  BY DEF Settles, IsReply
<1>2. \A p \in Proc : At(p, "reply")' \/ IsDraft(p)' => job'[p] = job[p]
  OBVIOUS
<1>3. \A p \in Proc : At(p, "reply") => job[p].message \in Message
  BY JobKinds DEF CommandsInv, JobsOK, At
<1>4. AnswersOK'
  <2>1. ASSUME NEW n \in Message, IsReply(n)'
        PROVE  SoundReply(envelope[n].related, envelope[n].sender, row[n].recipient)'
    BY <1>1, <2>1, SoundStays DEF ReplyInv, AnswersOK
  <2>2. ASSUME NEW p \in Proc, IsDraft(p)'
        PROVE  SoundReply(job[p].related, job[p].sender, job[p].recipient)'
    <3>1. job'[p] = job[p] /\ IsDraft(p)  BY <1>2, <2>2 DEF IsDraft, At
    <3> QED  BY <3>1, SoundStays DEF ReplyInv, AnswersOK
  <2>3. ASSUME NEW p \in Proc, At(p, "reply")'
        PROVE  Answers(job[p].message, job[p].role)'
    <3>1. job'[p] = job[p] /\ At(p, "reply")  BY <1>2, <2>3 DEF At
    <3> QED  BY <1>3, <3>1, SoundStays DEF ReplyInv, AnswersOK
  <2> QED  BY <2>1, <2>2, <2>3 DEF AnswersOK
<1>5. OneAnswer'
  <2>1. \A n, m \in Message : Reports(n, m)' => Reports(n, m)  BY <1>1 DEF Reports
  <2>2. \A p \in Proc, m \in Message : Owes(p, m)' => Owes(p, m)
    BY <1>2 DEF Owes, IsDraft, At
  <2> QED  BY <2>1, <2>2 DEF ReplyInv, OneAnswer
<1> QED  BY <1>4, <1>5 DEF ReplyInv

(* What was Settles for the store is Settles for the commands, which write  *)
(* the envelope with the row and never again.                               *)
LEMMA CommandsSettle ==
  ASSUME CommandsInv, [StoreNext]_storeVars,
         \A m \in Message : state[m] # "none" => envelope'[m] = envelope[m]
  PROVE  Settles
BY StoreSettles DEF Settles, CommandsInv

(* A command that answers nobody: it inserts no row, and what it does next, *)
(* if it goes on at all, is not to reply.                                   *)
LEMMA SilentOK ==
  ASSUME CommandsInv, ReplyInv, [StoreNext]_storeVars, envelope' = envelope,
         \A n \in Message : state[n] = "none" => state'[n] = "none",
         NEW p \in Proc, \A q \in Proc \ {p} : job'[q] = job[q],
         \/ job'[p] = job[p]
         \/ /\ job'[p].at # "reply"
            /\ job'[p].at = "create" => job'[p].kind # "completion_notice"
  PROVE  ReplyInv'
<1>1. Settles  BY CommandsSettle
<1>2. \A n \in Message : IsReply(n)' => state[n] # "none"  BY DEF IsReply
<1>3. \A q \in Proc : job'[q] = job[q] \/ (~At(q, "reply") /\ ~IsDraft(q))'
  BY DEF At, IsDraft
<1> QED  BY <1>1, <1>2, <1>3, QuietOK

(* The INSERT: a reply that was owed is on record, and nothing else is owed *)
(* or recorded.                                                             *)
LEMMA CreateReplyOK ==
  ASSUME CommandsInv, ReplyInv, NEW p \in Proc, NEW n \in Message, Create(p, n),
         [StoreNext]_storeVars
  PROVE  ReplyInv'
<1> DEFINE d == job[p]
           next == IF d.born = "queued" /\ d.wake
                   THEN [at |-> "notify", role |-> d.recipient] ELSE Idle
<1>1. job \in [Proc -> Job] /\ d \in Draft /\ At(p, "create")
  BY JobKinds DEF Create, At, CommandsInv, JobsOK
<1>2. /\ state[n] = "none" /\ row'[n].kind = d.kind /\ row'[n].recipient = d.recipient
      /\ envelope'[n] = [sender |-> d.sender, related |-> d.related]
      /\ \A k \in Message \ {n} : state'[k] = state[k] /\ row'[k] = row[k]
                                  /\ envelope'[k] = envelope[k]
  BY DEF Create, CreateMessage, CommandsInv, StoreInv, StoreTypeOK, EnvelopesOK
<1>3. job'[p] = next /\ next.at \in {"notify", "idle"}
      /\ \A q \in Proc \ {p} : job'[q] = job[q]
  BY <1>1 DEF Create, GoTo, Idle
<1> HIDE DEF next
<1>4. Settles  BY <1>2, CommandsSettle
<1>5. ~At(p, "reply")' /\ ~IsDraft(p)'  BY <1>3 DEF At, IsDraft
<1>6. CASE d.kind # "completion_notice"
  <2>1. \A k \in Message : IsReply(k)' => state[k] # "none"  BY <1>2, <1>6 DEF IsReply
  <2>2. \A q \in Proc : job'[q] = job[q] \/ (~At(q, "reply") /\ ~IsDraft(q))'
    BY <1>3, <1>5
  <2> QED  BY <1>4, <2>1, <2>2, QuietOK
<1>7. CASE d.kind = "completion_notice"
  <2>1. IsDraft(p)  BY <1>1, <1>7 DEF IsDraft
  <2>2. PICK m \in Message, from \in Sender, to \in Role :
          m = d.related /\ from = d.sender /\ to = d.recipient
    BY <1>1, <2>1 DEF ReplyInv, AnswersOK, SoundReply, Draft
  <2>3. SoundReply(m, from, to)  BY <2>1, <2>2 DEF ReplyInv, AnswersOK
  <2>4. Owes(p, m)  BY <2>1, <2>2 DEF Owes
  <2>5. /\ \A k \in Message : ~Reports(k, m)
        /\ \A q \in Proc : Owes(q, m) => q = p
    BY <2>4 DEF ReplyInv, OneAnswer
  <2>6. \A k \in Message \ {n} : IsReply(k)' => IsReply(k)  BY <1>2 DEF IsReply
  <2>7. \A k \in Message \ {n}, l \in Message : Reports(k, l)' => Reports(k, l)
    BY <1>2, <2>6 DEF Reports
  <2>8. \A l \in Message : Reports(n, l)' => l = m  BY <1>2, <2>2 DEF Reports
  <2>9. \A q \in Proc, l \in Message : Owes(q, l)' => q # p /\ Owes(q, l)
    BY <1>3, <1>5 DEF Owes, IsDraft, At
  <2>10. OneAnswer'
    <3>1. \A l \in Message \ {m} : \A k \in Message : Reports(k, l)' => Reports(k, l)
      BY <2>7, <2>8
    <3>2. \A k \in Message : Reports(k, m)' => k = n  BY <2>5, <2>7
    <3>3. \A q \in Proc : ~Owes(q, m)'  BY <2>5, <2>9
    <3>4. ASSUME NEW l \in Message
          PROVE  /\ \A i, k \in Message : Reports(i, l)' /\ Reports(k, l)' => i = k
                 /\ \A q, o \in Proc : Owes(q, l)' /\ Owes(o, l)' => q = o
                 /\ \A k \in Message, q \in Proc : ~(Reports(k, l)' /\ Owes(q, l)')
      <4>1. CASE l = m  BY <3>2, <3>3, <4>1
      <4>2. CASE l # m  BY <2>9, <3>1, <4>2 DEF ReplyInv, OneAnswer
      <4> QED  BY <4>1, <4>2
    <3> QED  BY <3>4 DEF OneAnswer
  <2>11. AnswersOK'
    <3>1. ASSUME NEW k \in Message, IsReply(k)'
          PROVE  SoundReply(envelope[k].related, envelope[k].sender, row[k].recipient)'
      <4>1. CASE k = n
        <5>1. SoundReply(m, from, to)'  BY <1>4, <2>3, SoundStays
        <5> QED  BY <1>2, <2>2, <4>1, <5>1
      <4>2. CASE k # n
        BY <1>2, <1>4, <2>6, <3>1, <4>2, SoundStays DEF ReplyInv, AnswersOK
      <4> QED  BY <4>1, <4>2
    <3>2. ASSUME NEW q \in Proc, IsDraft(q)'
          PROVE  SoundReply(job[q].related, job[q].sender, job[q].recipient)'
      <4>1. job'[q] = job[q] /\ IsDraft(q)  BY <1>3, <1>5, <3>2 DEF IsDraft, At
      <4> QED  BY <1>4, <4>1, SoundStays DEF ReplyInv, AnswersOK
    <3>3. ASSUME NEW q \in Proc, At(q, "reply")'
          PROVE  Answers(job[q].message, job[q].role)'
      <4>1. job'[q] = job[q] /\ At(q, "reply")  BY <1>3, <1>5, <3>3 DEF At
      <4>2. job[q].message \in Message
        BY <4>1, JobKinds DEF CommandsInv, JobsOK, At
      <4> QED  BY <1>4, <4>1, <4>2, SoundStays DEF ReplyInv, AnswersOK
    <3> QED  BY <3>1, <3>2, <3>3 DEF AnswersOK
  <2> QED  BY <2>10, <2>11 DEF ReplyInv
<1> QED  BY <1>6, <1>7

(* inbox complete closes the work: the reply it now owes is the only one,   *)
(* since a message that was still held had none.                            *)
LEMMA FinishReplyOK ==
  ASSUME CommandsInv, ReplyInv, NEW p \in Proc, FinishComplete(p), [StoreNext]_storeVars
  PROVE  ReplyInv'
<1>1. PICK m \in Message, r \in Role : m = job[p].message /\ r = job[p].role
  BY JobKinds DEF FinishComplete, At, CommandsInv, JobsOK
<1> DEFINE next == [at |-> "reply", role |-> r, message |-> m, wake |-> job[p].wake]
<1>2. job \in [Proc -> Job] /\ At(p, "complete") /\ envelope' = envelope
  BY DEF FinishComplete, CommandsInv, JobsOK
<1>3. CASE GoTo(p, Idle)
  <2>1. \A n \in Message : state[n] = "none" => state'[n] = "none"
    BY <1>1, NoInsert DEF FinishComplete, storeVars
  <2>2. job'[p] = Idle /\ \A q \in Proc \ {p} : job'[q] = job[q]  BY <1>2, <1>3 DEF GoTo
  <2> QED  BY <1>2, <2>1, <2>2, IdleIsJob, SilentOK
<1>4. CASE CompleteMessage(r, m) /\ GoTo(p, next) /\ Answerable(m)
  <2>1. /\ state[m] \in {"claimed", "acknowledged"} /\ row[m].recipient = r
        /\ state'[m] = "completed" /\ row' = row
        /\ \A n \in Message : state'[n] = "none" <=> state[n] = "none"
    BY <1>1, <1>4 DEF CompleteMessage, Held, Inbox, CommandsInv, StoreInv, StoreTypeOK
  <2>2. row[m].kind = "task"
    <3>1. row[m] \in Row  BY <1>1, <2>1 DEF CommandsInv, StoreInv, StoreTypeOK
    <3>2. row[m].kind # "notice"
      BY <1>1, <2>1 DEF CommandsInv, StoreInv, NoticesAreRecords
    <3> QED  BY <1>4, <3>1, <3>2 DEF Answerable, Row, Kind
  <2>3. job'[p] = next /\ \A q \in Proc \ {p} : job'[q] = job[q]  BY <1>2, <1>4 DEF GoTo
  <2>4. Settles  BY <1>2, CommandsSettle
  <2>5. Answers(m, r)'  BY <1>1, <2>1, <2>2 DEF Answers
  <2>6. \A n \in Message : IsReply(n)' <=> IsReply(n)  BY <2>1 DEF IsReply
  <2>7. \A n \in Message : ~Reports(n, m)
    BY <1>1, <2>1 DEF Reports, ReplyInv, AnswersOK, SoundReply, Answers
  <2>8. \A q \in Proc : ~Owes(q, m)
    BY <1>1, <2>1 DEF Owes, ReplyInv, AnswersOK, SoundReply, Answers
  <2>9. \A n, l \in Message : Reports(n, l)' => Reports(n, l)
    BY <1>2, <2>6 DEF Reports
  <2>10. \A q \in Proc, l \in Message : Owes(q, l)' => Owes(q, l) \/ (q = p /\ l = m)
    BY <2>3 DEF Owes, IsDraft, At
  <2>11. OneAnswer'
    <3>1. ASSUME NEW l \in Message
          PROVE  /\ \A i, k \in Message : Reports(i, l)' /\ Reports(k, l)' => i = k
                 /\ \A q, o \in Proc : Owes(q, l)' /\ Owes(o, l)' => q = o
                 /\ \A k \in Message, q \in Proc : ~(Reports(k, l)' /\ Owes(q, l)')
      <4>1. CASE l = m  BY <2>7, <2>8, <2>9, <2>10, <4>1
      <4>2. CASE l # m  BY <2>9, <2>10, <4>2 DEF ReplyInv, OneAnswer
      <4> QED  BY <4>1, <4>2
    <3> QED  BY <3>1 DEF OneAnswer
  <2>12. AnswersOK'
    <3>1. ASSUME NEW n \in Message, IsReply(n)'
          PROVE  SoundReply(envelope[n].related, envelope[n].sender, row[n].recipient)'
      BY <1>2, <2>1, <2>4, <2>6, <3>1, SoundStays DEF ReplyInv, AnswersOK
    <3>2. ASSUME NEW q \in Proc, IsDraft(q)'
          PROVE  SoundReply(job[q].related, job[q].sender, job[q].recipient)'
      <4>1. job'[q] = job[q] /\ IsDraft(q)  BY <2>3, <3>2 DEF IsDraft, At
      <4> QED  BY <2>4, <4>1, SoundStays DEF ReplyInv, AnswersOK
    <3>3. ASSUME NEW q \in Proc, At(q, "reply")'
          PROVE  Answers(job[q].message, job[q].role)'
      <4>1. CASE q = p
        <5>1. job'[q].message = m /\ job'[q].role = r  BY <2>3, <4>1
        <5> QED  BY <2>5, <5>1 DEF Answers
      <4>2. CASE q # p
        <5>1. job'[q] = job[q] /\ At(q, "reply")  BY <2>3, <3>3, <4>2 DEF At
        <5>2. job[q].message \in Message
          BY <5>1, JobKinds DEF CommandsInv, JobsOK, At
        <5> QED  BY <2>4, <5>1, <5>2, SoundStays DEF ReplyInv, AnswersOK
      <4> QED  BY <4>1, <4>2
    <3> QED  BY <3>1, <3>2, <3>3 DEF AnswersOK
  <2> QED  BY <2>11, <2>12 DEF ReplyInv
<1> QED  BY <1>1, <1>3, <1>4 DEF FinishComplete

(* The reply that is owed is composed: owed as before, by the same command, *)
(* to the sender of the work.                                               *)
LEMMA StartReplyOK ==
  ASSUME CommandsInv, ReplyInv, NEW p \in Proc, StartReply(p)
  PROVE  ReplyInv'
<1> DEFINE m == job[p].message
           r == job[p].role
<1>1. /\ job \in [Proc -> Job] /\ At(p, "reply") /\ m \in Message
      /\ UNCHANGED <<state, row, envelope>>
  BY JobKinds DEF StartReply, At, CommandsInv, JobsOK, storeVars
<1>2. /\ job'[p].at = "create" /\ job'[p].kind = "completion_notice"
      /\ job'[p].related = m /\ job'[p].sender = r /\ job'[p].recipient = envelope[m].sender
      /\ \A q \in Proc \ {p} : job'[q] = job[q]
  BY <1>1 DEF StartReply, GoTo
<1>3. Answers(m, r)  BY <1>1 DEF ReplyInv, AnswersOK
<1>4. Owes(p, m)  BY <1>1 DEF Owes
<1>5. \A q \in Proc, l \in Message : Owes(q, l)' => Owes(q, l)
  BY <1>2, <1>4 DEF Owes, IsDraft, At
<1>6. \A n, l \in Message : Reports(n, l)' <=> Reports(n, l)
  BY <1>1 DEF Reports, IsReply
<1>7. OneAnswer'  BY <1>5, <1>6 DEF ReplyInv, OneAnswer
<1>8. \A a, b, t : (SoundReply(a, b, t)' <=> SoundReply(a, b, t))
                   /\ (Answers(a, b)' <=> Answers(a, b))
  BY <1>1 DEF SoundReply, Answers
<1>9. AnswersOK'
  <2>1. \A n \in Message :
          IsReply(n)' => SoundReply(envelope[n].related, envelope[n].sender, row[n].recipient)'
    BY <1>1, <1>8 DEF ReplyInv, AnswersOK, IsReply, SoundReply, Answers
  <2>2. ASSUME NEW q \in Proc
        PROVE  /\ IsDraft(q)' => SoundReply(job[q].related, job[q].sender, job[q].recipient)'
               /\ At(q, "reply")' => Answers(job[q].message, job[q].role)'
    <3>1. CASE q = p
      BY <1>1, <1>2, <1>3, <3>1 DEF SoundReply, Answers, At
    <3>2. CASE q # p
      <4>1. job'[q] = job[q]  BY <1>2, <3>2
      <4> QED
        BY <1>1, <4>1 DEF ReplyInv, AnswersOK, IsDraft, At, SoundReply, Answers
    <3> QED  BY <3>1, <3>2
  <2> QED  BY <2>1, <2>2 DEF AnswersOK
<1> QED  BY <1>7, <1>9 DEF ReplyInv

(* The steps of send, broadcast and notify answer nobody but by the INSERT  *)
(* of a reply that is owed.                                                 *)
LEMMA SendingReplyOK ==
  ASSUME CommandsInv, ReplyInv, NEW p \in Proc, Sending(p), [StoreNext]_storeVars
  PROVE  ReplyInv'
<1>1. ASSUME NEW s \in Sender, NEW r \in Role, NEW forced \in BOOLEAN,
             \/ \E priority \in SendPriority, wake \in BOOLEAN :
                  StartSend(p, s, r, priority, forced, wake)
             \/ StartNotice(p, s, r, forced)
      PROVE  ReplyInv'
  <2>1. /\ job'[p].at = "create" => job'[p].kind # "completion_notice"
        /\ job'[p].at # "reply"
        /\ \A q \in Proc \ {p} : job'[q] = job[q]
        /\ state' = state /\ envelope' = envelope
    BY <1>1 DEF StartSend, StartNotice, GoTo, CommandsInv, JobsOK, storeVars
  <2> QED  BY <2>1, SilentOK
<1>2. ASSUME NEW m \in Message, Create(p, m)  PROVE ReplyInv'
  BY <1>2, CreateReplyOK
<1>3. ASSUME NEW r \in Role, StartNotify(p, r)  PROVE ReplyInv'
  <2>1. /\ job'[p].at = "notify" /\ \A q \in Proc \ {p} : job'[q] = job[q]
        /\ state' = state /\ envelope' = envelope
    BY <1>3 DEF StartNotify, GoTo, CommandsInv, JobsOK, storeVars
  <2> QED  BY <2>1, SilentOK
<1>4. CASE Notify(p)
  <2>1. job[p] \in [at : {"notify", "mark"}, role : Role]
    BY <1>4 DEF Notify, At, CommandsInv, JobsOK, Job, Draft, Idle
  <2>2. /\ job'[p].at \in {"mark", "idle"} /\ \A q \in Proc \ {p} : job'[q] = job[q]
        /\ state' = state /\ envelope' = envelope
    BY <1>4, <2>1 DEF Notify, GoTo, CommandsInv, JobsOK, storeVars, Idle
  <2> QED  BY <2>2, SilentOK
<1>5. CASE Mark(p)
  <2>1. /\ job'[p].at = "idle" /\ \A q \in Proc \ {p} : job'[q] = job[q]
        /\ envelope' = envelope
        /\ \A n \in Message : state[n] = "none" => state'[n] = "none"
    BY <1>5 DEF Mark, MarkNotified, GoTo, CommandsInv, JobsOK, Idle
  <2> QED  BY <2>1, SilentOK
<1> QED  BY <1>1, <1>2, <1>3, <1>4, <1>5 DEF Sending

(* The inbox subcommands: complete may come to owe a reply, and composes    *)
(* it; nobody else answers.                                                 *)
LEMMA WorkingReplyOK ==
  ASSUME CommandsInv, ReplyInv, NEW p \in Proc, Working(p), [StoreNext]_storeVars
  PROVE  ReplyInv'
<1>1. ASSUME NEW r \in Role, NEW m \in Message, NEW autoAck \in BOOLEAN,
             InboxNext(p, r, m, autoAck)
      PROVE  ReplyInv'
  <2>1. \A n \in Message : state[n] = "none" => state'[n] = "none"
    BY <1>1, NoInsert DEF InboxNext
  <2>2. /\ job'[p].at \in {"auto_ack", "idle"} /\ \A q \in Proc \ {p} : job'[q] = job[q]
        /\ envelope' = envelope
    BY <1>1 DEF InboxNext, GoTo, CommandsInv, JobsOK, Idle
  <2> QED  BY <2>1, <2>2, SilentOK
<1>2. ASSUME NEW r \in Role, NEW m \in Message, InboxAck(p, r, m)  PROVE ReplyInv'
  <2>1. \A n \in Message : state[n] = "none" => state'[n] = "none"
    BY <1>2, NoInsert DEF InboxAck
  <2>2. job' = job /\ envelope' = envelope  BY <1>2 DEF InboxAck
  <2> QED  BY <2>1, <2>2, SilentOK
<1>3. ASSUME NEW r \in Role, NEW m \in Message, NEW allowOpen \in BOOLEAN,
             NEW reply \in BOOLEAN, NEW wake \in BOOLEAN,
             StartComplete(p, r, m, allowOpen, reply, wake)
      PROVE  ReplyInv'
  <2>1. /\ job'[p].at = "complete" /\ \A q \in Proc \ {p} : job'[q] = job[q]
        /\ state' = state /\ envelope' = envelope
    BY <1>3 DEF StartComplete, GoTo, CommandsInv, JobsOK, storeVars
  <2> QED  BY <2>1, SilentOK
<1>4. ASSUME NEW r \in Role, NEW S \in SUBSET Message, InboxCompleteReplies(p, r, S)
      PROVE  ReplyInv'
  <2>1. job' = job /\ envelope' = envelope
        /\ \A n \in Message : state[n] = "none" => state'[n] = "none"
    BY <1>4 DEF InboxCompleteReplies, CompleteReplies, ReadReplies, Held
  <2> QED  BY <2>1, SilentOK
<1>5. CASE AutoAck(p)
  <2>1. job[p].role \in Role /\ job[p].message \in Message
    BY <1>5, JobKinds DEF AutoAck, At, CommandsInv, JobsOK
  <2>2. \A n \in Message : state[n] = "none" => state'[n] = "none"
    BY <1>5, <2>1, NoInsert DEF AutoAck, storeVars
  <2>3. /\ job'[p].at = "idle" /\ \A q \in Proc \ {p} : job'[q] = job[q]
        /\ envelope' = envelope
    BY <1>5 DEF AutoAck, GoTo, CommandsInv, JobsOK, Idle
  <2> QED  BY <2>2, <2>3, SilentOK
<1> QED
  BY <1>1, <1>2, <1>3, <1>4, <1>5, FinishReplyOK, StartReplyOK DEF Working

(* Every step keeps replies sound and single.                               *)
LEMMA ReplyStep ==
  CommandsInv /\ ReplyInv /\ [Next]_commandVars => ReplyInv'
<1> SUFFICES ASSUME CommandsInv, ReplyInv, [Next]_commandVars  PROVE ReplyInv'
  OBVIOUS
<1>1. [StoreNext]_storeVars  BY CommandsStep
<1>2. ASSUME NEW p \in Proc,
             \/ Checklist(p)
             \/ Abort(p)
             \/ \E r \in Role, s \in RoleState : SetRoleState(p, r, s)
      PROVE  ReplyInv'
  <2>1. /\ state' = state /\ envelope' = envelope
        /\ job'[p] = job[p] \/ job'[p].at \in {"insert_todo", "idle"}
        /\ \A q \in Proc \ {p} : job'[q] = job[q]
    BY <1>2 DEF Checklist, StartAddTodo, FinishAddTodo, EditTodo, Abort, SetRoleState, GoTo,
                CommandsInv, JobsOK, storeVars, Idle
  <2> QED  BY <1>1, <2>1, SilentOK
<1>3. CASE PassTime \/ UNCHANGED commandVars
  <2>1. state' = state /\ row' = row /\ envelope' = envelope /\ job' = job
    BY <1>3 DEF PassTime, Tick, commandVars, storeVars
  <2>2. Settles  BY <1>1, <2>1, CommandsSettle
  <2>3. \A n \in Message : IsReply(n)' => state[n] # "none"  BY <2>1 DEF IsReply
  <2> QED  BY <2>1, <2>2, <2>3, QuietOK
<1> QED
  BY <1>1, <1>2, <1>3, SendingReplyOK, WorkingReplyOK DEF Next

(* Nobody has answered, or owes an answer, before there is work.            *)
LEMMA ReplyInit == Init => ReplyInv
<1> SUFFICES ASSUME Init PROVE ReplyInv  OBVIOUS
<1>1. \A p \in Proc : ~At(p, "reply") /\ ~IsDraft(p)  BY DEF Init, Idle, At, IsDraft
<1>2. \A n \in Message : ~IsReply(n)  BY DEF Init, StoreInit, IsReply
<1> QED  BY <1>1, <1>2 DEF ReplyInv, AnswersOK, OneAnswer, Reports, Owes

(* The invariant about replies; it needs that of the commands.              *)
THEOREM RepliesInvariant == Spec => []ReplyInv
<1>1. Init => ReplyInv  BY ReplyInit
<1>2. CommandsInv /\ ReplyInv /\ [Next]_commandVars => ReplyInv'  BY ReplyStep
<1> QED  BY <1>1, <1>2, CommandsInvariant, PTL DEF Spec

(* The invariant says what a reply on record, or owed, looks like.          *)
LEMMA RepliesAreSound == CommandsInv /\ ReplyInv => ReplySound
<1> SUFFICES ASSUME CommandsInv, ReplyInv, NEW m \in Message
             PROVE  /\ Replies(m) \cup Replying(m) # {} =>
                         state[m] = "completed" /\ row[m].kind = "task"
                    /\ \A n \in Replies(m) :
                         /\ envelope[n].sender = row[m].recipient
                         /\ row[n].recipient = envelope[m].sender
  BY DEF ReplySound
<1>1. \A n \in Replies(m) : SoundReply(m, envelope[n].sender, row[n].recipient)
  BY DEF Replies, IsReply, ReplyInv, AnswersOK
<1>2. \A p \in Replying(m) : state[m] = "completed" /\ row[m].kind = "task"
  BY DEF Replying, IsDraft, ReplyInv, AnswersOK, SoundReply, Answers
<1> QED  BY <1>1, <1>2 DEF SoundReply, Answers

(* A set of which no two members differ is finite, and counts at most one.  *)
LEMMA AtMostOne ==
  ASSUME NEW S, \A x, y \in S : x = y
  PROVE  Cardinality(S) \in {0, 1} /\ (S = {} => Cardinality(S) = 0)
<1>1. CASE S = {}  BY <1>1, FS_EmptySet
<1>2. CASE S # {}
  <2>1. PICK x \in S : TRUE  BY <1>2
  <2>2. S = {x}  BY <2>1
  <2> QED  BY <2>2, FS_Singleton
<1> QED  BY <1>1, <1>2

(* The invariant says that there is at most one.                            *)
LEMMA RepliesAreSingle == ReplyInv => ReplyAtMostOnce
<1> SUFFICES ASSUME ReplyInv, NEW m \in Message
             PROVE  Cardinality(Replies(m)) + Cardinality(Replying(m)) <= 1
  BY DEF ReplyAtMostOnce
<1>1. \A n \in Replies(m) : n \in Message /\ Reports(n, m)
  BY DEF Replies, Reports, IsReply
<1>2. \A p \in Replying(m) : p \in Proc /\ Owes(p, m)
  BY DEF Replying, Owes, IsDraft
<1>3. /\ \A n, k \in Replies(m) : n = k
      /\ \A p, q \in Replying(m) : p = q
      /\ Replies(m) = {} \/ Replying(m) = {}
  BY <1>1, <1>2 DEF ReplyInv, OneAnswer
<1>4. /\ Cardinality(Replies(m)) \in {0, 1}
      /\ Replies(m) = {} => Cardinality(Replies(m)) = 0
  BY <1>3, AtMostOne
<1>5. /\ Cardinality(Replying(m)) \in {0, 1}
      /\ Replying(m) = {} => Cardinality(Replying(m)) = 0
  BY <1>3, AtMostOne
<1> QED  BY <1>3, <1>4, <1>5

(* A reply reports closed work to the role that asked for it, whatever runs *)
(* between the completion, the composing and the INSERT.                    *)
THEOREM RepliesReportWork == Spec => []ReplySound
BY RepliesAreSound, RepliesInvariant, CommandsInvariant, PTL

(* Nobody is answered twice, even by two commands that complete the same    *)
(* message.                                                                 *)
THEOREM NobodyAnsweredTwice == Spec => []ReplyAtMostOnce
BY RepliesAreSingle, RepliesInvariant, PTL

=============================================================================
