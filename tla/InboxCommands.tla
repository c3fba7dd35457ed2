----------------------------- MODULE InboxCommands -----------------------------
(***************************************************************************)
(* The tmux-team commands that work on messages, todos and role states     *)
(* (cli.py cmd_send, cmd_broadcast, cmd_inbox, cmd_todo, cmd_role and      *)
(* cmd_notify, service.py).  A command is a process: it runs several store *)
(* transactions, remembers between them what it read, and other commands   *)
(* run in between.  job[p] says which transaction p runs next and what it  *)
(* carries to it.  A command may also die between two transactions (Abort);*)
(* one that failed closed in a hook ends the same way.                     *)
(***************************************************************************)
EXTENDS TodoStore

CONSTANTS
  Proc,          \* running commands
  Sender,        \* who sends: the managed roles and, say, an operator
  SendPriority,  \* priorities that the send command uses
  RoleState,     \* role states in use, of ROLE_STATES
  NoEnvelope     \* the envelope of a message that does not exist

ASSUME SenderAssumption == Role \subseteq Sender
ASSUME SendPriorityAssumption == SendPriority \subseteq Priority
ASSUME PriorityUseAssumption == {2, 3} \subseteq Priority
ASSUME RoleStateAssumption ==
  "active" \in RoleState /\ RoleState \subseteq {"active", "paused", "draining", "retired", "failed"}

VARIABLES
  envelope,   \* envelope[m]: the sender and related_to columns
  roleState,  \* roleState[r]: the state column of the roles table
  job         \* job[p]: where command p is

commandVars == <<storeVars, todoVars, envelope, roleState, job>>

Urgent == 0
Normal == 2
Low == 3

Envelope == [sender : Sender, related : Message \cup {NoMessage}]
ASSUME NoEnvelopeAssumption == NoEnvelope \notin Envelope

-----------------------------------------------------------------------------
(* What a command remembers between transactions. *)

Idle == [at |-> "idle"]

(* A message whose state was decided but which is not inserted yet.         *)
Draft == [at : {"create"}, kind : Kind, priority : Priority, recipient : Role,
          sender : Sender, related : Message \cup {NoMessage},
          born : {"queued", "completed", "blocked"}, forced : BOOLEAN, wake : BOOLEAN]

Job ==
  {Idle} \cup Draft
  \cup [at : {"notify", "mark"}, role : Role]
  \cup [at : {"auto_ack"}, role : Role, message : Message]
  \cup [at : {"complete"}, role : Role, message : Message, allowed : BOOLEAN,
        reply : BOOLEAN, wake : BOOLEAN]
  \cup [at : {"reply"}, role : Role, message : Message, wake : BOOLEAN]
  \cup [at : {"insert_todo"}, message : Message]

CommandsTypeOK ==
  /\ StoreTypeOK
  /\ TodoTypeOK
  /\ envelope \in [Message -> Envelope \cup {NoEnvelope}]
  /\ \A m \in Message : envelope[m] = NoEnvelope <=> state[m] = "none"
  /\ roleState \in [Role -> RoleState]
  /\ job \in [Proc -> Job]

Init ==
  /\ StoreInit
  /\ TodoInit
  /\ envelope = [m \in Message |-> NoEnvelope]
  /\ roleState = [r \in Role |-> "active"]
  /\ job = [p \in Proc |-> Idle]

GoTo(p, next) == job' = [job EXCEPT ![p] = next]

(* p is a fresh command, respectively at the transaction named at.          *)
Free(p) == job[p] = Idle
At(p, at) == job[p].at = at

-----------------------------------------------------------------------------
(* Sending. *)

(* The state send_message gives a message, from the role state it read.     *)
Birth(recipient, priority, forced) ==
  IF roleState[recipient] = "active" \/ forced \/ priority = Urgent THEN "queued" ELSE "blocked"

(* send, and broadcast for each recipient.  --related-to is shown to people *)
(* and read by nothing: a sent task carries none here.                      *)
StartSend(p, sender, recipient, priority, forced, wake) ==
  /\ Free(p)
  /\ GoTo(p, [at |-> "create", kind |-> "task", priority |-> priority,
              recipient |-> recipient, sender |-> sender, related |-> NoMessage,
              born |-> Birth(recipient, priority, forced), forced |-> forced, wake |-> wake])
  /\ UNCHANGED <<storeVars, todoVars, envelope, roleState>>

(* broadcast --notice: recorded as completed, nobody claims it.  Its wake   *)
(* changes no message, so the command ends with the INSERT.                 *)
StartNotice(p, sender, recipient, forced) ==
  /\ Free(p)
  /\ GoTo(p, [at |-> "create", kind |-> "notice", priority |-> Low,
              recipient |-> recipient, sender |-> sender, related |-> NoMessage,
              born |-> IF roleState[recipient] = "active" \/ forced
                       THEN "completed" ELSE "blocked",
              forced |-> forced, wake |-> FALSE])
  /\ UNCHANGED <<storeVars, todoVars, envelope, roleState>>

Slip_Create(p, m) ==
  LET d == job[p] IN
  /\ At(p, "create")
  /\ CreateMessage(m, d.kind, d.priority, d.recipient, d.born)
  /\ GoTo(p, IF d.born = "queued" /\ d.wake THEN [at |-> "notify", role |-> d.recipient] ELSE Idle)
  /\ UNCHANGED <<todoVars, envelope, roleState>>

(* The INSERT, and on to the wake if the message is claimable.              *)
Create(p, m) ==
  LET d == job[p] IN
  /\ At(p, "create")
  /\ CreateMessage(m, d.kind, d.priority, d.recipient, d.born)
  /\ envelope' = [envelope EXCEPT ![m] = [sender |-> d.sender, related |-> d.related]]
  /\ GoTo(p, IF d.born = "queued" /\ d.wake THEN [at |-> "notify", role |-> d.recipient] ELSE Idle)
  /\ UNCHANGED <<todoVars, roleState>>

-----------------------------------------------------------------------------
(* Waking a role. *)

StartNotify(p, r) ==
  /\ Free(p)
  /\ GoTo(p, [at |-> "notify", role |-> r])
  /\ UNCHANGED <<storeVars, todoVars, envelope, roleState>>

(* Nothing pending, nothing sent; otherwise the wake is accepted or not.    *)
Notify(p) ==
  /\ At(p, "notify")
  /\ \/ PendingCount(job[p].role) = 0 /\ GoTo(p, Idle)
     \/ /\ PendingCount(job[p].role) > 0
        /\ \E accepted \in BOOLEAN :
             GoTo(p, IF accepted THEN [job[p] EXCEPT !.at = "mark"] ELSE Idle)
  /\ UNCHANGED <<storeVars, todoVars, envelope, roleState>>

Mark(p) ==
  /\ At(p, "mark")
  /\ MarkNotified(job[p].role)
  /\ GoTo(p, Idle)
  /\ UNCHANGED <<todoVars, envelope, roleState>>

-----------------------------------------------------------------------------
(* Working on messages. *)

InboxNext(p, r, m, autoAck) ==
  /\ Free(p)
  /\ ClaimNext(r, m)
  /\ GoTo(p, IF autoAck THEN [at |-> "auto_ack", role |-> r, message |-> m] ELSE Idle)
  /\ UNCHANGED <<todoVars, envelope, roleState>>

(* The second transaction of inbox next --auto-ack; refused if the message  *)
(* was completed in the meantime.                                           *)
AutoAck(p) ==
  /\ At(p, "auto_ack")
  /\ \/ AckMessage(job[p].role, job[p].message)
     \/ state[job[p].message] \notin Held /\ UNCHANGED storeVars
  /\ GoTo(p, Idle)
  /\ UNCHANGED <<todoVars, envelope, roleState>>

InboxAck(p, r, m) ==
  /\ Free(p)
  /\ AckMessage(r, m)
  /\ UNCHANGED <<todoVars, envelope, roleState, job>>

(* inbox complete: the open todos are counted first, in a read of its own.  *)
StartComplete(p, r, m, allowOpen, reply, wake) ==
  /\ Free(p)
  /\ m \in Inbox(r)
  /\ allowOpen \/ OpenTodos(m) = {}
  /\ GoTo(p, [at |-> "complete", role |-> r, message |-> m, allowed |-> allowOpen,
              reply |-> reply, wake |-> wake])
  /\ UNCHANGED <<storeVars, todoVars, envelope, roleState>>

(* is_completion_reply is what keeps two roles from answering answers.      *)
Slip_Answerable(m) == envelope[m].sender \in Role

Answerable(m) == envelope[m].sender \in Role /\ row[m].kind # "completion_notice"

(* Then the message is completed, or refused if it is not held any more.    *)
FinishComplete(p) ==
  LET c == job[p] IN
  /\ At(p, "complete")
  /\ \/ /\ CompleteMessage(c.role, c.message)
        /\ GoTo(p, IF c.reply /\ Answerable(c.message)
                   THEN [at |-> "reply", role |-> c.role, message |-> c.message, wake |-> c.wake]
                   ELSE Idle)
     \/ /\ state[c.message] \notin Held
        /\ GoTo(p, Idle)
        /\ UNCHANGED storeVars
  /\ UNCHANGED <<todoVars, envelope, roleState>>

(* --reply-to-sender: a normal message to the sender, not forced, so that   *)
(* it is blocked like any other if the sender does not accept work now.     *)
StartReply(p) ==
  LET to == envelope[job[p].message].sender IN
  /\ At(p, "reply")
  /\ GoTo(p, [at |-> "create", kind |-> "completion_notice", priority |-> Normal,
              recipient |-> to, sender |-> job[p].role, related |-> job[p].message,
              born |-> Birth(to, Normal, FALSE), forced |-> FALSE, wake |-> job[p].wake])
  /\ UNCHANGED <<storeVars, todoVars, envelope, roleState>>

InboxCompleteReplies(p, r, S) ==
  /\ Free(p)
  /\ CompleteReplies(r, S)
  /\ UNCHANGED <<todoVars, envelope, roleState, job>>

-----------------------------------------------------------------------------
(* Todos. *)

Slip_StartAddTodo(p, m) ==
  /\ Free(p)
  /\ state[m] # "none"
  /\ GoTo(p, [at |-> "insert_todo", message |-> m])
  /\ UNCHANGED <<storeVars, todoVars, envelope, roleState>>

(* add_todo reads the state of the message before its transaction begins.   *)
StartAddTodo(p, m) ==
  /\ Free(p)
  /\ state[m] \in Held
  /\ GoTo(p, [at |-> "insert_todo", message |-> m])
  /\ UNCHANGED <<storeVars, todoVars, envelope, roleState>>

FinishAddTodo(p, t) ==
  /\ At(p, "insert_todo")
  /\ InsertTodo(t, job[p].message)
  /\ GoTo(p, Idle)
  /\ UNCHANGED <<storeVars, envelope, roleState>>

(* todo done, reopen, supersede and clear look at no message state at all.  *)
EditTodo(p) ==
  /\ Free(p)
  /\ \/ \E t \in Todo : CompleteTodo(t)
     \/ \E t \in Todo : ReopenTodo(t)
     \/ \E t, u \in Todo : SupersedeTodo(t, u)
     \/ \E m \in Message : state[m] # "none" /\ ClearTodos(m)
  /\ UNCHANGED <<storeVars, envelope, roleState, job>>

-----------------------------------------------------------------------------

(* role pause, resume, drain, retire and fail. *)
SetRoleState(p, r, s) ==
  /\ Free(p)
  /\ roleState' = [roleState EXCEPT ![r] = s]
  /\ UNCHANGED <<storeVars, todoVars, envelope, job>>

(* The process dies, or a fail-closed hook ends the command here.           *)
Abort(p) ==
  /\ ~Free(p)
  /\ GoTo(p, Idle)
  /\ UNCHANGED <<storeVars, todoVars, envelope, roleState>>

PassTime == Tick /\ UNCHANGED <<todoVars, envelope, roleState, job>>

Sending(p) ==
  \/ \E s \in Sender, r \in Role, forced \in BOOLEAN :
       \/ \E priority \in SendPriority, wake \in BOOLEAN :
            StartSend(p, s, r, priority, forced, wake)
       \/ StartNotice(p, s, r, forced)
  \/ \E m \in Message : Create(p, m)
  \/ \E r \in Role : StartNotify(p, r)
  \/ Notify(p)
  \/ Mark(p)

Working(p) ==
  \/ \E r \in Role, m \in Message :
       \/ \E autoAck \in BOOLEAN : InboxNext(p, r, m, autoAck)
       \/ InboxAck(p, r, m)
       \/ \E allowOpen, reply, wake \in BOOLEAN : StartComplete(p, r, m, allowOpen, reply, wake)
  \/ \E r \in Role, S \in SUBSET Message : InboxCompleteReplies(p, r, S)
  \/ AutoAck(p)
  \/ FinishComplete(p)
  \/ StartReply(p)

Checklist(p) ==
  \/ \E m \in Message : StartAddTodo(p, m)
  \/ \E t \in Todo : FinishAddTodo(p, t)
  \/ EditTodo(p)

Next ==
  \/ \E p \in Proc :
       \/ Sending(p)
       \/ Working(p)
       \/ Checklist(p)
       \/ Abort(p)
       \/ \E r \in Role, s \in RoleState : SetRoleState(p, r, s)
  \/ PassTime

Spec == Init /\ [][Next]_commandVars

-----------------------------------------------------------------------------
(* Properties. *)

(* Replies on record, and those a running command still owes.               *)
Replies(m) ==
  {n \in Message : state[n] # "none" /\ row[n].kind = "completion_notice" /\ envelope[n].related = m}

Replying(m) ==
  {p \in Proc : \/ At(p, "reply") /\ job[p].message = m
                \/ At(p, "create") /\ job[p].kind = "completion_notice" /\ job[p].related = m}

(* A completion reply reports on completed work, goes from the role that    *)
(* did it to the role that asked for it, and is never an answer to another  *)
(* reply, however commands interleave (complete_message_with_optional_reply,*)
(* service.py).                                                             *)
ReplySound ==
  \A m \in Message :
    /\ Replies(m) \cup Replying(m) # {} =>
         state[m] = "completed" /\ row[m].kind = "task"
    /\ \A n \in Replies(m) :
         /\ envelope[n].sender = row[m].recipient
         /\ row[n].recipient = envelope[m].sender

(* One completion, one reply: two commands that complete the same message,  *)
(* even after one of them lost its claim to the other, never answer its     *)
(* sender twice (complete_message's WHERE state IN, store.py).              *)
ReplyAtMostOnce ==
  \A m \in Message : Cardinality(Replies(m)) + Cardinality(Replying(m)) <= 1

(* A checklist belongs to work that somebody took: an open todo never sits  *)
(* on a message that was not claimed at some time, although the check and   *)
(* the INSERT of add_todo are apart (store.py).                             *)
TodosOnClaimedWork ==
  \A t \in Todo : todoState[t] = "open" => lease[todoMessage[t]] # NoLease

-----------------------------------------------------------------------------
(* What the documents say and the code does not keep: TLC finds each of     *)
(* these violated.                                                          *)

(* "inbox complete must refuse completion while open todos remain unless    *)
(* the caller passes explicit --allow-open-todos" (docs/invariants.md).     *)
CompletesWithoutLeave(p, m) ==
  /\ At(p, "complete") /\ job[p].message = m /\ ~job[p].allowed
  /\ state[m] # "completed" /\ state'[m] = "completed" /\ job'[p] # job[p]

OpenTodosBlockCompletion ==
  [][\A p \in Proc, m \in Message : CompletesWithoutLeave(p, m) => OpenTodos(m) = {}]_commandVars

(* "A role that is paused or draining must not receive normal new work      *)
(* unless explicitly forced" (docs/invariants.md): no command makes a       *)
(* message of normal priority claimable for such a role.                    *)
DeliversWork(p) ==
  /\ At(p, "create") /\ job[p].born = "queued" /\ ~job[p].forced /\ job[p].priority # Urgent
  /\ job'[p] # job[p] /\ state' # state

PausedRoleGetsNoNormalWork ==
  [][\A p \in Proc :
       DeliversWork(p) => roleState[job[p].recipient] \notin {"paused", "draining"}]_commandVars

(* "inbox next --auto-ack may claim and acknowledge a message atomically"   *)
(* (docs/invariants.md): a command that is over did not leave the message   *)
(* merely claimed.                                                          *)
AutoAckAtomic ==
  [][\A p \in Proc :
       At(p, "auto_ack") /\ job'[p] # job[p] => state'[job[p].message] # "claimed"]_commandVars

=============================================================================
