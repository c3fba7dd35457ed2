-------------------------- MODULE WakeDeliveryProofs --------------------------
(***************************************************************************)
(* No wake is lost, for every number of roles, agents, shells and messages.*)
(*                                                                         *)
(* A step of WakeDelivery is a step of InboxCommands, so all that          *)
(* InboxCommandsProofs shows holds here as well (WakesRunCommands).        *)
(* NoLostWake itself is inductive once two things are known: a message is  *)
(* only ever inserted by a command that will send a wake for it            *)
(* (WakesWanted), and a count of zero means that nothing is pending, for   *)
(* which the set that is counted has to be finite.                         *)
(***************************************************************************)
EXTENDS WakeDelivery, InboxCommandsProofs

(* Whoever inserts a message, now or later, wants a wake for it.            *)
WakesWanted == \A p \in Proc : job[p].at \in {"create", "complete", "reply"} => job[p].wake

WakeInv == WakeTypeOK /\ WakesWanted /\ NoLostWake

(* A message of r nobody has claimed.                                       *)
Waiting(m, r) == m \in Inbox(r) /\ state[m] \in Claimable

-----------------------------------------------------------------------------

(* Every step of a shell, an agent or a terminal UI is one of a command, or *)
(* none of a command's business.                                            *)
LEMMA WakeStepIsCommandStep ==
  WakeTypeOK /\ [WakeNext]_wakeVars => [Next]_commandVars
<1> SUFFICES ASSUME WakeTypeOK, [WakeNext]_wakeVars  PROVE [Next]_commandVars
  OBVIOUS
<1>1. ASSUME NEW p \in Proc, Sending(p) \/ Working(p)  PROVE Next
  BY <1>1 DEF Next
<1>2. ASSUME NEW p \in Proc, NEW s \in Sender, NEW r \in Role, NEW priority \in SendPriority,
             Send(p, s, r, priority)
      PROVE  Next
  BY <1>1, <1>2 DEF Send, Sending
<1>3. ASSUME NEW p \in Proc, Continue(p)  PROVE Next
  BY <1>1, <1>3 DEF Continue, Insert, SubmitWake, MarkWoken, Sending
<1>4. ASSUME NEW p \in Shell, NEW r \in Role, Poll(p, r)  PROVE Next
  BY <1>1, <1>4 DEF Poll, Shell, Working
<1>5. ASSUME NEW r \in Role, Agent(r)  PROVE [Next]_commandVars
  <2>1. r \in Proc  BY AgentAssumption
  <2>2. CASE StartTurn(r) \/ LastLook(r) \/ EndTurn(r)
    BY <2>2 DEF StartTurn, LastLook, EndTurn
  <2>3. CASE Take(r)  BY <1>1, <2>1, <2>3 DEF Take, Working
  <2>4. CASE Close(r)
    <3>1. working[r] \in Message  BY <2>4 DEF Close, WakeTypeOK
    <3> QED  BY <1>1, <2>1, <2>4, <3>1 DEF Close, Working
  <2>5. CASE Closing(r)  BY <1>1, <2>1, <2>5 DEF Closing, Working
  <2> QED  BY <1>5, <2>2, <2>3, <2>4, <2>5 DEF Agent
<1>6. CASE PassTime  BY <1>6 DEF Next
<1>7. CASE UNCHANGED wakeVars  BY <1>7 DEF wakeVars
<1> QED  BY <1>2, <1>3, <1>4, <1>5, <1>6, <1>7 DEF WakeNext

-----------------------------------------------------------------------------
(* Types. *)

(* A step that starts no turn, ends none and takes no work.                 *)
LEMMA AgentsStayOK ==
  ASSUME WakeTypeOK, UNCHANGED agentVars
  PROVE  WakeTypeOK'
BY DEF WakeTypeOK, agentVars

(* Only an agent in its turn has work, and a turn ends without.             *)
LEMMA WakeTypeStep == WakeTypeOK /\ [WakeNext]_wakeVars => WakeTypeOK'
<1> SUFFICES ASSUME WakeTypeOK, [WakeNext]_wakeVars  PROVE WakeTypeOK'
  OBVIOUS
<1>1. ASSUME NEW p \in Proc, NEW s \in Sender, NEW r \in Role, NEW priority \in SendPriority,
             Send(p, s, r, priority)
      PROVE  WakeTypeOK'
  BY <1>1, AgentsStayOK DEF Send
<1>2. ASSUME NEW p \in Proc, Continue(p)  PROVE WakeTypeOK'
  <2>1. CASE Insert(p) \/ MarkWoken(p)  BY <2>1, AgentsStayOK DEF Insert, MarkWoken
  <2>2. CASE SubmitWake(p)
    <3>1. wake' = wake \/ wake' = [wake EXCEPT ![job[p].role] = TRUE]  BY <2>2 DEF SubmitWake
    <3>2. awake' = awake /\ ending' = ending /\ working' = working  BY <2>2 DEF SubmitWake
    <3> QED  BY <3>1, <3>2 DEF WakeTypeOK
  <2> QED  BY <1>2, <2>1, <2>2 DEF Continue
<1>3. ASSUME NEW p \in Shell, NEW r \in Role, Poll(p, r)  PROVE WakeTypeOK'
  BY <1>3, AgentsStayOK DEF Poll
<1>4. ASSUME NEW r \in Role, Agent(r)  PROVE WakeTypeOK'
  <2>1. CASE StartTurn(r)  BY <2>1 DEF StartTurn, InTurn, WakeTypeOK
  <2>2. CASE Take(r)  BY <2>2 DEF Take, WakeTypeOK
  <2>3. CASE Close(r)  BY <2>3 DEF Close, WakeTypeOK
  <2>4. CASE Closing(r)  BY <2>4, AgentsStayOK DEF Closing
  <2>5. CASE LastLook(r)  BY <2>5 DEF LastLook, WakeTypeOK
  <2>6. CASE EndTurn(r)  BY <2>6 DEF EndTurn, WakeTypeOK
  <2> QED  BY <1>4, <2>1, <2>2, <2>3, <2>4, <2>5, <2>6 DEF Agent
<1>5. CASE UNCHANGED agentVars  BY <1>5, AgentsStayOK
<1> QED  BY <1>1, <1>2, <1>3, <1>4, <1>5 DEF WakeNext, wakeVars

-----------------------------------------------------------------------------
(* Wakes. *)

(* A step after which no more is waiting than before, and no wake, turn or  *)
(* count that was about to find it is gone.                                 *)
LEMMA NothingNew ==
  ASSUME NoLostWake,
         \A r \in Role, m \in Message : Waiting(m, r)' => Waiting(m, r),
         \A r \in Role : wake[r] \/ awake[r] => wake'[r] \/ awake'[r],
         \A p \in Proc : At(p, "notify") => job'[p] = job[p]
  PROVE  NoLostWake'
<1> SUFFICES ASSUME NEW r \in Role, NEW m \in Message, Waiting(m, r)'
             PROVE  wake'[r] \/ awake'[r] \/ \E p \in Proc : At(p, "notify")' /\ job'[p].role = r
  BY DEF NoLostWake, Waiting, Inbox
<1>1. Waiting(m, r)  OBVIOUS
<1>2. wake[r] \/ awake[r] \/ \E p \in Proc : At(p, "notify") /\ job[p].role = r
  BY <1>1 DEF NoLostWake, Waiting
<1> QED  BY <1>2 DEF At

(* A count of zero is an empty inbox.                                       *)
LEMMA NothingPending ==
  ASSUME NEW r \in Role, PendingCount(r) = 0
  PROVE  \A m \in Message : ~Waiting(m, r)
<1> DEFINE S == {m \in Inbox(r) : state[m] \in Claimable \/ Expired(m)}
<1>1. S \subseteq Message  BY DEF Inbox
<1>2. IsFiniteSet(S)  BY <1>1, MessageAssumption, FS_Subset
<1>3. S = {}  BY <1>2, FS_EmptySet DEF PendingCount
<1> QED  BY <1>3 DEF Waiting

(* Nobody begins to wait by a transaction on messages that exist.           *)
LEMMA ClaimsOnlyTake ==
  ASSUME CommandsInv, NEW r \in Role, NEW m \in Message,
         ClaimNext(r, m) \/ CompleteMessage(r, m)
  PROVE  \A s \in Role, n \in Message : Waiting(n, s)' => Waiting(n, s)
<1>1. state'[m] \notin Claimable /\ row' = row /\ \A n \in Message \ {m} : state'[n] = state[n]
  BY DEF ClaimNext, CompleteMessage, Claimable, CommandsInv, StoreInv, StoreTypeOK
<1> QED  BY <1>1 DEF Waiting, Inbox

(* The INSERT is followed by a wake, unless the message is blocked.         *)
LEMMA InsertWakes ==
  ASSUME CommandsInv, WakeInv, NEW p \in Proc, Insert(p)
  PROVE  NoLostWake'
<1>1. PICK n \in Message : Create(p, n)  BY DEF Insert
<1>2. PICK to \in Role : to = job[p].recipient
  BY <1>1, JobKinds DEF Create, At, CommandsInv, JobsOK, Draft
<1>3. /\ At(p, "create") /\ job[p].wake
      /\ job' = [job EXCEPT ![p] = IF job[p].born = "queued"
                                   THEN [at |-> "notify", role |-> to] ELSE Idle]
      /\ job \in [Proc -> Job]
      /\ wake' = wake /\ awake' = awake
  BY <1>1, <1>2
     DEF Create, GoTo, Insert, agentVars, At, WakeInv, WakesWanted, CommandsInv, JobsOK
<1>4. /\ state'[n] = job[p].born /\ row'[n].recipient = to
      /\ job[p].born \in {"queued", "completed", "blocked"}
      /\ \A m \in Message \ {n} : state'[m] = state[m] /\ row'[m] = row[m]
  BY <1>1, <1>2 DEF Create, CreateMessage, BirthStates, CommandsInv, StoreInv, StoreTypeOK
<1>5. \A q \in Proc : At(q, "notify") => job'[q] = job[q]  BY <1>3 DEF At
<1>6. \A r \in Role, m \in Message \ {n} : Waiting(m, r)' => Waiting(m, r)
  BY <1>4 DEF Waiting, Inbox
<1>7. CASE job[p].born # "queued"
  <2>1. \A r \in Role : ~Waiting(n, r)'  BY <1>4, <1>7 DEF Waiting, Claimable
  <2> QED  BY <1>3, <1>5, <1>6, <2>1, NothingNew DEF WakeInv
<1>8. CASE job[p].born = "queued"
  <2>1. At(p, "notify")' /\ job'[p].role = to  BY <1>3, <1>8 DEF At
  <2>2. \A r \in Role : Waiting(n, r)' => r = to  BY <1>4 DEF Waiting, Inbox
  <2>3. ASSUME NEW r \in Role, NEW m \in Message, Waiting(m, r)'
        PROVE  wake'[r] \/ awake'[r] \/ \E q \in Proc : At(q, "notify")' /\ job'[q].role = r
    <3>1. CASE m = n  BY <2>1, <2>2, <2>3, <3>1
    <3>2. CASE m # n
      <4>1. Waiting(m, r)  BY <1>6, <2>3, <3>2
      <4>2. wake[r] \/ awake[r] \/ \E q \in Proc : At(q, "notify") /\ job[q].role = r
        BY <4>1 DEF WakeInv, NoLostWake, Waiting
      <4> QED  BY <1>3, <1>5, <4>2 DEF At
    <3> QED  BY <3>1, <3>2
  <2> QED  BY <2>3 DEF NoLostWake, Waiting, Inbox
<1> QED  BY <1>7, <1>8

(* The wake is sent, or there is nobody to send it for.                     *)
LEMMA SubmitWakes ==
  ASSUME CommandsInv, WakeInv, NEW p \in Proc, SubmitWake(p)
  PROVE  NoLostWake'
<1>1. PICK r \in Role : r = job[p].role
  BY JobKinds DEF SubmitWake, At, CommandsInv, JobsOK
<1>2. /\ state' = state /\ row' = row /\ awake' = awake
      /\ \A q \in Proc \ {p} : job'[q] = job[q]
  BY DEF SubmitWake, Notify, GoTo, storeVars, CommandsInv, JobsOK
<1>3. \A s \in Role, m \in Message : Waiting(m, s)' <=> Waiting(m, s)
  BY <1>2 DEF Waiting, Inbox
<1>4. \A s \in Role : wake[s] => wake'[s]  BY DEF SubmitWake, WakeInv, WakeTypeOK
<1>5. (\A m \in Message : ~Waiting(m, r)) \/ wake'[r]
  BY <1>1, NothingPending DEF SubmitWake, WakeInv, WakeTypeOK
<1>6. ASSUME NEW s \in Role, NEW m \in Message, Waiting(m, s)'
      PROVE  wake'[s] \/ awake'[s] \/ \E q \in Proc : At(q, "notify")' /\ job'[q].role = s
  <2>1. Waiting(m, s)  BY <1>3, <1>6
  <2>2. wake[s] \/ awake[s] \/ \E q \in Proc : At(q, "notify") /\ job[q].role = s
    BY <2>1 DEF WakeInv, NoLostWake, Waiting
  <2>3. CASE s = r  BY <1>5, <2>1, <2>3
  <2>4. CASE s # r  BY <1>1, <1>2, <1>4, <2>2, <2>4 DEF At
  <2> QED  BY <2>3, <2>4
<1> QED  BY <1>6 DEF NoLostWake, Waiting, Inbox

(* What the agent does: a turn that starts replaces the wake that started   *)
(* it, and looks for the last time only when nothing waits.                 *)
LEMMA AgentWakes ==
  ASSUME CommandsInv, WakeInv, NEW r \in Role, Agent(r)
  PROVE  NoLostWake'
<1>1. r \in Proc  BY AgentAssumption
<1>2. CASE StartTurn(r)
  <2>1. /\ state' = state /\ row' = row /\ job' = job
        /\ \A s \in Role : wake[s] \/ awake[s] => wake'[s] \/ awake'[s]
    BY <1>2 DEF StartTurn, commandVars, storeVars, WakeInv, WakeTypeOK
  <2>2. \A s \in Role, m \in Message : Waiting(m, s)' => Waiting(m, s)
    BY <2>1 DEF Waiting, Inbox
  <2> QED  BY <2>1, <2>2, NothingNew DEF WakeInv
<1>3. CASE Take(r)
  <2>1. PICK m \in Message : ClaimNext(r, m) /\ Free(r) /\ GoTo(r, Idle)
    BY <1>3 DEF Take, InboxNext
  <2>2. \A s \in Role, n \in Message : Waiting(n, s)' => Waiting(n, s)
    BY <2>1, ClaimsOnlyTake
  <2>3. job' = job  BY <2>1 DEF GoTo, Free, CommandsInv, JobsOK
  <2> QED  BY <1>3, <2>2, <2>3, NothingNew DEF Take, WakeInv
<1>4. CASE Close(r)
  <2>1. /\ state' = state /\ row' = row /\ ~At(r, "notify")
        /\ \A q \in Proc \ {r} : job'[q] = job[q]
    BY <1>1, <1>4, IdleIsJob
       DEF Close, StartComplete, GoTo, Free, At, storeVars, CommandsInv, JobsOK
  <2>2. \A s \in Role, m \in Message : Waiting(m, s)' => Waiting(m, s)
    BY <2>1 DEF Waiting, Inbox
  <2> QED  BY <1>4, <2>1, <2>2, NothingNew DEF Close, WakeInv
<1>5. CASE Closing(r)
  <2>1. /\ ~At(r, "notify") /\ wake' = wake /\ awake' = awake
        /\ \A q \in Proc \ {r} : job'[q] = job[q]
    BY <1>1, <1>5
       DEF Closing, FinishComplete, StartReply, At, GoTo, agentVars, CommandsInv, JobsOK
  <2>2. \A s \in Role, m \in Message : Waiting(m, s)' => Waiting(m, s)
    <3>1. CASE UNCHANGED storeVars  BY <3>1 DEF storeVars, Waiting, Inbox
    <3>2. CASE FinishComplete(r)
      <4>1. job[r].role \in Role /\ job[r].message \in Message
        BY <1>1, <3>2, JobKinds DEF FinishComplete, At, CommandsInv, JobsOK
      <4> QED  BY <3>1, <3>2, <4>1, ClaimsOnlyTake DEF FinishComplete
    <3> QED  BY <1>5, <3>1, <3>2 DEF Closing, StartReply
  <2> QED  BY <2>1, <2>2, NothingNew DEF WakeInv
<1>6. CASE LastLook(r)
  <2>1. /\ state' = state /\ row' = row /\ job' = job /\ wake' = wake
        /\ \A s \in Role \ {r} : awake'[s] = awake[s]
    BY <1>6 DEF LastLook, commandVars, storeVars, WakeInv, WakeTypeOK
  <2>2. \A m \in Message : ~Waiting(m, r)  BY <1>6 DEF LastLook, ClaimCandidates, Waiting
  <2>3. ASSUME NEW s \in Role, NEW m \in Message, Waiting(m, s)'
        PROVE  wake'[s] \/ awake'[s] \/ \E q \in Proc : At(q, "notify")' /\ job'[q].role = s
    <3>1. Waiting(m, s)  BY <2>1, <2>3 DEF Waiting, Inbox
    <3>2. s # r  BY <2>2, <3>1
    <3> QED  BY <2>1, <3>1, <3>2 DEF WakeInv, NoLostWake, Waiting, At
  <2> QED  BY <2>3 DEF NoLostWake, Waiting, Inbox
<1>7. CASE EndTurn(r)
  <2>1. state' = state /\ row' = row /\ job' = job /\ wake' = wake /\ awake' = awake
    BY <1>7 DEF EndTurn, commandVars, storeVars
  <2>2. \A s \in Role, m \in Message : Waiting(m, s)' => Waiting(m, s)
    BY <2>1 DEF Waiting, Inbox
  <2> QED  BY <2>1, <2>2, NothingNew DEF WakeInv
<1> QED  BY <1>2, <1>3, <1>4, <1>5, <1>6, <1>7 DEF Agent

(* Every step keeps a wake, a turn or a count in front of whatever waits.   *)
LEMMA NoLostWakeStep ==
  CommandsInv /\ WakeInv /\ [WakeNext]_wakeVars => NoLostWake'
<1> SUFFICES ASSUME CommandsInv, WakeInv, [WakeNext]_wakeVars  PROVE NoLostWake'
  OBVIOUS
<1>1. ASSUME NEW p \in Proc, NEW s \in Sender, NEW r \in Role, NEW priority \in SendPriority,
             Send(p, s, r, priority)
      PROVE  NoLostWake'
  <2>1. /\ state' = state /\ row' = row /\ ~At(p, "notify") /\ wake' = wake /\ awake' = awake
        /\ \A q \in Proc \ {p} : job'[q] = job[q]
    BY <1>1, IdleIsJob
       DEF Send, StartSend, GoTo, Free, At, agentVars, storeVars, CommandsInv, JobsOK
  <2>2. \A t \in Role, m \in Message : Waiting(m, t)' => Waiting(m, t)
    BY <2>1 DEF Waiting, Inbox
  <2> QED  BY <2>1, <2>2, NothingNew DEF WakeInv
<1>2. ASSUME NEW p \in Proc, MarkWoken(p)  PROVE NoLostWake'
  <2>1. /\ row' = row /\ ~At(p, "notify") /\ wake' = wake /\ awake' = awake
        /\ \A q \in Proc \ {p} : job'[q] = job[q]
        /\ \A m \in Message : state'[m] \in Claimable => state[m] \in Claimable
        /\ \A m \in Message : state'[m] # "none" => state[m] # "none"
    BY <1>2
       DEF MarkWoken, Mark, MarkNotified, Claimable, GoTo, At, agentVars, CommandsInv, JobsOK
  <2>2. \A t \in Role, m \in Message : Waiting(m, t)' => Waiting(m, t)
    BY <2>1 DEF Waiting, Inbox
  <2> QED  BY <2>1, <2>2, NothingNew DEF WakeInv
<1>3. ASSUME NEW p \in Shell, NEW r \in Role, Poll(p, r)  PROVE NoLostWake'
  <2>1. PICK m \in Message : ClaimNext(r, m) /\ Free(p) /\ GoTo(p, Idle)
    BY <1>3 DEF Poll, InboxNext
  <2>2. \A s \in Role, n \in Message : Waiting(n, s)' => Waiting(n, s)
    BY <2>1, ClaimsOnlyTake
  <2>3. job' = job  BY <2>1 DEF GoTo, Free, CommandsInv, JobsOK, Shell
  <2> QED  BY <1>3, <2>2, <2>3, NothingNew DEF Poll, agentVars, WakeInv
<1>4. CASE (PassTime /\ UNCHANGED agentVars) \/ UNCHANGED wakeVars
  <2>1. /\ state' = state /\ row' = row /\ wake' = wake /\ awake' = awake /\ job' = job
    BY <1>4 DEF PassTime, Tick, wakeVars, agentVars, commandVars, storeVars
  <2>2. \A t \in Role, m \in Message : Waiting(m, t)' => Waiting(m, t)
    BY <2>1 DEF Waiting, Inbox
  <2> QED  BY <2>1, <2>2, NothingNew DEF WakeInv
<1> QED
  BY <1>1, <1>2, <1>3, <1>4, InsertWakes, SubmitWakes, AgentWakes DEF WakeNext, Continue

(* Nobody sends without a wake, and a reply is sent like any message.       *)
LEMMA WakesWantedStep ==
  CommandsInv /\ WakeInv /\ [WakeNext]_wakeVars => WakesWanted'
<1> SUFFICES ASSUME CommandsInv, WakeInv, [WakeNext]_wakeVars  PROVE WakesWanted'
  OBVIOUS
<1>1. job \in [Proc -> Job] /\ WakesWanted  BY DEF CommandsInv, JobsOK, WakeInv
<1>2. ASSUME NEW p \in Proc, NEW next, GoTo(p, next),
             next.at \in {"create", "complete", "reply"} => next.wake
      PROVE  WakesWanted'
  BY <1>1, <1>2 DEF GoTo, WakesWanted
<1>3. CASE job' = job  BY <1>1, <1>3 DEF WakesWanted
<1>4. ASSUME NEW p \in Proc, GoTo(p, Idle)  PROVE WakesWanted'
  BY <1>2, <1>4, IdleIsJob
<1>5. ASSUME NEW p \in Proc, NEW s \in Sender, NEW r \in Role, NEW priority \in SendPriority,
             Send(p, s, r, priority)
      PROVE  WakesWanted'
  <2>1. job'[p].wake /\ \A q \in Proc \ {p} : job'[q] = job[q]
    BY <1>1, <1>5 DEF Send, StartSend, GoTo
  <2> QED  BY <1>1, <2>1 DEF WakesWanted
<1>6. ASSUME NEW p \in Proc, Continue(p)  PROVE WakesWanted'
  <2>1. CASE Insert(p)
    <3>1. job'[p].at \in {"notify", "idle"} /\ \A q \in Proc \ {p} : job'[q] = job[q]
      BY <1>1, <2>1 DEF Insert, Create, GoTo, Idle
    <3> QED  BY <1>1, <3>1 DEF WakesWanted
  <2>2. CASE SubmitWake(p)
    <3>1. job'[p].at \in {"mark", "idle"} /\ \A q \in Proc \ {p} : job'[q] = job[q]
      BY <1>1, <2>2 DEF SubmitWake, Notify, GoTo, At
    <3> QED  BY <1>1, <3>1 DEF WakesWanted
  <2>3. CASE MarkWoken(p)  BY <1>4, <2>3 DEF MarkWoken, Mark
  <2> QED  BY <1>6, <2>1, <2>2, <2>3 DEF Continue
<1>7. ASSUME NEW p \in Shell, NEW r \in Role, Poll(p, r)  PROVE WakesWanted'
  BY <1>4, <1>7 DEF Poll, InboxNext, Shell
<1>8. ASSUME NEW r \in Role, Agent(r)  PROVE WakesWanted'
  <2>1. r \in Proc  BY AgentAssumption
  <2>2. CASE StartTurn(r) \/ LastLook(r) \/ EndTurn(r)
    BY <1>3, <2>2 DEF StartTurn, LastLook, EndTurn, commandVars
  <2>3. CASE Take(r)  BY <1>4, <2>1, <2>3 DEF Take, InboxNext
  <2>4. CASE Close(r)
    <3>1. job'[r].wake /\ \A q \in Proc \ {r} : job'[q] = job[q]
      BY <1>1, <2>1, <2>4 DEF Close, StartComplete, GoTo
    <3> QED  BY <1>1, <3>1 DEF WakesWanted
  <2>5. CASE Closing(r)
    <3>1. job[r].wake  BY <1>1, <2>1, <2>5 DEF Closing, FinishComplete, StartReply, At, WakesWanted
    <3>2. \A q \in Proc \ {r} : job'[q] = job[q]
      BY <1>1, <2>5 DEF Closing, FinishComplete, StartReply, GoTo
    <3>3. CASE FinishComplete(r)
      <4>1. job'[r] = Idle \/ job'[r].wake = job[r].wake
        BY <1>1, <2>1, <3>3 DEF FinishComplete, GoTo
      <4> QED  BY <1>1, <3>1, <3>2, <4>1, IdleIsJob DEF WakesWanted
    <3>4. CASE StartReply(r)
      <4>1. job'[r].wake = job[r].wake  BY <1>1, <2>1, <3>4 DEF StartReply, GoTo
      <4> QED  BY <1>1, <3>1, <3>2, <4>1 DEF WakesWanted
    <3> QED  BY <2>5, <3>3, <3>4 DEF Closing
  <2> QED  BY <1>8, <2>2, <2>3, <2>4, <2>5 DEF Agent
<1>9. CASE PassTime \/ UNCHANGED wakeVars
  BY <1>3, <1>9 DEF PassTime, wakeVars, commandVars
<1> QED  BY <1>5, <1>6, <1>7, <1>8, <1>9 DEF WakeNext

-----------------------------------------------------------------------------
(* Theorems. *)

(* Nothing is sent and nobody is awake at first.                            *)
LEMMA WakeInitInv == WakeInit => CommandsInv /\ WakeInv
<1> SUFFICES ASSUME WakeInit  PROVE CommandsInv /\ WakeInv  OBVIOUS
<1>1. CommandsInv  BY CommandsInit DEF WakeInit
<1>2. WakeTypeOK  BY DEF WakeInit, WakeTypeOK
<1>3. WakesWanted  BY DEF WakeInit, Init, WakesWanted, Idle
<1>4. NoLostWake  BY DEF WakeInit, Init, StoreInit, NoLostWake, Inbox
<1> QED  BY <1>1, <1>2, <1>3, <1>4 DEF WakeInv

(* The specification without its fairness, which no proof here uses.        *)
LEMMA WakeSafety == WakeSpec => WakeInit /\ [][WakeNext]_wakeVars
BY PTL DEF WakeSpec

(* The inductive invariant of wakes and agents.                             *)
THEOREM WakesInvariant == WakeSpec => [](CommandsInv /\ WakeInv)
<1>1. CommandsInv /\ WakeInv /\ [WakeNext]_wakeVars => (CommandsInv /\ WakeInv)'
  <2>1. CommandsInv /\ WakeInv /\ [WakeNext]_wakeVars => CommandsInv'
    BY WakeStepIsCommandStep, CommandsStep DEF WakeInv
  <2>2. CommandsInv /\ WakeInv /\ [WakeNext]_wakeVars => WakeInv'
    BY WakeTypeStep, WakesWantedStep, NoLostWakeStep DEF WakeInv
  <2> QED  BY <2>1, <2>2
<1> QED  BY <1>1, WakeInitInv, WakeSafety, PTL

(* Whatever shells, terminal UIs and agents do, the database sees commands  *)
(* one step after another: what InboxCommandsProofs shows of the commands   *)
(* holds of the agents' work.                                               *)
THEOREM WakesRunCommands == WakeSpec => Spec
<1>1. WakeInit => Init  BY DEF WakeInit
<1>2. WakeInv /\ [WakeNext]_wakeVars => [Next]_commandVars
  BY WakeStepIsCommandStep DEF WakeInv
<1> QED  BY <1>1, <1>2, WakesInvariant, WakeSafety, PTL DEF Spec

(* Types; and an agent that has work in hand looks again in its turn.       *)
THEOREM WakeTypeCorrect == WakeSpec => []WakeTypeOK
<1>1. WakeInv => WakeTypeOK  BY DEF WakeInv
<1> QED  BY <1>1, WakesInvariant, PTL

(* While a message waits, somebody is bound to look: notify_role counts     *)
(* after the INSERT, the terminal UI keeps one wake, a turn ends only after *)
(* inbox next found nothing, and what comes after that look waits with a    *)
(* wake.                                                                    *)
THEOREM NoWakeIsLost == WakeSpec => []NoLostWake
<1>1. WakeInv => NoLostWake  BY DEF WakeInv
<1> QED  BY <1>1, WakesInvariant, PTL

(* Agents that answer each other never answer one piece of work twice.      *)
THEOREM AgentsAnswerOnce == WakeSpec => []ReplyAtMostOnce
BY WakesRunCommands, NobodyAnsweredTwice, PTL

=============================================================================
