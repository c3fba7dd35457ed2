------------------------------ MODULE WakeDelivery ------------------------------
(***************************************************************************)
(* From a sent message to an agent that works on it.  The durable message  *)
(* is in the store; what travels to the agent is a wake without content    *)
(* (Store.notify_role).  The terminal UI keeps at most one unstarted inbox *)
(* wake per role, since all of them carry coalesceKey "inbox", and starts  *)
(* it when the agent's turn is over.  An agent that was woken claims and   *)
(* completes one message after another until inbox next finds none; what   *)
(* is sent between that answer and the end of the turn is left to a wake.  *)
(*                                                                         *)
(* The commands are those of InboxCommands; an agent runs its own, one at  *)
(* a time, as the process named like its role.  Nothing fails here: every  *)
(* wake is accepted, every send wants one and no process dies.  What is    *)
(* left of the machinery is its races, and they must lose no wake.         *)
(***************************************************************************)
EXTENDS InboxCommands

ASSUME AgentAssumption == Role \subseteq Proc

VARIABLES
  wake,     \* wake[r]: an unstarted inbox wake is queued in the UI of r
  awake,    \* awake[r]: a turn of the agent is running and will look again
  ending,   \* ending[r]: the turn has seen an empty inbox and is not yet over
  working   \* working[r]: the message the agent has claimed and not completed

agentVars == <<wake, awake, ending, working>>
wakeVars == <<commandVars, agentVars>>

WakeTypeOK ==
  /\ wake \in [Role -> BOOLEAN]
  /\ awake \in [Role -> BOOLEAN]
  /\ ending \in [Role -> BOOLEAN]
  /\ working \in [Role -> Message \cup {NoMessage}]
  /\ \A r \in Role : ~(awake[r] /\ ending[r])
  /\ \A r \in Role : working[r] # NoMessage => awake[r]

WakeInit ==
  /\ Init
  /\ wake = [r \in Role |-> FALSE]
  /\ awake = [r \in Role |-> FALSE]
  /\ ending = [r \in Role |-> FALSE]
  /\ working = [r \in Role |-> NoMessage]

Shell == Proc \ Role

(* A turn of the agent of r is running.                                     *)
InTurn(r) == awake[r] \/ ending[r]

-----------------------------------------------------------------------------
(* Commands. *)

(* Who may send now: an operator's shell in any name, an agent in its turn  *)
(* and in its own.                                                          *)
MaySend(p, sender) == p \in Role => InTurn(p) /\ sender = p

(* Bound of the model: a message is begun only if an identifier is left for *)
(* it, so that no command waits for one.                                    *)
Inserting ==
  {p \in Proc : \/ At(p, "create") \/ At(p, "reply")
                \/ At(p, "complete") /\ job[p].reply}

Room == Cardinality({m \in Message : state[m] = "none"}) > Cardinality(Inserting)

Send(p, sender, recipient, priority) ==
  /\ MaySend(p, sender)
  /\ Room
  /\ StartSend(p, sender, recipient, priority, FALSE, TRUE)
  /\ UNCHANGED agentVars

Insert(p) ==
  /\ \E m \in Message : Create(p, m)
  /\ UNCHANGED agentVars

Slip_SubmitWake(p) ==
  LET r == job[p].role IN
  /\ At(p, "notify")
  /\ Notify(p)
  /\ IF {m \in Inbox(r) : state[m] = "queued"} = {}
     THEN At(p, "idle")' /\ UNCHANGED wake
     ELSE At(p, "mark")' /\ wake' = [wake EXCEPT ![r] = TRUE]
  /\ UNCHANGED <<awake, ending, working>>

Slip_DropInTurn(p) ==
  LET r == job[p].role IN
  /\ At(p, "notify")
  /\ Notify(p)
  /\ IF PendingCount(r) = 0
     THEN At(p, "idle")' /\ UNCHANGED wake
     ELSE At(p, "mark")' /\ wake' = [wake EXCEPT ![r] = @ \/ ~InTurn(r)]
  /\ UNCHANGED <<awake, ending, working>>

(* The wake is sent unless nothing is pending, and then it is accepted: it  *)
(* is queued, or coalesced with the one that is queued already.             *)
SubmitWake(p) ==
  LET r == job[p].role IN
  /\ At(p, "notify")
  /\ Notify(p)
  /\ IF PendingCount(r) = 0
     THEN At(p, "idle")' /\ UNCHANGED wake
     ELSE At(p, "mark")' /\ wake' = [wake EXCEPT ![r] = TRUE]
  /\ UNCHANGED <<awake, ending, working>>

MarkWoken(p) == Mark(p) /\ UNCHANGED agentVars

(* A shell that runs inbox next for the role, behind the agent's back.      *)
Poll(p, r) ==
  /\ p \in Shell
  /\ \E m \in Message : InboxNext(p, r, m, FALSE)
  /\ UNCHANGED agentVars

-----------------------------------------------------------------------------
(* The agent of role r. *)

StartTurn(r) ==
  /\ wake[r] /\ ~InTurn(r)
  /\ wake' = [wake EXCEPT ![r] = FALSE]
  /\ awake' = [awake EXCEPT ![r] = TRUE]
  /\ UNCHANGED <<commandVars, ending, working>>

Take(r) ==
  /\ awake[r] /\ working[r] = NoMessage
  /\ \E m \in Message :
       /\ InboxNext(r, r, m, FALSE)
       /\ working' = [working EXCEPT ![r] = m]
  /\ UNCHANGED <<wake, awake, ending>>

(* The agent closes what it took, with or without a reply to its sender.    *)
Close(r) ==
  /\ working[r] # NoMessage
  /\ \E reply \in BOOLEAN :
       /\ reply => Room
       /\ StartComplete(r, r, working[r], TRUE, reply, TRUE)
  /\ working' = [working EXCEPT ![r] = NoMessage]
  /\ UNCHANGED <<wake, awake, ending>>

Closing(r) == (FinishComplete(r) \/ StartReply(r)) /\ UNCHANGED agentVars

Slip_LastLook(r) ==
  /\ awake[r] /\ Free(r)
  /\ ClaimCandidates(r) = {}
  /\ awake' = [awake EXCEPT ![r] = FALSE]
  /\ ending' = [ending EXCEPT ![r] = TRUE]
  /\ UNCHANGED <<commandVars, wake, working>>

(* inbox next finds nothing: the agent will not look again in this turn.    *)
LastLook(r) ==
  /\ awake[r] /\ working[r] = NoMessage /\ Free(r)
  /\ ClaimCandidates(r) = {}
  /\ awake' = [awake EXCEPT ![r] = FALSE]
  /\ ending' = [ending EXCEPT ![r] = TRUE]
  /\ UNCHANGED <<commandVars, wake, working>>

EndTurn(r) ==
  /\ ending[r] /\ Free(r)
  /\ ending' = [ending EXCEPT ![r] = FALSE]
  /\ UNCHANGED <<commandVars, wake, awake, working>>

-----------------------------------------------------------------------------

(* What a command does once it has begun.                                   *)
Continue(p) == Insert(p) \/ SubmitWake(p) \/ MarkWoken(p)

Agent(r) == StartTurn(r) \/ Take(r) \/ Close(r) \/ Closing(r) \/ LastLook(r) \/ EndTurn(r)

WakeNext ==
  \/ \E p \in Proc :
       \/ \E s \in Sender, r \in Role, priority \in SendPriority : Send(p, s, r, priority)
       \/ Continue(p)
  \/ \E p \in Shell, r \in Role : Poll(p, r)
  \/ \E r \in Role : Agent(r)
  \/ PassTime /\ UNCHANGED agentVars

(* A command that runs comes to its end, and a terminal UI starts the turns *)
(* it has queued; nobody has to send, poll or wait.                         *)
WakeSpec ==
  /\ WakeInit /\ [][WakeNext]_wakeVars
  /\ \A p \in Proc : WF_wakeVars(Continue(p))
  /\ \A r \in Role : WF_wakeVars(Agent(r))

-----------------------------------------------------------------------------
(* Properties. *)

(* No wake is lost: while a role has a message nobody has claimed, a wake   *)
(* waits in its UI, its agent is awake and will look again, or the command  *)
(* that sends a wake is about to count what is pending (notify_role: the    *)
(* count comes after the INSERT and covers messages another wake marked).   *)
(* A turn that has seen an empty inbox does not count as awake, although it *)
(* still runs: what is sent now must be waited for by a wake.               *)
NoLostWake ==
  \A r \in Role :
    (\E m \in Inbox(r) : state[m] \in Claimable)
      => wake[r] \/ awake[r] \/ \E p \in Proc : At(p, "notify") /\ job[p].role = r

(* Every message that becomes claimable is claimed, a reply like any other  *)
(* (docs/receiving-and-hooks.md: the durable message is in the store and    *)
(* the wake only makes the role look).                                      *)
EveryMessageTaken ==
  \A m \in Message : state[m] \in Claimable ~> state[m] \in Held \cup {"completed"}

=============================================================================
