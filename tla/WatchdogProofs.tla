----------------------------- MODULE WatchdogProofs -----------------------------
(***************************************************************************)
(* Proofs about Watchdog: its type invariant and OneEscalation, for every  *)
(* number of messages, roles, runners, panes and operators.                *)
(*                                                                         *)
(* OneEscalation is not inductive: nothing in it says what a process knows *)
(* when it is about to raise an escalation.  EscalationInv adds that:      *)
(* between deliver_watchdog_pressure's search and its send_message the     *)
(* search stays true of the escalations of that very pane, because only    *)
(* the process in the pane sends any and a message that is over does not   *)
(* become active again.                                                    *)
(***************************************************************************)
EXTENDS Watchdog, TLAPS

(* What deliver_watchdog_pressure's search found is still so.               *)
ClearToRaise ==
  \A l \in Loop : At(l, "raise") =>
    \A m \in ActiveEscalations(loop[l].runner, loop[l].aim) : escalation[m].pane # l

(* A message a watchdog sent is on record.                                  *)
SentIsRecorded == \A m \in Item : escalation[m] # NoEscalation => status[m] # "absent"

(* A pass that has something to deliver has a role to deliver it to.        *)
AimIsRole ==
  \A l \in Loop : loop[l].at \in {"deliver", "raise", "wake"} => loop[l].aim \in Role

EscalationInv ==
  /\ WatchdogTypeOK
  /\ SentIsRecorded
  /\ AimIsRole
  /\ ClearToRaise
  /\ OneEscalation

-----------------------------------------------------------------------------
(* Types. *)

(* A process that is not off is at a step of a pass.                        *)
LEMMA PassType ==
  ASSUME WatchdogTypeOK, NEW l \in Loop, loop[l].at # "off"
  PROVE  loop[l] \in Pass
BY DEF WatchdogTypeOK, Off

(* Running off a pass, or moving on in it, keeps loop a function to passes. *)
LEMMA MoveType ==
  ASSUME WatchdogTypeOK, NEW l \in Loop, loop[l].at # "off",
         NEW at \in {"top", "doze", "find", "record", "upsert", "recheck", "deliver", "raise", "wake", "rest"},
         GoTo(l, at) \/ PassOver(l, at)
  PROVE  loop' \in [Loop -> Pass \cup {Off}]
<1>1. loop[l] \in Pass
  BY PassType
<1>2. loop \in [Loop -> Pass \cup {Off}]
  BY DEF WatchdogTypeOK
<1>3. CASE GoTo(l, at)
  BY <1>1, <1>2, <1>3 DEF GoTo, Pass
<1>4. CASE PassOver(l, at)
  BY <1>1, <1>2, <1>4 DEF PassOver, Pass
<1> QED
  BY <1>3, <1>4

(* The end of a process keeps the types of loop and pane.                   *)
LEMMA EndType ==
  ASSUME WatchdogTypeOK, NEW l \in Loop, Ends(l)
  PROVE  /\ loop' \in [Loop -> Pass \cup {Off}]
         /\ pane' \in [Runner -> Loop \cup {NoPane}]
BY DEF WatchdogTypeOK, Ends

(* So does the start of one.                                                *)
LEMMA LaunchType ==
  ASSUME WatchdogTypeOK, NEW l \in Loop, NEW n \in Runner, NEW t \in Target, Launch(l, n, t)
  PROVE  loop' \in [Loop -> Pass \cup {Off}]
BY DEF WatchdogTypeOK, Launch, Pass

(* What the rest of the program does to messages keeps their types.         *)
LEMMA InboxType ==
  ASSUME Inbox!TypeOK, Inbox!Next
  PROVE  Inbox!TypeOK'
<1>1. ASSUME NEW i \in Item, Inbox!Post(i) PROVE Inbox!TypeOK'
  BY <1>1 DEF Inbox!TypeOK, Inbox!Post, Inbox!Move, Inbox!Status
<1>2. ASSUME NEW i \in Item, Inbox!Lease(i) \/ Inbox!Accept(i) PROVE Inbox!TypeOK'
  BY <1>2 DEF Inbox!TypeOK, Inbox!Lease, Inbox!Accept, Inbox!Move, Inbox!Status
<1>3. ASSUME NEW S \in SUBSET Item, Inbox!Lapse(S) \/ Inbox!Finish(S) PROVE Inbox!TypeOK'
  BY <1>3 DEF Inbox!TypeOK, Inbox!Lapse, Inbox!Finish, Inbox!Move, Inbox!Status
<1> QED
  BY <1>1, <1>2, <1>3 DEF Inbox!Next

(* Every step of a process keeps the types; the recipient of an escalation  *)
(* is a role because the pass that sends it has a role to send it to.       *)
LEMMA StepType ==
  ASSUME WatchdogTypeOK, AimIsRole, NEW l \in Loop, Step(l)
  PROVE  WatchdogTypeOK'
<1> USE DEF messageVars, runnerVars
<1>0. loop[l].at # "off" => loop[l] \in Pass
  BY PassType
<1>1. CASE Preflight(l)
  <2>1. loop[l] \in Pass /\ runner[loop[l].runner] \in RunnerState /\ target[loop[l].runner] \in Target
    BY <1>0, <1>1 DEF Preflight, At, Pass, WatchdogTypeOK
  <2>2. loop' \in [Loop -> Pass \cup {Off}]
    BY <1>1, <2>1, MoveType DEF Preflight, At, GoTo, Pass, WatchdogTypeOK
  <2> QED
    BY <1>1, <2>2 DEF Preflight, WatchdogTypeOK, Inbox!TypeOK
<1>2. CASE Find(l)
  <2>1. loop[l] \in Pass
    BY <1>0, <1>2 DEF Find, At
  <2>2. Findings \subseteq {"urgent", "warning", "nothing"}
    BY DEF Findings
  <2>3. PICK found \in {"urgent", "warning", "nothing"} :
          loop' = [loop EXCEPT ![l].at = "record", ![l].found = found]
    BY <1>2, <2>2 DEF Find
  <2>4. [loop[l] EXCEPT !.at = "record", !.found = found] \in Pass
    BY <2>1 DEF Pass
  <2>5. loop' \in [Loop -> Pass \cup {Off}]
    BY <2>3, <2>4 DEF WatchdogTypeOK
  <2> QED
    BY <1>2, <2>5 DEF Find, WatchdogTypeOK, Inbox!TypeOK
<1>3. CASE Record(l)
  <2>1. loop' \in [Loop -> Pass \cup {Off}]
    BY <1>3, MoveType DEF Record, At
  <2> QED
    BY <1>3, <2>1 DEF Record, WatchdogTypeOK, Inbox!TypeOK
<1>4. CASE Upsert(l)
  <2>1. loop[l] \in Pass
    BY <1>0, <1>4 DEF Upsert, At
  <2>2. loop' \in [Loop -> Pass \cup {Off}]
    BY <1>4, MoveType DEF Upsert, At
  <2>3. /\ runner' \in [Runner -> RunnerState]
        /\ target' \in [Runner -> Target]
        /\ pane' \in [Runner -> Loop \cup {NoPane}]
    BY <1>4, <2>1 DEF Upsert, WatchdogTypeOK, RunnerState, Pass
  <2> QED
    BY <1>4, <2>2, <2>3 DEF Upsert, WatchdogTypeOK, Inbox!TypeOK
<1>5. CASE Recheck(l)
  <2>1. loop' \in [Loop -> Pass \cup {Off}]
    BY <1>5, MoveType DEF Recheck, At
  <2> QED
    BY <1>5, <2>1 DEF Recheck, WatchdogTypeOK, Inbox!TypeOK
<1>6. CASE Deliver(l)
  <2>1. loop' \in [Loop -> Pass \cup {Off}]
    BY <1>6, MoveType DEF Deliver, At
  <2> QED
    BY <1>6, <2>1 DEF Deliver, WatchdogTypeOK, Inbox!TypeOK
<1>7. ASSUME NEW m \in Item, Raise(l, m) PROVE WatchdogTypeOK'
  <2>1. loop[l] \in Pass /\ loop[l].aim \in Role
    BY <1>0, <1>7 DEF Raise, At, AimIsRole
  <2>2. loop' \in [Loop -> Pass \cup {Off}]
    BY <1>7, MoveType DEF Raise, At
  <2>3. /\ status' \in [Item -> Inbox!Status]
        /\ urgent' \in [Item -> BOOLEAN]
    BY <1>7 DEF Raise, WatchdogTypeOK, Inbox!TypeOK, Inbox!Move, Inbox!Status
  <2>4. [runner |-> loop[l].runner, pane |-> l, recipient |-> loop[l].aim] \in Escalation
    BY <2>1 DEF Pass, Escalation
  <2>5. escalation' \in [Item -> Escalation \cup {NoEscalation}]
    BY <1>7, <2>4 DEF Raise, WatchdogTypeOK
  <2> QED
    BY <1>7, <2>2, <2>3, <2>5 DEF Raise, WatchdogTypeOK, Inbox!TypeOK
<1>8. CASE Wake(l)
  <2>1. loop' \in [Loop -> Pass \cup {Off}]
    BY <1>8, MoveType DEF Wake, At
  <2> QED
    BY <1>8, <2>1 DEF Wake, WatchdogTypeOK, Inbox!TypeOK
<1>9. CASE Finish(l)
  <2>1. runner' \in [Runner -> RunnerState]
    BY <1>9 DEF Finish, WatchdogTypeOK, RunnerState
  <2> QED
    BY <1>9, <2>1, EndType DEF Finish, WatchdogTypeOK, Inbox!TypeOK
<1>10. CASE Rest(l)
  <2>1. loop' \in [Loop -> Pass \cup {Off}]
    BY <1>10, MoveType DEF Rest, At
  <2> QED
    BY <1>10, <2>1 DEF Rest, WatchdogTypeOK, Inbox!TypeOK
<1>11. CASE SeeStop(l)
  BY <1>11, EndType DEF SeeStop, WatchdogTypeOK, Inbox!TypeOK
<1> QED
  BY <1>1, <1>2, <1>3, <1>4, <1>5, <1>6, <1>7, <1>8, <1>9, <1>10, <1>11 DEF Step

(* Every step of an operator's command keeps the types.                     *)
LEMMA OperateType ==
  ASSUME WatchdogTypeOK, NEW o \in Operator, Operate(o)
  PROVE  WatchdogTypeOK'
<1> USE DEF messageVars, runnerVars
<1>0. command[o] # NoCommand => command[o] \in Command
  BY DEF WatchdogTypeOK
<1>1. ASSUME NEW n \in Runner, NEW t \in Target, StartFails(o, n, t) PROVE WatchdogTypeOK'
  BY <1>1 DEF StartFails, WatchdogTypeOK, RunnerState, Inbox!TypeOK
<1>2. ASSUME NEW n \in Runner, NEW t \in Target, NEW l \in Loop, Start(o, l, n, t)
      PROVE  WatchdogTypeOK'
  <2>1. loop' \in [Loop -> Pass \cup {Off}]
    BY <1>2, LaunchType DEF Start
  <2>2. command' \in [Operator -> Command \cup {NoCommand}]
    BY <1>2 DEF Start, WatchdogTypeOK, Command
  <2> QED
    BY <1>2, <2>1, <2>2 DEF Start, WatchdogTypeOK, Inbox!TypeOK
<1>3. ASSUME NEW n \in Runner, Pause(o, n) PROVE WatchdogTypeOK'
  <2>1. command' \in [Operator -> Command \cup {NoCommand}]
    BY <1>3 DEF Pause, WatchdogTypeOK, Command
  <2> QED
    BY <1>3, <2>1 DEF Pause, WatchdogTypeOK, Inbox!TypeOK
<1>4. ASSUME NEW n \in Runner, Stop(o, n) PROVE WatchdogTypeOK'
  <2>1. command' \in [Operator -> Command \cup {NoCommand}]
    BY <1>4 DEF Stop, WatchdogTypeOK, Command
  <2> QED
    BY <1>4, <2>1, EndType DEF Stop, WatchdogTypeOK, Inbox!TypeOK
<1>5. CASE WriteStart(o)
  <2>1. command[o] \in [do : {"start"}, runner : Runner, target : Target, pane : Loop]
    BY <1>5, <1>0 DEF WriteStart, Command, NoCommand
  <2>2. /\ runner' \in [Runner -> RunnerState]
        /\ target' \in [Runner -> Target]
        /\ pane' \in [Runner -> Loop \cup {NoPane}]
    BY <1>5, <2>1 DEF WriteStart, WatchdogTypeOK, RunnerState
  <2> QED
    BY <1>5, <2>2 DEF WriteStart, WatchdogTypeOK, Inbox!TypeOK
<1>6. CASE WritePause(o)
  BY <1>6 DEF WritePause, WriteState, WatchdogTypeOK, RunnerState, Inbox!TypeOK
<1>7. CASE WriteStop(o)
  BY <1>7 DEF WriteStop, WriteState, WatchdogTypeOK, RunnerState, Inbox!TypeOK
<1> QED
  BY <1>1, <1>2, <1>3, <1>4, <1>5, <1>6, <1>7 DEF Operate

(* Types are an invariant, together with AimIsRole.                         *)
LEMMA NextType ==
  ASSUME WatchdogTypeOK, AimIsRole, [Next]_vars
  PROVE  WatchdogTypeOK'
<1> USE DEF messageVars, runnerVars
<1>1. ASSUME NEW l \in Loop, Interrupt(l) PROVE WatchdogTypeOK'
  <2>1. runner' \in [Runner -> RunnerState]
    BY <1>1 DEF Interrupt, WatchdogTypeOK, RunnerState
  <2> QED
    BY <1>1, <2>1, EndType DEF Interrupt, WatchdogTypeOK, Inbox!TypeOK
<1>2. ASSUME NEW l \in Loop, Kill(l) PROVE WatchdogTypeOK'
  BY <1>2, EndType DEF Kill, WatchdogTypeOK, Inbox!TypeOK
<1>3. ASSUME NEW l \in Loop, NEW n \in Runner, NEW t \in Target, Run(l, n, t)
      PROVE  WatchdogTypeOK'
  BY <1>3, LaunchType DEF Run, WatchdogTypeOK, Inbox!TypeOK
<1>4. ASSUME NEW n \in Runner, StopRow(n) \/ Resume(n) PROVE WatchdogTypeOK'
  BY <1>4 DEF StopRow, Resume, WatchdogTypeOK, RunnerState, Inbox!TypeOK
<1>5. ASSUME NEW n \in Runner, NEW t \in Target, Update(n, t) PROVE WatchdogTypeOK'
  BY <1>5 DEF Update, WatchdogTypeOK, Inbox!TypeOK
<1>6. CASE Others
  <2>1. Inbox!TypeOK'
    BY <1>6, InboxType DEF Others, WatchdogTypeOK
  <2>2. urgent' \in [Item -> BOOLEAN]
    BY <1>6 DEF Others, WatchdogTypeOK
  <2> QED
    BY <1>6, <2>1, <2>2 DEF Others, WatchdogTypeOK
<1>7. CASE UNCHANGED vars
  BY <1>7 DEF vars, WatchdogTypeOK, Inbox!TypeOK
<1> QED
  BY <1>1, <1>2, <1>3, <1>4, <1>5, <1>6, <1>7, StepType, OperateType DEF Next

-----------------------------------------------------------------------------
(* One escalation per pane. *)

(* A step of the program that sends no escalation and puts no process past  *)
(* its search for findings keeps the invariant.                             *)
LEMMA QuietStep ==
  ASSUME EscalationInv, WatchdogTypeOK', UNCHANGED messageVars,
         \A l \in Loop : \/ loop'[l] = loop[l]
                         \/ loop'[l].at \notin {"deliver", "raise", "wake"}
  PROVE  EscalationInv'
<1>1. SentIsRecorded' /\ OneEscalation'
  BY DEF EscalationInv, SentIsRecorded, OneEscalation, ActiveEscalations, messageVars
<1>2. AimIsRole'
  BY DEF EscalationInv, AimIsRole
<1>3. ClearToRaise'
  BY DEF EscalationInv, ClearToRaise, At, ActiveEscalations, messageVars
<1> QED
  BY <1>1, <1>2, <1>3 DEF EscalationInv

(* Ending or starting a process is such a step, and so is the end of a pass *)
(* or a step towards the findings.                                          *)
LEMMA QuietLoop ==
  ASSUME WatchdogTypeOK, NEW l \in Loop,
         \/ Ends(l)
         \/ \E n \in Runner, t \in Target : Launch(l, n, t)
         \/ /\ loop[l].at # "off"
            /\ \E at \in {"top", "doze", "find", "record", "upsert", "recheck", "rest"} :
                 GoTo(l, at) \/ PassOver(l, at)
  PROVE  \A k \in Loop : \/ loop'[k] = loop[k]
                         \/ loop'[k].at \notin {"deliver", "raise", "wake"}
<1>1. loop \in [Loop -> Pass \cup {Off}]
  BY DEF WatchdogTypeOK
<1>2. loop[l].at # "off" => loop[l] \in Pass
  BY PassType
<1>3. CASE Ends(l)
  BY <1>1, <1>3 DEF Ends, Off
<1>4. CASE \E n \in Runner, t \in Target : Launch(l, n, t)
  BY <1>1, <1>4 DEF Launch
<1>5. ASSUME loop[l].at # "off",
             NEW at \in {"top", "doze", "find", "record", "upsert", "recheck", "rest"},
             GoTo(l, at) \/ PassOver(l, at)
      PROVE  \A k \in Loop : \/ loop'[k] = loop[k]
                             \/ loop'[k].at \notin {"deliver", "raise", "wake"}
  <2>1. loop'[l].at = at
    BY <1>1, <1>2, <1>5 DEF GoTo, PassOver, Pass
  <2>2. \A k \in Loop : k # l => loop'[k] = loop[k]
    BY <1>1, <1>5 DEF GoTo, PassOver
  <2> QED
    BY <2>1, <2>2
<1> QED
  BY <1>3, <1>4, <1>5

(* If a pass has findings to deliver and a method to deliver them by, that  *)
(* method names a role.                                                     *)
LEMMA RecheckKeeps ==
  ASSUME EscalationInv, WatchdogTypeOK', NEW l \in Loop, Recheck(l)
  PROVE  EscalationInv'
<1>1. WatchdogTypeOK /\ loop[l] \in Pass
  BY PassType DEF EscalationInv, Recheck, At
<1>2. CASE PassOver(l, "top") \/ PassOver(l, "rest")
  BY <1>1, <1>2, QuietLoop, QuietStep DEF Recheck, At
<1>3. CASE GoTo(l, "deliver") /\ Deliverable(l)
  <2>1. loop[l].aim \in Role
    BY <1>1, <1>3 DEF Deliverable, Pass, Target
  <2>2. /\ loop'[l].at = "deliver"
        /\ loop'[l].aim = loop[l].aim
        /\ \A k \in Loop : k # l => loop'[k] = loop[k]
    BY <1>1, <1>3 DEF GoTo, WatchdogTypeOK, Pass
  <2>3. AimIsRole'
    BY <2>1, <2>2 DEF EscalationInv, AimIsRole
  <2>4. UNCHANGED messageVars
    BY DEF Recheck
  <2>5. SentIsRecorded' /\ OneEscalation'
    BY <2>4 DEF EscalationInv, SentIsRecorded, OneEscalation, ActiveEscalations, messageVars
  <2>6. ClearToRaise'
    BY <2>2, <2>4 DEF EscalationInv, ClearToRaise, At, ActiveEscalations, messageVars
  <2> QED
    BY <2>3, <2>5, <2>6 DEF EscalationInv
<1> QED
  BY <1>2, <1>3 DEF Recheck

(* The search for an active escalation clears the way for one only if it    *)
(* finds none.                                                              *)
LEMMA DeliverKeeps ==
  ASSUME EscalationInv, WatchdogTypeOK', NEW l \in Loop, Deliver(l)
  PROVE  EscalationInv'
<1>1. WatchdogTypeOK /\ loop[l] \in Pass
  BY PassType DEF EscalationInv, Deliver, At
<1>2. CASE PassOver(l, "rest")
  BY <1>1, <1>2, QuietLoop, QuietStep DEF Deliver, At
<1>3. CASE GoTo(l, "raise") /\ ActiveEscalations(loop[l].runner, loop[l].aim) = {}
  <2>1. /\ loop'[l].at = "raise"
        /\ loop'[l].aim = loop[l].aim
        /\ loop'[l].runner = loop[l].runner
        /\ \A k \in Loop : k # l => loop'[k] = loop[k]
    BY <1>1, <1>3 DEF GoTo, WatchdogTypeOK, Pass
  <2>2. AimIsRole'
    BY <2>1 DEF EscalationInv, AimIsRole, Deliver, At
  <2>3. UNCHANGED messageVars
    BY DEF Deliver
  <2>4. SentIsRecorded' /\ OneEscalation'
    BY <2>3 DEF EscalationInv, SentIsRecorded, OneEscalation, ActiveEscalations, messageVars
  <2>5. ClearToRaise'
    BY <1>3, <2>1, <2>3 DEF EscalationInv, ClearToRaise, At, ActiveEscalations, messageVars
  <2> QED
    BY <2>2, <2>4, <2>5 DEF EscalationInv
<1> QED
  BY <1>2, <1>3 DEF Deliver

(* The new escalation is the only active one with its key from its pane,    *)
(* for the way was clear; the others are as they were.                      *)
LEMMA RaiseKeeps ==
  ASSUME EscalationInv, WatchdogTypeOK', NEW l \in Loop, NEW m \in Item, Raise(l, m)
  PROVE  EscalationInv'
<1> DEFINE n == loop[l].runner
           r == loop[l].aim
<1>1. WatchdogTypeOK /\ loop[l] \in Pass /\ At(l, "raise")
  BY PassType DEF EscalationInv, Raise, At
<1>2. /\ status[m] = "absent" /\ status'[m] = "waiting"
      /\ \A k \in Item : k # m => status'[k] = status[k] /\ escalation'[k] = escalation[k]
      /\ escalation'[m] = [runner |-> n, pane |-> l, recipient |-> r]
  BY <1>1 DEF Raise, Inbox!Move, WatchdogTypeOK, Inbox!TypeOK
<1>3. /\ loop'[l].at = "wake" /\ loop'[l].aim = r
      /\ \A k \in Loop : k # l => loop'[k] = loop[k]
  BY <1>1 DEF Raise, GoTo, WatchdogTypeOK, Pass
<1>4. SentIsRecorded'
  BY <1>2 DEF EscalationInv, SentIsRecorded
<1>5. AimIsRole'
  BY <1>1, <1>3 DEF EscalationInv, AimIsRole, At
<1>6. \A p \in Runner, q \in Role :
        ActiveEscalations(p, q)' \subseteq ActiveEscalations(p, q) \cup {m}
  BY <1>2 DEF ActiveEscalations
<1>7. ClearToRaise'
  <2> SUFFICES ASSUME NEW k \in Loop, At(k, "raise")',
                      NEW e \in ActiveEscalations(loop[k].runner, loop[k].aim)'
               PROVE  escalation'[e].pane # k
    BY DEF ClearToRaise
  <2>1. k # l /\ loop'[k] = loop[k] /\ At(k, "raise")
    BY <1>3 DEF At
  <2>2. CASE e = m
    BY <1>2, <2>1, <2>2
  <2>3. CASE e # m
    <3>1. e \in ActiveEscalations(loop[k].runner, loop[k].aim)
      BY <1>2, <2>1, <2>3 DEF ActiveEscalations
    <3>2. escalation'[e] = escalation[e]
      BY <1>2, <2>3 DEF ActiveEscalations
    <3> QED
      BY <2>1, <3>1, <3>2 DEF EscalationInv, ClearToRaise
  <2> QED
    BY <2>2, <2>3
<1>8. OneEscalation'
  <2> SUFFICES ASSUME NEW p \in Runner, NEW q \in Role,
                      NEW d \in ActiveEscalations(p, q)', NEW e \in ActiveEscalations(p, q)',
                      escalation'[d].pane = escalation'[e].pane
               PROVE  d = e
    BY DEF OneEscalation
  <2>1. d \in Item /\ e \in Item
    BY DEF ActiveEscalations
  <2>2. ASSUME NEW f \in ActiveEscalations(p, q)', f # m, m \in ActiveEscalations(p, q)'
        PROVE  escalation'[f].pane # escalation'[m].pane
    <3>1. p = n /\ q = r
      BY <1>2, <2>2 DEF ActiveEscalations
    <3>2. f \in ActiveEscalations(n, r) /\ escalation'[f] = escalation[f]
      BY <1>2, <2>2, <3>1 DEF ActiveEscalations
    <3>3. escalation[f].pane # l
      BY <1>1, <3>2 DEF EscalationInv, ClearToRaise
    <3> QED
      BY <1>2, <3>2, <3>3
  <2>3. CASE d # m /\ e # m
    <3>1. d \in ActiveEscalations(p, q) /\ e \in ActiveEscalations(p, q)
      BY <1>6, <2>3
    <3> QED
      BY <1>2, <2>1, <2>3, <3>1 DEF EscalationInv, OneEscalation
  <2> QED
    BY <2>2, <2>3
<1> QED
  BY <1>4, <1>5, <1>7, <1>8 DEF EscalationInv

(* Agents make no message active that was on record and was not.            *)
LEMMA InboxKeeps ==
  ASSUME Inbox!TypeOK, Inbox!Next, NEW m \in Item, status[m] # "absent"
  PROVE  /\ status'[m] # "absent"
         /\ status'[m] \in Active => status[m] \in Active
<1>1. ASSUME NEW i \in Item, Inbox!Post(i) \/ Inbox!Lease(i) \/ Inbox!Accept(i)
      PROVE  /\ status'[m] # "absent"
             /\ status'[m] \in Active => status[m] \in Active
  BY <1>1 DEF Inbox!TypeOK, Inbox!Post, Inbox!Lease, Inbox!Accept, Inbox!Move, Active
<1>2. ASSUME NEW S \in SUBSET Item, Inbox!Lapse(S) \/ Inbox!Finish(S)
      PROVE  /\ status'[m] # "absent"
             /\ status'[m] \in Active => status[m] \in Active
  BY <1>2 DEF Inbox!TypeOK, Inbox!Lapse, Inbox!Finish, Inbox!Move, Active
<1> QED
  BY <1>1, <1>2 DEF Inbox!Next

(* So the steps of agents keep the invariant.                               *)
LEMMA OthersKeep ==
  ASSUME EscalationInv, WatchdogTypeOK', Others
  PROVE  EscalationInv'
<1>1. Inbox!TypeOK /\ UNCHANGED <<escalation, loop>>
  BY DEF EscalationInv, WatchdogTypeOK, Others
<1>2. SentIsRecorded'
  BY <1>1, InboxKeeps DEF EscalationInv, SentIsRecorded, Others
<1>3. \A n \in Runner, r \in Role : ActiveEscalations(n, r)' \subseteq ActiveEscalations(n, r)
  BY <1>1, InboxKeeps DEF EscalationInv, SentIsRecorded, Others, ActiveEscalations
<1>4. AimIsRole'
  BY <1>1 DEF EscalationInv, AimIsRole
<1>5. OneEscalation'
  BY <1>1, <1>3 DEF EscalationInv, OneEscalation
<1>6. ASSUME NEW l \in Loop, At(l, "raise") PROVE loop[l].runner \in Runner /\ loop[l].aim \in Role
  BY <1>6, PassType DEF EscalationInv, AimIsRole, At, Pass
<1>7. ClearToRaise'
  BY <1>1, <1>3, <1>6 DEF EscalationInv, ClearToRaise, At
<1> QED
  BY <1>2, <1>4, <1>5, <1>7 DEF EscalationInv

(* The invariant is inductive.                                              *)
LEMMA EscalationNext ==
  ASSUME EscalationInv, [Next]_vars
  PROVE  EscalationInv'
<1> DEFINE Quiet == \A k \in Loop : \/ loop'[k] = loop[k]
                                    \/ loop'[k].at \notin {"deliver", "raise", "wake"}
<1>1. WatchdogTypeOK /\ WatchdogTypeOK'
  BY NextType DEF EscalationInv
<1>2. ASSUME NEW l \in Loop, Step(l) PROVE EscalationInv'
  <2>1. CASE Preflight(l)
    <3>1. loop[l] \in Pass /\ loop \in [Loop -> Pass \cup {Off}]
      BY <1>1, <2>1, PassType DEF Preflight, At, WatchdogTypeOK
    <3>2. Quiet
      BY <3>1, <2>1 DEF Preflight, GoTo, Pass
    <3> QED
      BY <1>1, <2>1, <3>2, QuietStep DEF Preflight
  <2>2. CASE Find(l)
    <3>1. loop[l] \in Pass /\ loop \in [Loop -> Pass \cup {Off}]
      BY <1>1, <2>2, PassType DEF Find, At, WatchdogTypeOK
    <3>2. Quiet
      BY <3>1, <2>2 DEF Find, Pass
    <3> QED
      BY <1>1, <2>2, <3>2, QuietStep DEF Find
  <2>3. CASE Record(l)
    BY <1>1, <2>3, QuietLoop, QuietStep DEF Record, At
  <2>4. CASE Upsert(l)
    BY <1>1, <2>4, QuietLoop, QuietStep DEF Upsert, At
  <2>5. CASE Wake(l)
    BY <1>1, <2>5, QuietLoop, QuietStep DEF Wake, At
  <2>6. CASE Finish(l) \/ SeeStop(l)
    BY <1>1, <2>6, QuietLoop, QuietStep DEF Finish, SeeStop
  <2>7. CASE Rest(l)
    BY <1>1, <2>7, QuietLoop, QuietStep DEF Rest, At
  <2> QED
    BY <1>1, <1>2, <2>1, <2>2, <2>3, <2>4, <2>5, <2>6, <2>7, RecheckKeeps, DeliverKeeps, RaiseKeeps DEF Step
<1>3. ASSUME NEW l \in Loop, Interrupt(l) \/ Kill(l) PROVE EscalationInv'
  BY <1>1, <1>3, QuietLoop, QuietStep DEF Interrupt, Kill
<1>4. ASSUME NEW l \in Loop, NEW n \in Runner, NEW t \in Target, Run(l, n, t) PROVE EscalationInv'
  BY <1>1, <1>4, QuietLoop, QuietStep DEF Run
<1>5. ASSUME NEW n \in Runner,
             StopRow(n) \/ Resume(n) \/ \E t \in Target : Update(n, t)
      PROVE  EscalationInv'
  BY <1>1, <1>5, QuietStep DEF StopRow, Resume, Update
<1>6. ASSUME NEW o \in Operator, Operate(o) PROVE EscalationInv'
  <2>1. ASSUME NEW n \in Runner, NEW t \in Target, NEW l \in Loop, Start(o, l, n, t)
        PROVE  EscalationInv'
    BY <1>1, <2>1, QuietLoop, QuietStep DEF Start
  <2>2. ASSUME NEW n \in Runner, Stop(o, n) PROVE EscalationInv'
    BY <1>1, <2>2, QuietLoop, QuietStep DEF Stop
  <2>3. ASSUME UNCHANGED <<messageVars, loop>> PROVE EscalationInv'
    BY <1>1, <2>3, QuietStep
  <2> QED
    BY <1>6, <2>1, <2>2, <2>3
       DEF Operate, StartFails, Pause, WriteStart, WritePause, WriteStop, WriteState
<1>7. CASE UNCHANGED vars
  BY <1>1, <1>7, QuietStep DEF vars
<1> QED
  BY <1>1, <1>2, <1>3, <1>4, <1>5, <1>6, <1>7, OthersKeep DEF Next

(* It holds at first: nothing is on record and no process runs.             *)
LEMMA EscalationInit ==
  ASSUME Init
  PROVE  EscalationInv
<1>1. WatchdogTypeOK
  BY DEF Init, WatchdogTypeOK, Inbox!Init, Inbox!TypeOK, Inbox!Status, RunnerState, Target
<1>2. SentIsRecorded /\ OneEscalation
  BY DEF Init, SentIsRecorded, OneEscalation, ActiveEscalations
<1>3. AimIsRole /\ ClearToRaise
  BY DEF Init, AimIsRole, ClearToRaise, At, Off
<1> QED
  BY <1>1, <1>2, <1>3 DEF EscalationInv

-----------------------------------------------------------------------------

(* The tables and the processes have the types that WatchdogTypeOK gives    *)
(* them: a runner is in one of the five states of the schema, and what a    *)
(* process delivers it delivers to a role.                                  *)
THEOREM WatchdogTypes == Spec => []WatchdogTypeOK
<1>1. EscalationInv => WatchdogTypeOK
  BY DEF EscalationInv
<1> QED
  BY EscalationInit, EscalationNext, <1>1, PTL DEF Spec

(* However commands, agents, kills and lapsing claims interleave, the       *)
(* passes of one pane never leave two active escalations with one key       *)
(* (deliver_watchdog_pressure).                                             *)
THEOREM WatchdogSuppressesDuplicates == Spec => []OneEscalation
<1>1. EscalationInv => OneEscalation
  BY DEF EscalationInv
<1> QED
  BY EscalationInit, EscalationNext, <1>1, PTL DEF Spec

=============================================================================
