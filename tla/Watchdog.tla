-------------------------------- MODULE Watchdog --------------------------------
(***************************************************************************)
(* Watchdog runners: the rows of watchdog_runners, the processes that run  *)
(* `watchdog run` in panes of their own, and the commands that start,      *)
(* pause, resume, update and stop them (store.py, cli.py).  A pass of a    *)
(* process reads its row, looks for findings, records itself and, unless   *)
(* somebody was told already, sends one escalation and a wake.             *)
(*                                                                         *)
(* Every step is one transaction or one read.  What everybody else does to *)
(* messages meanwhile is what WorkQueue promises of them (Others), which   *)
(* MessageStore implements.  A runner's scope is the whole team; its       *)
(* notify role and delivery method are one value, the role that is told or *)
(* ReportOnly.  Intervals, review times and --iterations only say when a   *)
(* pass begins and which is the last, which is left open.                  *)
(*                                                                         *)
(* An operator named Slip_... is a plausible mistake in the operator after *)
(* it; it takes no part in the specification and exists for mutation runs. *)
(***************************************************************************)

CONSTANTS
  Item,          \* messages
  Role,          \* managed roles
  Runner,        \* names of runners
  Loop,          \* panes that a `watchdog run` may run in
  Operator,      \* commands that operators run at a time
  ReportOnly,    \* the delivery method that tells nobody
  NoPane,        \* no pane, or the pane of a process that has ended
  NoEscalation   \* any message a watchdog did not send

ASSUME ReportOnlyAssumption == ReportOnly \notin Role
ASSUME PaneAssumption == NoPane \notin Loop

VARIABLES
  status,      \* status[m]: a message, as WorkQueue sees it
  urgent,      \* urgent[m]: its priority is urgent
  escalation,  \* escalation[m]: the runner, pane and recipient it came from
  runner,      \* runner[n]: the state column, "none" before the INSERT
  target,      \* target[n]: the notify_role and delivery_method columns
  pane,        \* pane[n]: the pane column
  loop,        \* loop[l]: where the process in pane l is
  command      \* command[o]: an operator's command between two steps

Inbox == INSTANCE WorkQueue

messageVars == <<status, urgent, escalation>>
runnerVars == <<runner, target, pane>>
vars == <<messageVars, runnerVars, loop, command>>

-----------------------------------------------------------------------------

Target == Role \cup {ReportOnly}
RunnerState == {"none", "running", "paused", "stopped", "failed"}
Escalation == [runner : Runner, pane : Loop, recipient : Role]

Off == [at |-> "off"]
NoCommand == [do |-> "nothing"]

(* arg is what the command line says, aim what this pass goes by, found the *)
(* gravest severity among its findings.                                     *)
Pass ==
  [at : {"top", "doze", "find", "record", "upsert", "recheck", "deliver", "raise",
         "wake", "rest"},
   runner : Runner, arg : Target, aim : Target, found : {"urgent", "warning", "nothing"}]

Command ==
  [do : {"start"}, runner : Runner, target : Target, pane : Loop]
    \cup [do : {"pause", "stop"}, runner : Runner]

(* Queued, notified, claimed (though the claim may have expired) or         *)
(* acknowledged; the correlation key is the runner and the recipient.       *)
Active == {"waiting", "leased", "lapsed", "accepted"}

ActiveEscalations(n, r) ==
  {m \in Item : /\ status[m] \in Active
                /\ escalation[m] # NoEscalation
                /\ escalation[m].runner = n
                /\ escalation[m].recipient = r}

UrgentPending == {m \in Item : status[m] = "waiting" /\ urgent[m]}
StaleClaimed == {m \in Item : status[m] = "lapsed"}

WatchdogTypeOK ==
  /\ Inbox!TypeOK
  /\ urgent \in [Item -> BOOLEAN]
  /\ escalation \in [Item -> Escalation \cup {NoEscalation}]
  /\ runner \in [Runner -> RunnerState]
  /\ target \in [Runner -> Target]
  /\ pane \in [Runner -> Loop \cup {NoPane}]
  /\ loop \in [Loop -> Pass \cup {Off}]
  /\ command \in [Operator -> Command \cup {NoCommand}]

Init ==
  /\ Inbox!Init
  /\ urgent = [m \in Item |-> FALSE]
  /\ escalation = [m \in Item |-> NoEscalation]
  /\ runner = [n \in Runner |-> "none"]
  /\ target = [n \in Runner |-> ReportOnly]
  /\ pane = [n \in Runner |-> NoPane]
  /\ loop = [l \in Loop |-> Off]
  /\ command = [o \in Operator |-> NoCommand]

-----------------------------------------------------------------------------
(* One pass of the process in pane l. *)

At(l, at) == loop[l].at = at
GoTo(l, at) == loop' = [loop EXCEPT ![l].at = at]

(* What a pass found out is forgotten when it is over.                      *)
PassOver(l, at) ==
  loop' = [loop EXCEPT ![l].at = at, ![l].aim = loop[l].arg, ![l].found = "nothing"]

(* The processes of runner n.                                               *)
Serving(n) == {l \in Loop : loop[l] # Off /\ loop[l].runner = n}

(* The process is over, and its pane with it.                               *)
Ends(l) ==
  /\ loop' = [loop EXCEPT ![l] = Off]
  /\ pane' = [n \in Runner |-> IF pane[n] = l THEN NoPane ELSE pane[n]]

(* The row says what to do, unless there is none or it is stopped or        *)
(* failed: then the command line does.                                      *)
Preflight(l) ==
  LET n == loop[l].runner IN
  /\ At(l, "top")
  /\ IF runner[n] = "paused"
     THEN GoTo(l, "doze")
     ELSE loop' = [loop EXCEPT ![l].at = "find",
                               ![l].aim = IF runner[n] = "running" THEN target[n] ELSE loop[l].arg]
  /\ UNCHANGED <<messageVars, runnerVars, command>>

(* watchdog_findings, its queries taken together: urgent work that waits    *)
(* and claims that expired are always found.  Whether held messages,        *)
(* obligations and paused runners are overdue is left open: each would be a *)
(* warning.                                                                 *)
Findings ==
  CASE UrgentPending # {} -> {"urgent"}
    [] UrgentPending = {} /\ StaleClaimed # {} -> {"warning"}
    [] OTHER -> {"warning", "nothing"}

Find(l) ==
  /\ At(l, "find")
  /\ \E found \in Findings : loop' = [loop EXCEPT ![l].at = "record", ![l].found = found]
  /\ UNCHANGED <<messageVars, runnerVars, command>>

(* record_watchdog_runner_run reads the row again and goes back if it is    *)
(* paused by now ...                                                        *)
Record(l) ==
  /\ At(l, "record")
  /\ IF runner[loop[l].runner] = "paused" THEN PassOver(l, "top") ELSE GoTo(l, "upsert")
  /\ UNCHANGED <<messageVars, runnerVars, command>>

Slip_Upsert(l) ==
  LET n == loop[l].runner IN
  /\ At(l, "upsert")
  /\ runner' = [runner EXCEPT ![n] = "running"]
  /\ target' = [target EXCEPT ![n] = loop[l].runner]
  /\ pane' = [pane EXCEPT ![n] = l]
  /\ GoTo(l, "recheck")
  /\ UNCHANGED <<messageVars, command>>

(* ... and then writes over whatever the row has become.                    *)
Upsert(l) ==
  LET n == loop[l].runner IN
  /\ At(l, "upsert")
  /\ runner' = [runner EXCEPT ![n] = "running"]
  /\ target' = [target EXCEPT ![n] = loop[l].aim]
  /\ pane' = [pane EXCEPT ![n] = l]
  /\ GoTo(l, "recheck")
  /\ UNCHANGED <<messageVars, command>>

Deliverable(l) == loop[l].found # "nothing" /\ loop[l].aim # ReportOnly

(* The row it returns is what the table says after the commit.              *)
Recheck(l) ==
  /\ At(l, "recheck")
  /\ CASE runner[loop[l].runner] = "paused" -> PassOver(l, "top")
       [] runner[loop[l].runner] # "paused" /\ Deliverable(l) -> GoTo(l, "deliver")
       [] OTHER -> PassOver(l, "rest")
  /\ UNCHANGED <<messageVars, runnerVars, command>>

Slip_DeliverUnclaimed(l) ==
  /\ At(l, "deliver")
  /\ IF \E m \in ActiveEscalations(loop[l].runner, loop[l].aim) : status[m] = "waiting"
     THEN PassOver(l, "rest")
     ELSE GoTo(l, "raise")
  /\ UNCHANGED <<messageVars, runnerVars, command>>

Slip_DeliverNoKey(l) ==
  /\ At(l, "deliver")
  /\ IF \E m \in Item : status[m] \in Active
     THEN PassOver(l, "rest")
     ELSE GoTo(l, "raise")
  /\ UNCHANGED <<messageVars, runnerVars, command>>

(* deliver_watchdog_pressure: an active escalation with the same key        *)
(* suppresses another.                                                      *)
Deliver(l) ==
  /\ At(l, "deliver")
  /\ IF ActiveEscalations(loop[l].runner, loop[l].aim) # {}
     THEN PassOver(l, "rest")
     ELSE GoTo(l, "raise")
  /\ UNCHANGED <<messageVars, runnerVars, command>>

(* The escalation is forced, so that no role state blocks it.               *)
Raise(l, m) ==
  /\ At(l, "raise")
  /\ Inbox!Move({m}, {"absent"}, "waiting")
  /\ urgent' = [urgent EXCEPT ![m] = loop[l].found = "urgent"]
  /\ escalation' = [escalation EXCEPT ![m] =
       [runner |-> loop[l].runner, pane |-> l, recipient |-> loop[l].aim]]
  /\ GoTo(l, "wake")
  /\ UNCHANGED <<runnerVars, command>>

(* A wake, accepted or not, leaves what waits waiting.                      *)
Wake(l) ==
  /\ At(l, "wake")
  /\ PassOver(l, "rest")
  /\ UNCHANGED <<messageVars, runnerVars, command>>

(* The last pass marks the row stopped, whatever it says by then.           *)
Finish(l) ==
  /\ At(l, "rest")
  /\ runner' = [runner EXCEPT ![loop[l].runner] = "stopped"]
  /\ Ends(l)
  /\ UNCHANGED <<messageVars, target, command>>

(* Between two passes and while it sees its row paused, the process looks   *)
(* at the row once a second and ends if it is stopped; its interval may be  *)
(* over first.                                                              *)
Rest(l) ==
  /\ At(l, "rest") \/ At(l, "doze")
  /\ GoTo(l, "top")
  /\ UNCHANGED <<messageVars, runnerVars, command>>

SeeStop(l) ==
  /\ At(l, "rest") \/ At(l, "doze")
  /\ runner[loop[l].runner] \in {"stopped", "failed"}
  /\ Ends(l)
  /\ UNCHANGED <<messageVars, runner, target, command>>

(* An interrupt or an error is written to the row, if there is one; a kill  *)
(* is not.                                                                  *)
Interrupt(l) ==
  LET n == loop[l].runner IN
  /\ loop[l] # Off
  /\ \E s \in {"stopped", "failed"} :
       runner' = [runner EXCEPT ![n] = IF runner[n] = "none" THEN "none" ELSE s]
  /\ Ends(l)
  /\ UNCHANGED <<messageVars, target, command>>

Kill(l) ==
  /\ loop[l] # Off
  /\ Ends(l)
  /\ UNCHANGED <<messageVars, runner, target, command>>

-----------------------------------------------------------------------------
(* Operators. *)

Free(o) == command[o] = NoCommand

Launch(l, n, t) ==
  /\ loop[l] = Off
  /\ loop' = [loop EXCEPT ![l] = [at |-> "top", runner |-> n, arg |-> t, aim |-> t,
                                  found |-> "nothing"]]

(* watchdog run, started by hand.                                           *)
Run(l, n, t) ==
  /\ Launch(l, n, t)
  /\ UNCHANGED <<messageVars, runnerVars, command>>

(* start believes a row that says running until it is a minute overdue,     *)
(* which takes a process that has ended.                                    *)
MayStart(n) == runner[n] # "running" \/ Serving(n) = {}

(* watchdog start opens the pane first and writes the row afterwards; if    *)
(* tmux refuses the pane, the row is failed.                                *)
Start(o, l, n, t) ==
  /\ Free(o)
  /\ MayStart(n)
  /\ Launch(l, n, t)
  /\ command' = [command EXCEPT ![o] = [do |-> "start", runner |-> n, target |-> t, pane |-> l]]
  /\ UNCHANGED <<messageVars, runnerVars>>

StartFails(o, n, t) ==
  /\ Free(o)
  /\ MayStart(n)
  /\ runner' = [runner EXCEPT ![n] = "failed"]
  /\ target' = [target EXCEPT ![n] = t]
  /\ UNCHANGED <<messageVars, pane, loop, command>>

(* The check of pause and its UPDATE are apart.                             *)
Pause(o, n) ==
  /\ Free(o)
  /\ runner[n] \in {"running", "paused"}
  /\ command' = [command EXCEPT ![o] = [do |-> "pause", runner |-> n]]
  /\ UNCHANGED <<messageVars, runnerVars, loop>>

(* watchdog stop kills the pane first, and gives up if there is none to     *)
(* kill ...                                                                 *)
Stop(o, n) ==
  /\ Free(o)
  /\ pane[n] \in Loop
  /\ Ends(pane[n])
  /\ command' = [command EXCEPT ![o] = [do |-> "stop", runner |-> n]]
  /\ UNCHANGED <<messageVars, runner, target>>

(* ... unless the row never had one, or with --no-kill-pane.                *)
StopRow(n) ==
  /\ runner[n] # "none"
  /\ runner' = [runner EXCEPT ![n] = "stopped"]
  /\ UNCHANGED <<messageVars, target, pane, loop, command>>

(* The second half of start, pause and stop: an unconditional write.        *)
WriteStart(o) ==
  LET c == command[o] IN
  /\ c.do = "start"
  /\ runner' = [runner EXCEPT ![c.runner] = "running"]
  /\ target' = [target EXCEPT ![c.runner] = c.target]
  /\ pane' = [pane EXCEPT ![c.runner] = IF c.pane \in Serving(c.runner) THEN c.pane ELSE NoPane]
  /\ command' = [command EXCEPT ![o] = NoCommand]
  /\ UNCHANGED <<messageVars, loop>>

WriteState(o, do, s) ==
  /\ command[o].do = do
  /\ runner' = [runner EXCEPT ![command[o].runner] = s]
  /\ command' = [command EXCEPT ![o] = NoCommand]
  /\ UNCHANGED <<messageVars, target, pane, loop>>

WritePause(o) == WriteState(o, "pause", "paused")
WriteStop(o) == WriteState(o, "stop", "stopped")

Resume(n) ==
  /\ runner[n] = "paused"
  /\ runner' = [runner EXCEPT ![n] = "running"]
  /\ UNCHANGED <<messageVars, target, pane, loop, command>>

Update(n, t) ==
  /\ runner[n] \in {"running", "paused"}
  /\ target' = [target EXCEPT ![n] = t]
  /\ UNCHANGED <<messageVars, runner, pane, loop, command>>

-----------------------------------------------------------------------------

(* Agents and their commands; the priority is written with the message.     *)
Others ==
  /\ Inbox!Next
  /\ \E u \in BOOLEAN :
       urgent' = [m \in Item |-> IF status[m] = "absent" /\ status'[m] # "absent" THEN u ELSE urgent[m]]
  /\ UNCHANGED <<escalation, runnerVars, loop, command>>

Step(l) ==
  \/ Preflight(l) \/ Find(l) \/ Record(l) \/ Upsert(l) \/ Recheck(l)
  \/ Deliver(l)
  \/ \E m \in Item : Raise(l, m)
  \/ Wake(l) \/ Finish(l) \/ Rest(l) \/ SeeStop(l)

Operate(o) ==
  \/ \E n \in Runner, t \in Target : StartFails(o, n, t) \/ \E l \in Loop : Start(o, l, n, t)
  \/ \E n \in Runner : Pause(o, n) \/ Stop(o, n)
  \/ WriteStart(o) \/ WritePause(o) \/ WriteStop(o)

Next ==
  \/ \E l \in Loop : Step(l) \/ Interrupt(l) \/ Kill(l)
  \/ \E l \in Loop, n \in Runner, t \in Target : Run(l, n, t)
  \/ \E n \in Runner : StopRow(n) \/ Resume(n) \/ \E t \in Target : Update(n, t)
  \/ \E o \in Operator : Operate(o)
  \/ Others

(* A process goes on with its rounds; operators and agents do as they       *)
(* please.                                                                  *)
Spec == Init /\ [][Next]_vars /\ \A l \in Loop : WF_vars(Step(l))

-----------------------------------------------------------------------------
(* Properties. *)

(* "Watchdog delivery must suppress duplicate escalation while a prior      *)
(* active watchdog message with the same correlation key is queued,         *)
(* notified, claimed, or acknowledged" (docs/invariants.md): the passes of  *)
(* one pane never leave two active escalations with one key.  Two processes *)
(* of one runner, which start after a pause makes, can leave one each:      *)
(* deliver_watchdog_pressure looks before it sends.                         *)
OneEscalation ==
  \A n \in Runner, r \in Role : \A m, k \in ActiveEscalations(n, r) :
    escalation[m].pane = escalation[k].pane => m = k

(* Pressure is not lost (cmd_watchdog_run): while a process of a running    *)
(* runner that reports to role r makes its rounds, urgent work that waits   *)
(* or a stale claim leads to an active escalation to r, unless somebody     *)
(* deals with it, the operator changes the runner or no message is left.    *)
Pressing == UrgentPending # {} \/ StaleClaimed # {}

Watching(n, r) == runner[n] = "running" /\ target[n] = r /\ Serving(n) # {}

PressureIsRaised ==
  \A n \in Runner, r \in Role :
    (Pressing /\ Watching(n, r)) ~>
      \/ ActiveEscalations(n, r) # {}
      \/ ~Pressing \/ ~Watching(n, r)
      \/ \A m \in Item : status[m] # "absent"

(* "The store returns the paused row without mutating it back to running"   *)
(* (cmd_watchdog_run): no step of a process, only a command, makes a paused *)
(* runner run again.                                                        *)
PauseHolds ==
  [][\A n \in Runner : runner[n] = "paused" /\ runner'[n] = "running" => UNCHANGED loop]_vars

=============================================================================
