------------------------------- MODULE Obligations -------------------------------
(***************************************************************************)
(* The table obligations (store.py): commitments of roles to report on     *)
(* something again and again, and the commands on them, run by several     *)
(* processes at once.  Every command but start first reads the row         *)
(* (_obligation_for_role, outside a transaction) and then writes it with   *)
(* one UPDATE; what another process writes in between is lost on the       *)
(* check, and only the WHERE clause of the UPDATE still sees it.           *)
(*                                                                         *)
(* A deadline (next_update_at, review_at) is none, ahead or past; time     *)
(* moves every deadline ahead into the past sooner or later.  The summary  *)
(* is left out: no command looks at it.                                    *)
(***************************************************************************)
EXTENDS Naturals

CONSTANTS
  Obligation,  \* ids of the obligations that may be started
  Process      \* tmux-team processes

VARIABLES
  obligation,  \* obligation[o]: the row, or NoRow
  work         \* work[p]: the command process p is in the middle of

vars == <<obligation, work>>

Open == {"active", "blocked"}                 \* OBLIGATION_ACTIVE_STATES
Visible == Open \cup {"paused"}
Terminal == {"done", "failed", "cancelled"}
Deadline == {"none", "ahead", "past"}

(* completed stands for completed_at, reason for the three columns of a     *)
(* pause: paused_reason, paused_at and paused_by.                           *)
Row == [status : Visible \cup Terminal, next : Deadline, review : Deadline,
        completed : BOOLEAN, reason : BOOLEAN]
NoRow == [status |-> "absent"]

Verb == {"update", "pause", "resume", "complete"}
Job == [verb : Verb, id : Obligation]
NoJob == [verb |-> "none"]

ObligationTypeOK ==
  /\ obligation \in [Obligation -> Row \cup {NoRow}]
  /\ work \in [Process -> Job \cup {NoJob}]

Init ==
  /\ obligation = [o \in Obligation |-> NoRow]
  /\ work = [p \in Process |-> NoJob]

Exists(o) == obligation[o] # NoRow

-----------------------------------------------------------------------------
(* Commands. *)

Start(o) ==
  /\ ~Exists(o)
  /\ \E next \in {"none", "ahead"} :
       obligation' = [obligation EXCEPT ![o] =
         [status |-> "active", next |-> next, review |-> "none", completed |-> FALSE, reason |-> FALSE]]
  /\ UNCHANGED work

(* The row is read; pause and resume refuse it at once in a wrong state,    *)
(* update and complete leave that to their UPDATE.                          *)
Read(p) ==
  /\ work[p] = NoJob
  /\ \E o \in Obligation, verb \in Verb :
       /\ Exists(o)
       /\ verb = "pause" => obligation[o].status \in Visible
       /\ verb = "resume" => obligation[o].status = "paused"
       /\ work' = [work EXCEPT ![p] = [verb |-> verb, id |-> o]]
  /\ UNCHANGED obligation

(* The row of the command is written if its WHERE clause still holds, else  *)
(* nothing is and the command reports an error.                             *)
Write(p, verb, where, rows) ==
  /\ work[p] # NoJob /\ work[p].verb = verb
  /\ LET o == work[p].id IN
       IF obligation[o].status \in where
       THEN \E row \in rows : obligation' = [obligation EXCEPT ![o] = row]
       ELSE UNCHANGED obligation
  /\ work' = [work EXCEPT ![p] = NoJob]

Target(p) == IF work[p] = NoJob THEN NoRow ELSE obligation[work[p].id]

(* The rows an update may leave.                                            *)
Updated(row) ==
  {new \in Row : \E status \in Open, next \in {"none", "ahead"} :
                    new = [row EXCEPT !.status = status, !.next = next]}

Slip_Update(p) == Write(p, "update", Visible \cup Terminal, Updated(Target(p)))

Slip_UpdateStatus(p) ==
  Write(p, "update", Open,
        {[Target(p) EXCEPT !.status = status, !.next = next] :
           status \in Open \cup {"stalled"}, next \in {"none", "ahead"}})

Update(p) == Write(p, "update", Open, Updated(Target(p)))

(* The UPDATE of pause_obligation does not look at the status again.        *)
Pause(p) ==
  Write(p, "pause", Visible \cup Terminal,
        {[Target(p) EXCEPT !.status = "paused", !.next = "none", !.review = review, !.reason = TRUE] :
           review \in {"none", "ahead", "past"}})

Resume(p) ==
  Write(p, "resume", {"paused"},
        {[Target(p) EXCEPT !.status = "active", !.next = next, !.review = "none",
                           !.completed = FALSE, !.reason = FALSE] :
           next \in {"none", "ahead"}})

Complete(p) ==
  Write(p, "complete", Visible,
        {[Target(p) EXCEPT !.status = status, !.next = "none", !.review = "none",
                           !.completed = TRUE, !.reason = FALSE] :
           status \in Terminal})

(* A deadline passes.                                                       *)
PassTime(o) ==
  /\ Exists(o)
  /\ \/ obligation[o].next = "ahead" /\ obligation' = [obligation EXCEPT ![o].next = "past"]
     \/ obligation[o].review = "ahead" /\ obligation' = [obligation EXCEPT ![o].review = "past"]
  /\ UNCHANGED work

(* The command is killed before its UPDATE.                                 *)
Abort(p) ==
  /\ work[p] # NoJob
  /\ work' = [work EXCEPT ![p] = NoJob]
  /\ UNCHANGED obligation

Next ==
  \/ \E o \in Obligation : Start(o) \/ PassTime(o)
  \/ \E p \in Process : Read(p) \/ Update(p) \/ Pause(p) \/ Resume(p) \/ Complete(p) \/ Abort(p)

Spec == Init /\ [][Next]_vars

-----------------------------------------------------------------------------
(* What watchdog_findings reports of a row. *)

Overdue(o) == Exists(o) /\ obligation[o].status \in Open /\ obligation[o].next = "past"

ReviewDue(o) == Exists(o) /\ obligation[o].status = "paused" /\ obligation[o].review = "past"

-----------------------------------------------------------------------------
(* Properties. *)

(* The columns of a row tell one story whatever commands race for it: a     *)
(* paused obligation expects no update, only a paused one has a review and  *)
(* a reason, and a finished one has been completed and expects nothing.     *)
RowConsistent ==
  \A o \in Obligation : Exists(o) =>
    /\ obligation[o].status \notin Open => obligation[o].next = "none"
    /\ obligation[o].review # "none" => obligation[o].status = "paused"
    /\ obligation[o].reason <=> obligation[o].status = "paused"
    /\ obligation[o].status \in Terminal => obligation[o].completed

(* No missed deadline is silent: whatever commands race for the row, an     *)
(* obligation with a deadline that has passed is overdue or due for review, *)
(* so that watchdog_findings reports it.                                    *)
MissedIsReported ==
  \A o \in Obligation :
    Exists(o) /\ "past" \in {obligation[o].next, obligation[o].review} => Overdue(o) \/ ReviewDue(o)

(* "Cannot pause obligation ... in state done" (pause_obligation): an       *)
(* obligation that is done, failed or cancelled stays so.  The code does    *)
(* not keep it: TLC finds a pause that revives a completed obligation.      *)
FinishedStaysFinished ==
  [][\A o \in Obligation :
       Exists(o) /\ obligation[o].status \in Terminal => obligation'[o] = obligation[o]]_vars

=============================================================================
