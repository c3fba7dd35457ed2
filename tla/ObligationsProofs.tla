--------------------------- MODULE ObligationsProofs ---------------------------
(***************************************************************************)
(* Proofs about Obligations: its type invariant, RowConsistent and         *)
(* MissedIsReported, for any number of obligations and processes.          *)
(*                                                                         *)
(* RowConsistent is inductive together with the types, because nothing in  *)
(* it speaks of what a command has read: each UPDATE is right for every    *)
(* row its WHERE clause lets through.  That of update relies on what       *)
(* RowConsistent says of the row it finds; those of pause, resume and      *)
(* complete set every column that matters.  MissedIsReported follows.      *)
(***************************************************************************)
EXTENDS Obligations, TLAPS

(* RowConsistent of one row.                                                *)
Consistent(row) ==
  /\ row.status \notin Open => row.next = "none"
  /\ row.review # "none" => row.status = "paused"
  /\ row.reason <=> row.status = "paused"
  /\ row.status \in Terminal => row.completed

ObligationInv == ObligationTypeOK /\ RowConsistent

-----------------------------------------------------------------------------

(* Writing a consistent row, or none, keeps the invariant.                  *)
LEMMA StoreRow ==
  ASSUME ObligationInv, NEW o \in Obligation, NEW row \in Row, Consistent(row),
         obligation' = [obligation EXCEPT ![o] = row],
         work' \in [Process -> Job \cup {NoJob}]
  PROVE  ObligationInv'
<1>1. obligation \in [Obligation -> Row \cup {NoRow}]
  BY DEF ObligationInv, ObligationTypeOK
<1>2. obligation' \in [Obligation -> Row \cup {NoRow}]
  BY <1>1
<1>3. \A q \in Obligation : obligation'[q] = IF q = o THEN row ELSE obligation[q]
  BY <1>1
<1>4. RowConsistent'
  BY <1>3 DEF ObligationInv, RowConsistent, Consistent, Exists
<1> QED
  BY <1>2, <1>4 DEF ObligationInv, ObligationTypeOK

(* So does every UPDATE whose rows are consistent when it finds one its     *)
(* WHERE clause lets through.                                               *)
LEMMA WriteKeeps ==
  ASSUME ObligationInv, NEW p \in Process, NEW verb \in Verb,
         NEW where \in SUBSET (Visible \cup Terminal), NEW rows,
         Write(p, verb, where, rows),
         ASSUME work[p] \in Job, obligation[work[p].id] \in Row, obligation[work[p].id].status \in where
         PROVE  \A row \in rows : row \in Row /\ Consistent(row)
  PROVE  ObligationInv'
<1> DEFINE o == work[p].id
<1>1. /\ obligation \in [Obligation -> Row \cup {NoRow}]
      /\ work \in [Process -> Job \cup {NoJob}]
  BY DEF ObligationInv, ObligationTypeOK
<1>2. work[p] \in Job /\ o \in Obligation
  BY <1>1 DEF Write, Job
<1>3. work' \in [Process -> Job \cup {NoJob}]
  BY <1>1 DEF Write
<1>4. CASE obligation[o].status \in where
  <2>1. obligation[o] # NoRow
    BY <1>4 DEF NoRow, Visible, Open, Terminal
  <2>2. obligation[o] \in Row
    BY <1>1, <1>2, <2>1
  <2>3. PICK row \in rows : obligation' = [obligation EXCEPT ![o] = row]
    BY <1>4 DEF Write
  <2>4. row \in Row /\ Consistent(row)
    BY <1>2, <1>4, <2>2
  <2> QED
    BY <1>2, <1>3, <2>3, <2>4, StoreRow
<1>5. CASE obligation[o].status \notin where
  <2>1. obligation' = obligation
    BY <1>5 DEF Write
  <2> QED
    BY <1>1, <1>3, <2>1 DEF ObligationInv, ObligationTypeOK, RowConsistent, Exists
<1> QED
  BY <1>4, <1>5

(* A step that changes no row keeps the invariant.                          *)
LEMMA RowsUnchanged ==
  ASSUME ObligationInv, UNCHANGED obligation, work' \in [Process -> Job \cup {NoJob}]
  PROVE  ObligationInv'
BY DEF ObligationInv, ObligationTypeOK, RowConsistent, Exists

LEMMA StartKeeps ==
  ASSUME ObligationInv, NEW o \in Obligation, Start(o)
  PROVE  ObligationInv'
<1>1. PICK next \in {"none", "ahead"} : obligation' = [obligation EXCEPT ![o] =
        [status |-> "active", next |-> next, review |-> "none", completed |-> FALSE, reason |-> FALSE]]
  BY DEF Start
<1> DEFINE row == [status |-> "active", next |-> next, review |-> "none", completed |-> FALSE, reason |-> FALSE]
<1>2. row \in Row /\ Consistent(row)
  BY DEF Row, Consistent, Visible, Open, Terminal, Deadline
<1>3. work' \in [Process -> Job \cup {NoJob}]
  BY DEF Start, ObligationInv, ObligationTypeOK
<1> QED
  BY <1>1, <1>2, <1>3, StoreRow

LEMMA ReadKeeps ==
  ASSUME ObligationInv, NEW p \in Process, Read(p)
  PROVE  ObligationInv'
<1>1. PICK o \in Obligation, verb \in Verb : work' = [work EXCEPT ![p] = [verb |-> verb, id |-> o]]
  BY DEF Read
<1>2. work' \in [Process -> Job \cup {NoJob}]
  BY <1>1 DEF ObligationInv, ObligationTypeOK, Job
<1> QED
  BY <1>2, RowsUnchanged DEF Read

LEMMA AbortKeeps ==
  ASSUME ObligationInv, NEW p \in Process, Abort(p)
  PROVE  ObligationInv'
<1>1. work' \in [Process -> Job \cup {NoJob}]
  BY DEF Abort, ObligationInv, ObligationTypeOK
<1> QED
  BY <1>1, RowsUnchanged DEF Abort

(* What a command in flight is about.                                       *)
LEMMA TargetOfJob ==
  ASSUME NEW p \in Process, work[p] \in Job
  PROVE  Target(p) = obligation[work[p].id] /\ work[p].id \in Obligation
<1>1. work[p] # NoJob
  BY DEF Job, NoJob, Verb
<1> QED
  BY <1>1 DEF Target, Job

LEMMA UpdateKeeps ==
  ASSUME ObligationInv, NEW p \in Process, Update(p)
  PROVE  ObligationInv'
<1> DEFINE rows == Updated(Target(p))
<1>1. Write(p, "update", Open, rows)
  BY DEF Update
<1>2. ASSUME work[p] \in Job, obligation[work[p].id] \in Row, obligation[work[p].id].status \in Open
      PROVE  \A row \in rows : row \in Row /\ Consistent(row)
  <2> DEFINE old == obligation[work[p].id]
  <2>1. Target(p) = old /\ work[p].id \in Obligation
    BY <1>2, TargetOfJob
  <2>2. Exists(work[p].id)
    BY <1>2 DEF Exists, NoRow, Open
  <2>3. Consistent(old)
    BY <2>1, <2>2 DEF ObligationInv, RowConsistent, Consistent
  <2>4. old \in Row /\ old.review = "none" /\ old.reason = FALSE
    BY <1>2, <2>3 DEF Consistent, Row, Open
  <2>5. \A row \in Updated(old) : row \in Row /\ Consistent(row)
    BY <2>4 DEF Updated, Row, Consistent, Visible, Open, Terminal, Deadline
  <2> QED
    BY <2>1, <2>5
<1> HIDE DEF rows
<1> QED
  BY <1>1, <1>2, WriteKeeps DEF Verb, Visible

LEMMA PauseKeeps ==
  ASSUME ObligationInv, NEW p \in Process, Pause(p)
  PROVE  ObligationInv'
<1> DEFINE rows == {[Target(p) EXCEPT !.status = "paused", !.next = "none", !.review = review, !.reason = TRUE] :
                      review \in {"none", "ahead", "past"}}
<1>1. Write(p, "pause", Visible \cup Terminal, rows)
  BY DEF Pause
<1>2. ASSUME work[p] \in Job, obligation[work[p].id] \in Row,
             obligation[work[p].id].status \in Visible \cup Terminal, NEW row \in rows
      PROVE  row \in Row /\ Consistent(row)
  <2>1. Target(p) \in Row
    BY <1>2, TargetOfJob
  <2> QED
    BY <2>1 DEF Row, Consistent, Visible, Open, Terminal, Deadline
<1> QED
  BY <1>1, <1>2, WriteKeeps DEF Verb

LEMMA ResumeKeeps ==
  ASSUME ObligationInv, NEW p \in Process, Resume(p)
  PROVE  ObligationInv'
<1> DEFINE rows == {[Target(p) EXCEPT !.status = "active", !.next = next, !.review = "none",
                                      !.completed = FALSE, !.reason = FALSE] :
                      next \in {"none", "ahead"}}
<1>1. Write(p, "resume", {"paused"}, rows)
  BY DEF Resume
<1>2. ASSUME work[p] \in Job, obligation[work[p].id] \in Row,
             obligation[work[p].id].status \in {"paused"}, NEW row \in rows
      PROVE  row \in Row /\ Consistent(row)
  <2>1. Target(p) \in Row
    BY <1>2, TargetOfJob
  <2> QED
    BY <2>1 DEF Row, Consistent, Visible, Open, Terminal, Deadline
<1> QED
  BY <1>1, <1>2, WriteKeeps DEF Verb, Visible

LEMMA CompleteKeeps ==
  ASSUME ObligationInv, NEW p \in Process, Complete(p)
  PROVE  ObligationInv'
<1> DEFINE rows == {[Target(p) EXCEPT !.status = status, !.next = "none", !.review = "none",
                                      !.completed = TRUE, !.reason = FALSE] :
                      status \in Terminal}
<1>1. Write(p, "complete", Visible, rows)
  BY DEF Complete
<1>2. ASSUME work[p] \in Job, obligation[work[p].id] \in Row,
             obligation[work[p].id].status \in Visible, NEW row \in rows
      PROVE  row \in Row /\ Consistent(row)
  <2>1. Target(p) \in Row
    BY <1>2, TargetOfJob
  <2> QED
    BY <2>1 DEF Row, Consistent, Visible, Open, Terminal, Deadline
<1> QED
  BY <1>1, <1>2, WriteKeeps DEF Verb

LEMMA PassTimeKeeps ==
  ASSUME ObligationInv, NEW o \in Obligation, PassTime(o)
  PROVE  ObligationInv'
<1> DEFINE old == obligation[o]
<1>1. old \in Row
  BY DEF ObligationInv, ObligationTypeOK, PassTime, Exists
<1>2. Consistent(old)
  BY DEF ObligationInv, RowConsistent, PassTime, Consistent
<1>3. work' \in [Process -> Job \cup {NoJob}]
  BY DEF PassTime, ObligationInv, ObligationTypeOK
<1>4. CASE old.next = "ahead" /\ obligation' = [obligation EXCEPT ![o].next = "past"]
  <2> DEFINE row == [old EXCEPT !.next = "past"]
  <2>1. row \in Row /\ Consistent(row)
    BY <1>1, <1>2, <1>4 DEF Row, Consistent, Deadline
  <2>2. obligation' = [obligation EXCEPT ![o] = row]
    BY <1>4
  <2> QED
    BY <1>3, <2>1, <2>2, StoreRow
<1>5. CASE old.review = "ahead" /\ obligation' = [obligation EXCEPT ![o].review = "past"]
  <2> DEFINE row == [old EXCEPT !.review = "past"]
  <2>1. row \in Row /\ Consistent(row)
    BY <1>1, <1>2, <1>5 DEF Row, Consistent, Deadline
  <2>2. obligation' = [obligation EXCEPT ![o] = row]
    BY <1>5
  <2> QED
    BY <1>3, <2>1, <2>2, StoreRow
<1> QED
  BY <1>4, <1>5 DEF PassTime

-----------------------------------------------------------------------------

(* ObligationInv holds of the empty table and survives every command, kill  *)
(* and deadline.                                                            *)
THEOREM ObligationInvariant == Spec => []ObligationInv
<1>1. Init => ObligationInv
  BY DEF Init, ObligationInv, ObligationTypeOK, RowConsistent, Exists
<1>2. ObligationInv /\ [Next]_vars => ObligationInv'
  <2> SUFFICES ASSUME ObligationInv, [Next]_vars PROVE ObligationInv'
    OBVIOUS
  <2>1. ASSUME NEW o \in Obligation, Start(o) \/ PassTime(o) PROVE ObligationInv'
    BY <2>1, StartKeeps, PassTimeKeeps
  <2>2. ASSUME NEW p \in Process,
               Read(p) \/ Update(p) \/ Pause(p) \/ Resume(p) \/ Complete(p) \/ Abort(p)
        PROVE  ObligationInv'
    BY <2>2, ReadKeeps, UpdateKeeps, PauseKeeps, ResumeKeeps, CompleteKeeps, AbortKeeps
  <2>3. CASE UNCHANGED vars
    BY <2>3 DEF vars, ObligationInv, ObligationTypeOK, RowConsistent, Exists
  <2> QED
    BY <2>1, <2>2, <2>3 DEF Next
<1> QED
  BY <1>1, <1>2, PTL DEF Spec

(* Type correctness of the table obligations and of the commands in flight. *)
THEOREM ObligationsTypeCorrect == Spec => []ObligationTypeOK
<1>1. ObligationInv => ObligationTypeOK
  BY DEF ObligationInv
<1> QED
  BY <1>1, ObligationInvariant, PTL

(* Whatever update, pause, resume and complete had read before, the columns *)
(* of every row agree.                                                      *)
THEOREM RowsAreConsistent == Spec => []RowConsistent
<1>1. ObligationInv => RowConsistent
  BY DEF ObligationInv
<1> QED
  BY <1>1, ObligationInvariant, PTL

(* watchdog_findings sees every deadline that has passed.                   *)
THEOREM MissedDeadlinesAreReported == Spec => []MissedIsReported
<1>1. ObligationInv => MissedIsReported
  <2> SUFFICES ASSUME ObligationInv, NEW o \in Obligation, Exists(o),
                      "past" \in {obligation[o].next, obligation[o].review}
               PROVE  Overdue(o) \/ ReviewDue(o)
    BY DEF MissedIsReported
  <2>1. CASE obligation[o].next = "past"
    BY <2>1 DEF ObligationInv, RowConsistent, Overdue
  <2>2. CASE obligation[o].review = "past"
    BY <2>2 DEF ObligationInv, RowConsistent, ReviewDue
  <2> QED
    BY <2>1, <2>2
<1> QED
  BY <1>1, ObligationInvariant, PTL

=============================================================================
