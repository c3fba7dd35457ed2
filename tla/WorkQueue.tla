------------------------------ MODULE WorkQueue ------------------------------
(***************************************************************************)
(* What an inbox promises about a durable message, with neither clocks,    *)
(* priorities nor processes: an item that was posted is leased to one      *)
(* worker at a time, a lease that lapses puts it up for leasing again, an  *)
(* item a worker accepted is never offered to anyone again, and only work  *)
(* that somebody leased is ever finished.  A parked item (its role was not *)
(* accepting work when it was sent) stays on record and is never offered.  *)
(*                                                                         *)
(* MessageStore implements this specification (see QueueImplementation).   *)
(***************************************************************************)

CONSTANT Item

VARIABLE status

Status == {"absent", "parked", "waiting", "leased", "lapsed", "accepted", "finished"}

TypeOK == status \in [Item -> Status]

Init == status = [i \in Item |-> "absent"]

-----------------------------------------------------------------------------

(* All items of S, each of them in one of the states from, go to state to. *)
Move(S, from, to) ==
  /\ \A i \in S : status[i] \in from
  /\ status' = [i \in Item |-> IF i \in S THEN to ELSE status[i]]

(* An item is recorded: offered, parked, or (an announcement) for the record. *)
Post(i) == \E to \in {"waiting", "parked", "finished"} : Move({i}, {"absent"}, to)

Lease(i) == Move({i}, {"waiting", "lapsed"}, "leased")

(* Time passes: any number of leases run out together. *)
Lapse(S) == Move(S, {"leased"}, "lapsed")

(* The holder, even a late one, takes the item for good. *)
Accept(i) == Move({i}, {"leased", "lapsed"}, "accepted")

Finish(S) == Move(S, {"leased", "lapsed", "accepted"}, "finished")

Next ==
  \/ \E i \in Item : Post(i) \/ Lease(i) \/ Accept(i)
  \/ \E S \in SUBSET Item : Lapse(S) \/ Finish(S)

Spec == Init /\ [][Next]_status

=============================================================================
