---------------------------- MODULE MCMessageStore ----------------------------
(* Model checking of MessageStore: three messages that may be swapped. *)
EXTENDS MessageStore, TLC

Symmetry == Permutations(Message) \cup Permutations(Role)

=============================================================================
