----------------------------- MODULE MCObligations -----------------------------
(* Model checking of Obligations. *)
EXTENDS Obligations, TLC

Symmetry == Permutations(Obligation) \cup Permutations(Process)

=============================================================================
