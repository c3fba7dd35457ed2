----------------------------- MODULE MCAcpLifecycle -----------------------------
(* Model checking of AcpLifecycle. *)
EXTENDS AcpLifecycle, TLC

Symmetry == Permutations(Role)

=============================================================================
