----------------------------- MODULE MCRuntimeSwitch -----------------------------
(* Model checking of RuntimeSwitch.  No symmetry: Idle chooses an option. *)
EXTENDS RuntimeSwitch

=============================================================================
