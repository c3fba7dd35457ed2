---------------------------- MODULE MCWakeDelivery ----------------------------
(* Model checking of WakeDelivery.  No symmetry: liveness is checked. *)
EXTENDS WakeDelivery

=============================================================================
