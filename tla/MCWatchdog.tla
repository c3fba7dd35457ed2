------------------------------- MODULE MCWatchdog -------------------------------
(* Model checking of Watchdog.  No symmetry: liveness is checked. *)
EXTENDS Watchdog

=============================================================================
