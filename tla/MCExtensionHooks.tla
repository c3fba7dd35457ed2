---------------------------- MODULE MCExtensionHooks ----------------------------
(* Model checking of ExtensionHooks.  No symmetry: liveness is checked. *)
EXTENDS ExtensionHooks

=============================================================================
