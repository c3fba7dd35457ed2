---------------------------- MODULE MCInboxCommands ----------------------------
(* Model checking of InboxCommands: identities may be swapped. *)
EXTENDS InboxCommands, TLC

Symmetry ==
  Permutations(Message) \cup Permutations(Role) \cup Permutations(Proc) \cup Permutations(Todo)

=============================================================================
