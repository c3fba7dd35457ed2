------------------------------ MODULE RoleSessions ------------------------------
(***************************************************************************)
(* What the commands on provider sessions promise, with neither panes,     *)
(* files, locks nor steps: a session belongs to the role it was opened     *)
(* for, a role runs one session at a time and another one only after that  *)
(* has ended, and what runs for a role, or is written down for it, is a    *)
(* session of its own.  Sessions that nothing names any more are gone.     *)
(*                                                                         *)
(* AcpLifecycle implements this specification (SessionsImplementation).    *)
(***************************************************************************)
EXTENDS Naturals

CONSTANT Role

VARIABLES
  used,   \* how many sessions the providers have opened
  own,    \* own[r]: the sessions of role r that somebody could name
  live,   \* live[r]: the sessions that terminal UIs of r run
  bound   \* bound[r]: the session that team.toml names for r

sessionVars == <<used, own, live, bound>>

NoSession == 0

TypeOK ==
  /\ used \in Nat
  /\ own \in [Role -> SUBSET (1..used)]
  /\ live \in [Role -> SUBSET (1..used)]
  /\ bound \in [Role -> (1..used) \cup {NoSession}]

Apart == \A r, q \in Role : r # q => own[r] \cap own[q] = {}

Named == \A r \in Role : live[r] \subseteq own[r] /\ bound[r] \in own[r] \cup {NoSession}

Init == TypeOK /\ Apart /\ Named

-----------------------------------------------------------------------------

(* Of the sessions of r in known[r], any may be forgotten but those that    *)
(* run or are bound.                                                        *)
Keep(known) ==
  /\ own' \in [Role -> SUBSET (1..used')]
  /\ \A r \in Role : own'[r] \subseteq known[r]
  /\ Named'

(* A terminal UI comes up for r, with a new session or with an old one.     *)
Open(r) ==
  /\ live[r] = {}
  /\ used' = used + 1
  /\ live' = [live EXCEPT ![r] = {used + 1}]
  /\ UNCHANGED bound
  /\ Keep([own EXCEPT ![r] = @ \cup {used + 1}])

Load(r, s) ==
  /\ live[r] = {} /\ s \in own[r]
  /\ live' = [live EXCEPT ![r] = {s}]
  /\ UNCHANGED <<used, bound>>
  /\ Keep(own)

(* The panes of the roles in R are closed, all at once.                     *)
Close(R) ==
  /\ live' = [r \in Role |-> IF r \in R THEN {} ELSE live[r]]
  /\ UNCHANGED <<used, bound>>
  /\ Keep(own)

(* team.toml is written.                                                    *)
Bind ==
  /\ bound' \in [Role -> (1..used) \cup {NoSession}]
  /\ \A r \in Role : bound'[r] \in own[r] \cup {NoSession}
  /\ UNCHANGED <<used, live>>
  /\ Keep(own)

Next ==
  \/ \E r \in Role : Open(r) \/ \E s \in own[r] : Load(r, s)
  \/ \E R \in SUBSET Role : Close(R)
  \/ Bind

Spec == Init /\ [][Next]_sessionVars

=============================================================================
