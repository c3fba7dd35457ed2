----------------------------- MODULE MessageStore -----------------------------
(***************************************************************************)
(* The messages table of team.sqlite (src/src/tmux_team/store.py): durable *)
(* inbox messages, their states, claim leases and the queries that decide  *)
(* what is pending.                                                        *)
(*                                                                         *)
(* Every tmux-team command is a process of its own and the database is all *)
(* they share, so an action is one transaction: what one call of the Store *)
(* does up to its conn.commit().  SQLite serialises writers, and each      *)
(* UPDATE repeats in its WHERE clause what an earlier SELECT checked, which *)
(* makes the checked UPDATE the whole of the transition.                   *)
(*                                                                         *)
(* A row is spread over three functions: state, lease (claim_expires_at)   *)
(* and row, the columns written once by the INSERT.  The sender and        *)
(* related_to columns are read by the service alone: see InboxCommands.    *)
(*                                                                         *)
(* An operator named Slip_... is a plausible mistake in the operator after *)
(* it; it takes no part in the specification and exists for mutation runs. *)
(***************************************************************************)
EXTENDS Naturals, FiniteSets

CONSTANTS
  Role,          \* managed roles, the recipients of messages
  Message,       \* identifiers of the messages that may ever be created
  Priority,      \* ranks in use; PRIORITY_ORDER: 0 urgent ... 3 low
  ClaimSeconds,  \* length of a claim lease (inbox next --claim-seconds)
  ReplyLimit,    \* LIMIT of inbox complete-replies
  ListLimit,     \* LIMIT of inbox list and inbox reclaimable (--limit)
  MaxTime        \* bound of the model: the clock stops here

ASSUME PriorityAssumption == Priority \subseteq 0..3
ASSUME LeaseAssumption == ClaimSeconds \in Nat \ {0}
ASSUME LimitAssumption == ReplyLimit \in Nat \ {0} /\ ListLimit \in Nat \ {0}
ASSUME TimeAssumption == MaxTime \in Nat
ASSUME MessageAssumption == IsFiniteSet(Message)

VARIABLES
  state,   \* state[m]: the state column, "none" before the INSERT
  lease,   \* lease[m]: claim_expires_at, NoLease where it is NULL
  row,     \* row[m]: the columns that never change
  now      \* the clock, utc_now(): whole seconds

storeVars == <<state, lease, row, now>>

-----------------------------------------------------------------------------

Kind == {"task", "completion_notice", "notice"}

(* MESSAGE_STORED_STATES.  No code writes "retrying"; the five              *)
(* blocked_by_role_<state> values differ only in their name.                *)
Claimable == {"queued", "notified"}
Held      == {"claimed", "acknowledged"}
State     == {"none", "completed", "blocked"} \cup Claimable \cup Held

Row == [kind : Kind, priority : Priority, recipient : Role, createdAt : 0..MaxTime]

NoLease == 0

(* What a row shows before its INSERT; never read, since state is "none". *)
NoRow == [kind |-> "none"]

StoreTypeOK ==
  /\ state \in [Message -> State]
  /\ lease \in [Message -> Nat]
  /\ row \in [Message -> Row \cup {NoRow}]
  /\ \A m \in Message : row[m] \in Row <=> state[m] # "none"
  /\ now \in 0..MaxTime

StoreInit ==
  /\ state = [m \in Message |-> "none"]
  /\ lease = [m \in Message |-> NoLease]
  /\ row = [m \in Message |-> NoRow]
  /\ now = 0

-----------------------------------------------------------------------------
(* Queries. *)

Inbox(r) == {m \in Message : state[m] # "none" /\ row[m].recipient = r}

(* A claim whose lease ran out: shown as stale_claimed. *)
Expired(m) ==
  /\ state[m] = "claimed"
  /\ lease[m] # NoLease
  /\ lease[m] <= now

(* The rows claim_next selects from. *)
ClaimCandidates(r) == {m \in Inbox(r) : state[m] \in Claimable \/ Expired(m)}

(* ORDER BY priority, created_at: equal rows come in any order. *)
Precedes(m, n) ==
  \/ row[m].priority < row[n].priority
  \/ /\ row[m].priority = row[n].priority
     /\ row[m].createdAt < row[n].createdAt

Slip_CountUnread(r) == Cardinality({m \in Inbox(r) : state[m] \in Claimable})

(* The count that decides whether a wake is sent at all. *)
PendingCount(r) == Cardinality({m \in Inbox(r) : state[m] \in Claimable \/ Expired(m)})

(* inbox list --state with the selectors S, as one WHERE clause. *)
MatchesFilter(m, S) ==
  \/ state[m] \in S \ {"pending", "stale_claimed"}
  \/ "pending" \in S /\ (state[m] \in Claimable \/ Expired(m))
  \/ "pending" \notin S /\ "stale_claimed" \in S /\ Expired(m)

(* ORDER BY ... LIMIT ListLimit: what may be returned of the rows R that    *)
(* match, where rows of which neither comes before the other may swap.      *)
FirstRows(R, Before(_, _)) ==
  {L \in SUBSET R :
     /\ Cardinality(L) <= ListLimit
     /\ L # R => Cardinality(L) = ListLimit
     /\ \A m \in L, n \in R \ L : ~Before(n, m)}

Slip_Oldest(m, n) == row[m].createdAt < row[n].createdAt

Slip_ListMessages(r, S) == FirstRows({m \in Inbox(r) : MatchesFilter(m, S)}, Slip_Oldest)

(* The listings that inbox list may print, each as the set of its rows.     *)
ListMessages(r, S) == FirstRows({m \in Inbox(r) : MatchesFilter(m, S)}, Precedes)

DisplayState(m) == IF Expired(m) THEN "stale_claimed" ELSE state[m]

ActiveCount(r, s) == Cardinality({m \in Inbox(r) : DisplayState(m) = s})

(* pending=N of tmux-team status. *)
StatusPending(r) ==
  ActiveCount(r, "queued") + ActiveCount(r, "notified") + ActiveCount(r, "stale_claimed")

(* ORDER BY priority, claim_expires_at, created_at. *)
LapsedBefore(m, n) ==
  \/ row[m].priority < row[n].priority
  \/ /\ row[m].priority = row[n].priority
     /\ lease[m] < lease[n] \/ (lease[m] = lease[n] /\ row[m].createdAt < row[n].createdAt)

(* The listings that inbox reclaimable may print. *)
Reclaimable(r) == FirstRows({m \in Inbox(r) : Expired(m)}, LapsedBefore)

-----------------------------------------------------------------------------
(* Transactions. *)

(* States a message of this kind is born in. *)
BirthStates(kind) == IF kind = "notice" THEN {"completed", "blocked"} ELSE {"queued", "blocked"}

CreateMessage(m, kind, priority, recipient, born) ==
  /\ state[m] = "none"
  /\ born \in BirthStates(kind)
  /\ state' = [state EXCEPT ![m] = born]
  /\ row' = [row EXCEPT ![m] = [kind |-> kind, priority |-> priority,
                                recipient |-> recipient, createdAt |-> now]]
  /\ UNCHANGED <<lease, now>>

Slip_ClaimOldestFirst(r, m) ==
  /\ m \in ClaimCandidates(r)
  /\ \A n \in ClaimCandidates(r) : row[m].createdAt <= row[n].createdAt
  /\ state' = [state EXCEPT ![m] = "claimed"]
  /\ lease' = [lease EXCEPT ![m] = now + ClaimSeconds]
  /\ UNCHANGED <<row, now>>

Slip_ClaimKeepsLease(r, m) ==
  /\ m \in ClaimCandidates(r)
  /\ \A n \in ClaimCandidates(r) : ~Precedes(n, m)
  /\ state' = [state EXCEPT ![m] = "claimed"]
  /\ UNCHANGED <<lease, row, now>>

(* claim_next hands the most urgent, then oldest, pending message to role r. *)
ClaimNext(r, m) ==
  /\ m \in ClaimCandidates(r)
  /\ \A n \in ClaimCandidates(r) : ~Precedes(n, m)
  /\ state' = [state EXCEPT ![m] = "claimed"]
  /\ lease' = [lease EXCEPT ![m] = now + ClaimSeconds]
  /\ UNCHANGED <<row, now>>

AckMessage(r, m) ==
  /\ m \in Inbox(r)
  /\ state[m] \in Held
  /\ state' = [state EXCEPT ![m] = "acknowledged"]
  /\ UNCHANGED <<lease, row, now>>

Slip_CompleteAny(r, m) ==
  /\ m \in Inbox(r)
  /\ state' = [state EXCEPT ![m] = "completed"]
  /\ UNCHANGED <<lease, row, now>>

CompleteMessage(r, m) ==
  /\ m \in Inbox(r)
  /\ state[m] \in Held
  /\ state' = [state EXCEPT ![m] = "completed"]
  /\ UNCHANGED <<lease, row, now>>

(* Replies that complete-replies may close: read ones only. *)
ReadReplies(r) == {m \in Inbox(r) : row[m].kind = "completion_notice" /\ state[m] \in Held}

(* complete-replies closes the rows S that its SELECT returned (the least   *)
(* recently updated first, up to the limit) and that are still read.        *)
CompleteReplies(r, S) ==
  /\ S \subseteq ReadReplies(r)
  /\ S # {}
  /\ Cardinality(S) <= ReplyLimit
  /\ state' = [m \in Message |-> IF m \in S THEN "completed" ELSE state[m]]
  /\ UNCHANGED <<lease, row, now>>

Slip_MarkRetrying(r) ==
  /\ state' = [m \in Message |-> IF m \in Inbox(r) /\ state[m] = "queued"
                                 THEN "retrying" ELSE state[m]]
  /\ UNCHANGED <<lease, row, now>>

Slip_NotifyPending(r) ==
  /\ state' = [m \in Message |-> IF m \in Inbox(r) /\ state[m] \in Claimable \cup {"claimed"}
                                 THEN "notified" ELSE state[m]]
  /\ UNCHANGED <<lease, row, now>>

(* After a wake was accepted: every queued row of r, and not only the rows  *)
(* that were there when the wake was composed, becomes notified.            *)
MarkNotified(r) ==
  /\ state' = [m \in Message |-> IF m \in Inbox(r) /\ state[m] = "queued"
                                 THEN "notified" ELSE state[m]]
  /\ UNCHANGED <<lease, row, now>>

Tick ==
  /\ now < MaxTime
  /\ now' = now + 1
  /\ UNCHANGED <<state, lease, row>>

StoreNext ==
  \/ \E m \in Message, kind \in Kind, p \in Priority, r \in Role, born \in State :
        CreateMessage(m, kind, p, r, born)
  \/ \E r \in Role, m \in Message :
        ClaimNext(r, m) \/ AckMessage(r, m) \/ CompleteMessage(r, m)
  \/ \E r \in Role, S \in SUBSET Message : CompleteReplies(r, S)
  \/ \E r \in Role : MarkNotified(r)
  \/ Tick

StoreSpec == StoreInit /\ [][StoreNext]_storeVars

-----------------------------------------------------------------------------
(* Properties. *)

(* A claim always ends: the lease of a claimed message is set and runs out  *)
(* at most ClaimSeconds from now, so no crash of its holder can keep it     *)
(* from being offered again (claim_next, store.py; "Expired claimed         *)
(* messages are recoverable work, not silent ownership").                   *)
ClaimsExpire ==
  \A m \in Message :
    state[m] = "claimed" => lease[m] # NoLease /\ lease[m] <= now + ClaimSeconds

(* Work is closed only by somebody it was handed to: a message that is      *)
(* acknowledged or completed was claimed at some time, unless it is a       *)
(* notice, which is never claimed at all (complete_message,                 *)
(* complete_completion_notices, send_notice).                               *)
ClosedWasClaimed ==
  \A m \in Message :
    /\ state[m] \in {"acknowledged", "completed"} /\ row[m].kind # "notice" => lease[m] # NoLease
    /\ state[m] # "none" /\ row[m].kind = "notice" => lease[m] = NoLease

(* The pieces of SQL that say what is pending agree, up to the LIMIT of two *)
(* of them: the count behind wakes is pending=N of status; inbox list       *)
(* --state pending shows claimable messages only, and all of them unless it *)
(* is full; inbox reclaimable and inbox list --state stale_claimed, which   *)
(* sort differently, show as many rows and differ only when both are full.  *)
PendingViewsAgree ==
  \A r \in Role :
    /\ StatusPending(r) = PendingCount(r)
    /\ \A L \in ListMessages(r, {"pending"}) :
         /\ L \subseteq ClaimCandidates(r)
         /\ Cardinality(L) = IF PendingCount(r) <= ListLimit THEN PendingCount(r) ELSE ListLimit
    /\ \A L \in Reclaimable(r), K \in ListMessages(r, {"stale_claimed"}) :
         /\ Cardinality(L) = Cardinality(K)
         /\ Cardinality(L) < ListLimit => L = K

(* "inbox list --state pending must match the status pending=N count"       *)
(* (docs/invariants.md:254).  The list stops at its LIMIT; the count in     *)
(* status has none.                                                         *)
PendingListComplete ==
  \A r \in Role : \A L \in ListMessages(r, {"pending"}) : Cardinality(L) = StatusPending(r)

(* inbox next hands out urgent work first and, within a priority, the       *)
(* oldest: no step puts a lease on a message while a message of the same    *)
(* role that precedes it was waiting (claim_next's ORDER BY).               *)
ClaimStep(m) ==
  lease'[m] # lease[m] =>
    \A n \in Message :
      /\ state[n] \in Claimable
      /\ row[n].recipient = row[m].recipient
      => ~Precedes(n, m)

ClaimsInOrder == [][\A m \in Message : ClaimStep(m)]_storeVars

(* Whoever looked at inbox list --state pending has seen what inbox next    *)
(* then claims, however short the LIMIT: a claimed message was in the       *)
(* listing, unless rows of the same priority and time filled it.            *)
ListedStep(m) ==
  lease'[m] # lease[m] =>
    \A L \in ListMessages(row[m].recipient, {"pending"}) :
      m \notin L =>
        /\ Cardinality(L) = ListLimit
        /\ \A n \in L : ~Precedes(n, m) /\ ~Precedes(m, n)

ClaimsAreListed == [][\A m \in Message : ListedStep(m)]_storeVars

(* The status WorkQueue sees. *)
QueueStatus ==
  [m \in Message |->
     CASE state[m] = "none"         -> "absent"
       [] state[m] = "blocked"      -> "parked"
       [] state[m] \in Claimable    -> "waiting"
       [] state[m] = "claimed"      -> IF Expired(m) THEN "lapsed" ELSE "leased"
       [] state[m] = "acknowledged" -> "accepted"
       [] OTHER (* completed *)     -> "finished"]

Queue == INSTANCE WorkQueue WITH Item <- Message, status <- QueueStatus

(* The store keeps the promises of WorkQueue: one lease at a time, accepted *)
(* work is never offered again, only leased work is finished, and a blocked *)
(* message is on record and never offered.                                  *)
QueueImplementation == Queue!Spec

=============================================================================
