-------------------------- MODULE MessageStoreProofs --------------------------
(***************************************************************************)
(* What MessageStore guarantees for every set of roles, messages and       *)
(* priorities, every lease length and every bound on the clock.            *)
(*                                                                         *)
(* StoreInv is inductive.  ClaimsExpire and ClosedWasClaimed are not by    *)
(* themselves: that a message in somebody's hands carries a lease needs    *)
(* both, and that a notice never does needs NoticesAreRecords and          *)
(* FreshRows.  The listings are proved about for every LIMIT they may have. *)
(***************************************************************************)
EXTENDS MessageStore, FiniteSetTheorems, TLAPS

(* A notice is on record from the start: no transaction can take it up.     *)
NoticesAreRecords ==
  \A m \in Message :
    state[m] # "none" /\ row[m].kind = "notice" => state[m] \in {"completed", "blocked"}

(* A message that does not exist yet has no lease.                          *)
FreshRows == \A m \in Message : state[m] = "none" => lease[m] = NoLease

StoreInv ==
  StoreTypeOK /\ ClaimsExpire /\ ClosedWasClaimed /\ NoticesAreRecords /\ FreshRows

-----------------------------------------------------------------------------

(* The placeholder of a missing row is no row.                              *)
LEMMA NoRowIsNoRow == NoRow \notin Row
<1>1. NoRow.kind \notin Kind  BY DEF NoRow, Kind
<1>2. \A x \in Row : x.kind \in Kind  BY DEF Row
<1> QED  BY <1>1, <1>2

(* The store starts well-typed, with every part of the invariant.           *)
LEMMA InitInv == StoreInit => StoreInv
BY NoRowIsNoRow, TimeAssumption
   DEF StoreInit, StoreInv, StoreTypeOK, ClaimsExpire, ClosedWasClaimed, NoticesAreRecords,
       FreshRows, State, NoLease

(* An INSERT keeps the invariant.                                           *)
LEMMA CreateInv ==
  ASSUME StoreInv, NEW m \in Message, NEW kind \in Kind, NEW p \in Priority, NEW r \in Role,
         NEW born \in State, CreateMessage(m, kind, p, r, born)
  PROVE  StoreInv'
<1> DEFINE new == [kind |-> kind, priority |-> p, recipient |-> r, createdAt |-> now]
<1>1. /\ state[m] = "none" /\ born \in {"queued", "blocked", "completed"}
      /\ kind = "notice" => born \in {"completed", "blocked"}
      /\ kind # "notice" => born \in {"queued", "blocked"}
      /\ state' = [state EXCEPT ![m] = born]
      /\ row' = [row EXCEPT ![m] = new]
      /\ lease' = lease /\ now' = now
  BY DEF CreateMessage, BirthStates
<1>2. new \in Row /\ new.kind = kind  BY DEF StoreInv, StoreTypeOK, Row
<1> HIDE DEF new
<1>3. /\ state \in [Message -> State] /\ row \in [Message -> Row \cup {NoRow}]
      /\ lease \in [Message -> Nat] /\ now \in 0..MaxTime
      /\ \A n \in Message : row[n] \in Row <=> state[n] # "none"
  BY DEF StoreInv, StoreTypeOK
<1>4. state'[m] = born /\ row'[m] = new  BY <1>1, <1>3
<1>5. \A n \in Message \ {m} : state'[n] = state[n] /\ row'[n] = row[n]  BY <1>1, <1>3
<1>6. StoreTypeOK'
  <2>1. state' \in [Message -> State]  BY <1>1, <1>3
  <2>2. row' \in [Message -> Row \cup {NoRow}]  BY <1>1, <1>2, <1>3
  <2>3. \A n \in Message : row'[n] \in Row <=> state'[n] # "none"
    BY <1>1, <1>2, <1>3, <1>4, <1>5
  <2> QED  BY <1>1, <1>3, <2>1, <2>2, <2>3 DEF StoreTypeOK
<1>7. ClaimsExpire'  BY <1>1, <1>4, <1>5 DEF StoreInv, ClaimsExpire
<1>8. ClosedWasClaimed'
  BY <1>1, <1>2, <1>4, <1>5 DEF StoreInv, ClosedWasClaimed, FreshRows
<1>9. NoticesAreRecords'  BY <1>1, <1>2, <1>4, <1>5 DEF StoreInv, NoticesAreRecords
<1>10. FreshRows'  BY <1>1, <1>4, <1>5 DEF StoreInv, FreshRows
<1> QED  BY <1>6, <1>7, <1>8, <1>9, <1>10 DEF StoreInv

(* A claim keeps the invariant: its lease starts now and has an end.        *)
LEMMA ClaimInv ==
  ASSUME StoreInv, NEW r \in Role, NEW m \in Message, ClaimNext(r, m)
  PROVE  StoreInv'
<1>1. /\ state[m] \in {"queued", "notified", "claimed"}
      /\ state' = [state EXCEPT ![m] = "claimed"]
      /\ lease' = [lease EXCEPT ![m] = now + ClaimSeconds]
      /\ row' = row /\ now' = now
  BY DEF ClaimNext, ClaimCandidates, Claimable, Expired
<1>2. /\ state \in [Message -> State] /\ lease \in [Message -> Nat] /\ now \in Nat
      /\ now + ClaimSeconds \in Nat \ {0}
  BY LeaseAssumption, TimeAssumption DEF StoreInv, StoreTypeOK
<1>3. state'[m] = "claimed" /\ lease'[m] = now + ClaimSeconds  BY <1>1, <1>2
<1>4. \A n \in Message \ {m} : state'[n] = state[n] /\ lease'[n] = lease[n]  BY <1>1, <1>2
<1>5. StoreTypeOK'
  BY <1>1, <1>2, <1>3, <1>4 DEF StoreInv, StoreTypeOK, State, Held
<1>6. ClaimsExpire'  BY <1>1, <1>2, <1>3, <1>4 DEF StoreInv, ClaimsExpire, NoLease
<1>7. row[m].kind # "notice"  BY <1>1 DEF StoreInv, NoticesAreRecords
<1>8. ClosedWasClaimed'
  BY <1>1, <1>3, <1>4, <1>7 DEF StoreInv, ClosedWasClaimed
<1>9. NoticesAreRecords'  BY <1>1, <1>3, <1>4, <1>7 DEF StoreInv, NoticesAreRecords
<1>10. FreshRows'  BY <1>3, <1>4 DEF StoreInv, FreshRows
<1> QED  BY <1>5, <1>6, <1>8, <1>9, <1>10 DEF StoreInv

(* Closing or accepting held messages keeps the invariant: ack, complete    *)
(* and complete-replies are all of this form.                               *)
LEMMA CloseInv ==
  ASSUME StoreInv, NEW S \in SUBSET Message, NEW to \in {"acknowledged", "completed"},
         \A m \in S : state[m] \in Held,
         state' = [m \in Message |-> IF m \in S THEN to ELSE state[m]],
         UNCHANGED <<lease, row, now>>
  PROVE  StoreInv'
<1>1. \A m \in S : state[m] \in {"claimed", "acknowledged"} /\ state'[m] = to  BY DEF Held
<1>2. \A m \in Message \ S : state'[m] = state[m]  OBVIOUS
<1>3. StoreTypeOK'  BY <1>1, <1>2 DEF StoreInv, StoreTypeOK, State, Held
<1>4. ClaimsExpire'  BY <1>1, <1>2 DEF StoreInv, ClaimsExpire
<1>5. \A m \in S : row[m].kind # "notice"  BY <1>1 DEF StoreInv, NoticesAreRecords
<1>6. \A m \in S : lease[m] # NoLease
  BY <1>1, <1>5 DEF StoreInv, ClaimsExpire, ClosedWasClaimed
<1>7. ClosedWasClaimed'  BY <1>1, <1>2, <1>5, <1>6 DEF StoreInv, ClosedWasClaimed
<1>8. NoticesAreRecords'  BY <1>2, <1>1, <1>5 DEF StoreInv, NoticesAreRecords
<1>9. FreshRows'  BY <1>1, <1>2 DEF StoreInv, FreshRows
<1> QED  BY <1>3, <1>4, <1>7, <1>8, <1>9 DEF StoreInv

(* What an accepted wake marks is still claimable.                          *)
LEMMA MarkInv == ASSUME StoreInv, NEW r \in Role, MarkNotified(r) PROVE StoreInv'
<1> DEFINE S == {m \in Message : m \in Inbox(r) /\ state[m] = "queued"}
<1>1. /\ \A m \in S : state[m] = "queued" /\ state'[m] = "notified"
      /\ \A m \in Message \ S : state'[m] = state[m]
      /\ state' = [m \in Message |-> IF m \in S THEN "notified" ELSE state[m]]
      /\ lease' = lease /\ row' = row /\ now' = now
  BY DEF MarkNotified
<1> HIDE DEF S
<1>2. StoreTypeOK'  BY <1>1 DEF StoreInv, StoreTypeOK, State, Claimable
<1>3. ClaimsExpire'  BY <1>1 DEF StoreInv, ClaimsExpire
<1>4. ClosedWasClaimed'  BY <1>1 DEF StoreInv, ClosedWasClaimed
<1>5. NoticesAreRecords'  BY <1>1 DEF StoreInv, NoticesAreRecords
<1>6. FreshRows'  BY <1>1 DEF StoreInv, FreshRows
<1> QED  BY <1>2, <1>3, <1>4, <1>5, <1>6 DEF StoreInv

(* The clock only brings the end of a lease nearer.                         *)
LEMMA TickInv == ASSUME StoreInv, Tick PROVE StoreInv'
<1>1. state' = state /\ lease' = lease /\ row' = row /\ now' = now + 1  BY DEF Tick
<1>2. now \in Nat /\ now' \in 0..MaxTime /\ lease \in [Message -> Nat]
  BY TimeAssumption DEF Tick, StoreInv, StoreTypeOK
<1>3. StoreTypeOK'  BY <1>1, <1>2 DEF StoreInv, StoreTypeOK
<1>4. ClaimsExpire'  BY <1>1, <1>2, LeaseAssumption DEF StoreInv, ClaimsExpire
<1> QED
  BY <1>1, <1>3, <1>4 DEF StoreInv, ClosedWasClaimed, NoticesAreRecords, FreshRows

(* Acknowledging and completing are closings of one message.                *)
LEMMA AckIsClose ==
  ASSUME StoreInv, NEW r \in Role, NEW m \in Message, AckMessage(r, m)
  PROVE  /\ state[m] \in Held
         /\ state' = [n \in Message |-> IF n \in {m} THEN "acknowledged" ELSE state[n]]
         /\ UNCHANGED <<lease, row, now>>
BY DEF StoreInv, StoreTypeOK, AckMessage

(* The same of complete_message.                                            *)
LEMMA CompleteIsClose ==
  ASSUME StoreInv, NEW r \in Role, NEW m \in Message, CompleteMessage(r, m)
  PROVE  /\ state[m] \in Held
         /\ state' = [n \in Message |-> IF n \in {m} THEN "completed" ELSE state[n]]
         /\ UNCHANGED <<lease, row, now>>
BY DEF StoreInv, StoreTypeOK, CompleteMessage

(* Every step of the store keeps the inductive invariant.                   *)
LEMMA NextInv == StoreInv /\ [StoreNext]_storeVars => StoreInv'
<1> SUFFICES ASSUME StoreInv, [StoreNext]_storeVars PROVE StoreInv'  OBVIOUS
<1>1. ASSUME NEW m \in Message, NEW kind \in Kind, NEW p \in Priority, NEW r \in Role,
             NEW born \in State, CreateMessage(m, kind, p, r, born)
      PROVE  StoreInv'
  BY <1>1, CreateInv
<1>2. ASSUME NEW r \in Role, NEW m \in Message, ClaimNext(r, m)  PROVE StoreInv'
  BY <1>2, ClaimInv
<1>3. ASSUME NEW r \in Role, NEW m \in Message, AckMessage(r, m)  PROVE StoreInv'
  <2>1. \A n \in {m} : state[n] \in Held  BY <1>3, AckIsClose
  <2>2. /\ state' = [n \in Message |-> IF n \in {m} THEN "acknowledged" ELSE state[n]]
        /\ UNCHANGED <<lease, row, now>>
    BY <1>3, AckIsClose
  <2>3. {m} \in SUBSET Message /\ "acknowledged" \in {"acknowledged", "completed"}  OBVIOUS
  <2> QED  BY <2>1, <2>2, <2>3, CloseInv
<1>4. ASSUME NEW r \in Role, NEW m \in Message, CompleteMessage(r, m)  PROVE StoreInv'
  <2>1. \A n \in {m} : state[n] \in Held  BY <1>4, CompleteIsClose
  <2>2. /\ state' = [n \in Message |-> IF n \in {m} THEN "completed" ELSE state[n]]
        /\ UNCHANGED <<lease, row, now>>
    BY <1>4, CompleteIsClose
  <2>3. {m} \in SUBSET Message /\ "completed" \in {"acknowledged", "completed"}  OBVIOUS
  <2> QED  BY <2>1, <2>2, <2>3, CloseInv
<1>5. ASSUME NEW r \in Role, NEW S \in SUBSET Message, CompleteReplies(r, S)  PROVE StoreInv'
  <2>1. \A m \in S : state[m] \in Held  BY <1>5 DEF CompleteReplies, ReadReplies
  <2>2. /\ state' = [m \in Message |-> IF m \in S THEN "completed" ELSE state[m]]
        /\ UNCHANGED <<lease, row, now>>
    BY <1>5 DEF CompleteReplies
  <2> QED  BY <2>1, <2>2, CloseInv
<1>6. ASSUME NEW r \in Role, MarkNotified(r)  PROVE StoreInv'  BY <1>6, MarkInv
<1>7. CASE Tick  BY <1>7, TickInv
<1>8. CASE UNCHANGED storeVars
  BY <1>8 DEF storeVars, StoreInv, StoreTypeOK, ClaimsExpire, ClosedWasClaimed,
              NoticesAreRecords, FreshRows
<1> QED  BY <1>1, <1>2, <1>3, <1>4, <1>5, <1>6, <1>7, <1>8 DEF StoreNext

(* The inductive invariant holds in every reachable state of the store.     *)
THEOREM StoreInvariant == StoreSpec => []StoreInv
<1>1. StoreInit => StoreInv  BY InitInv
<1>2. StoreInv /\ [StoreNext]_storeVars => StoreInv'  BY NextInv
<1> QED  BY <1>1, <1>2, PTL DEF StoreSpec

(* Type correctness of the messages table.                                  *)
THEOREM StoreTypeCorrect == StoreSpec => []StoreTypeOK
<1>1. StoreInv => StoreTypeOK  BY DEF StoreInv
<1> QED  BY <1>1, StoreInvariant, PTL

(* No claim is for ever: whoever holds a message without acknowledging it   *)
(* holds it for at most one lease (claim_next).                             *)
THEOREM ClaimsAlwaysExpire == StoreSpec => []ClaimsExpire
<1>1. StoreInv => ClaimsExpire  BY DEF StoreInv
<1> QED  BY <1>1, StoreInvariant, PTL

(* Only claimed work is ever acknowledged or completed.                     *)
THEOREM ClosedWorkWasClaimed == StoreSpec => []ClosedWasClaimed
<1>1. StoreInv => ClosedWasClaimed  BY DEF StoreInv
<1> QED  BY <1>1, StoreInvariant, PTL

-----------------------------------------------------------------------------

(* The messages that status counts under one state.                         *)
Shown(r, s) == {m \in Inbox(r) : DisplayState(m) = s}

(* Every pending message is counted by status under exactly one of three    *)
(* states: a lapsed claim is stale_claimed and nothing else.                *)
LEMMA ShownPartitionPending ==
  ASSUME StoreTypeOK, NEW r \in Role
  PROVE  /\ ClaimCandidates(r) = (Shown(r, "queued") \cup Shown(r, "notified"))
                                 \cup Shown(r, "stale_claimed")
         /\ Shown(r, "queued") \cap Shown(r, "notified") = {}
         /\ (Shown(r, "queued") \cup Shown(r, "notified")) \cap Shown(r, "stale_claimed") = {}
<1>1. \A m \in Inbox(r) : Expired(m) => state[m] = "claimed"  BY DEF Expired
<1>2. \A m \in Inbox(r) : state[m] # "stale_claimed"
  BY DEF StoreTypeOK, Inbox, State, Claimable, Held
<1> QED  BY <1>1, <1>2 DEF ClaimCandidates, Shown, DisplayState, Claimable

(* Two sets that share nothing are counted together by adding.              *)
LEMMA CountDisjoint ==
  ASSUME NEW S, IsFiniteSet(S), NEW T, IsFiniteSet(T), S \cap T = {}
  PROVE  IsFiniteSet(S \cup T) /\ Cardinality(S \cup T) = Cardinality(S) + Cardinality(T)
<1>1. Cardinality(S \cap T) = 0  BY FS_EmptySet
<1>2. Cardinality(S) \in Nat /\ Cardinality(T) \in Nat  BY FS_CardinalityType
<1>3. /\ IsFiniteSet(S \cup T)
      /\ Cardinality(S \cup T) = Cardinality(S) + Cardinality(T) - Cardinality(S \cap T)
  BY FS_Union
<1> QED  BY <1>1, <1>2, <1>3

(* A listing holds every matching row, or as many as the LIMIT lets in.     *)
LEMMA ListingFills ==
  ASSUME NEW R, R \subseteq Message, NEW Before(_, _), NEW L \in FirstRows(R, Before)
  PROVE  /\ IsFiniteSet(R) /\ Cardinality(R) \in Nat
         /\ L \subseteq R
         /\ Cardinality(L) = IF Cardinality(R) <= ListLimit THEN Cardinality(R) ELSE ListLimit
         /\ Cardinality(L) < ListLimit => L = R
<1>1. /\ L \subseteq R
      /\ Cardinality(L) <= ListLimit
      /\ L # R => Cardinality(L) = ListLimit
  BY DEF FirstRows
<1>2. IsFiniteSet(R) /\ Cardinality(R) \in Nat
  BY MessageAssumption, FS_Subset, FS_CardinalityType
<1>3. /\ IsFiniteSet(L)
      /\ Cardinality(L) <= Cardinality(R)
      /\ Cardinality(R) = Cardinality(L) => R = L
  BY <1>1, <1>2, FS_Subset
<1>4. Cardinality(L) \in Nat  BY <1>3, FS_CardinalityType
<1> QED  BY <1>1, <1>2, <1>3, <1>4, LimitAssumption

(* pending=N of status is the count that decides whether a wake is sent.    *)
LEMMA StatusCountsPending ==
  ASSUME StoreTypeOK, NEW r \in Role
  PROVE  StatusPending(r) = Cardinality(ClaimCandidates(r))
<1>1. \A s : IsFiniteSet(Shown(r, s))
  <2>1. \A s : Shown(r, s) \in SUBSET Message  BY DEF Shown, Inbox
  <2> QED  BY <2>1, MessageAssumption, FS_Subset
<1>2. StatusPending(r) = (Cardinality(Shown(r, "queued")) + Cardinality(Shown(r, "notified")))
                         + Cardinality(Shown(r, "stale_claimed"))
  BY DEF StatusPending, ActiveCount, Shown
<1>3. /\ IsFiniteSet(Shown(r, "queued") \cup Shown(r, "notified"))
      /\ Cardinality(Shown(r, "queued") \cup Shown(r, "notified"))
           = Cardinality(Shown(r, "queued")) + Cardinality(Shown(r, "notified"))
  BY <1>1, ShownPartitionPending, CountDisjoint
<1>4. Cardinality((Shown(r, "queued") \cup Shown(r, "notified")) \cup Shown(r, "stale_claimed"))
        = Cardinality(Shown(r, "queued") \cup Shown(r, "notified"))
          + Cardinality(Shown(r, "stale_claimed"))
  BY <1>3, <1>1, ShownPartitionPending, CountDisjoint
<1> QED  BY <1>2, <1>3, <1>4, ShownPartitionPending

(* The rows that inbox list --state pending chooses from are those that     *)
(* claim_next selects from.                                                 *)
LEMMA PendingFilter ==
  ASSUME NEW r \in Role
  PROVE  /\ ListMessages(r, {"pending"}) = FirstRows(ClaimCandidates(r), Precedes)
         /\ ClaimCandidates(r) \subseteq Message
<1>1. {m \in Inbox(r) : MatchesFilter(m, {"pending"})} = ClaimCandidates(r)
  BY DEF MatchesFilter, ClaimCandidates
<1>2. ListMessages(r, {"pending"}) = FirstRows({m \in Inbox(r) : MatchesFilter(m, {"pending"})}, Precedes)
  BY DEF ListMessages
<1> QED  BY <1>1, <1>2 DEF ClaimCandidates, Inbox

(* The code that decides what is pending agrees, up to the limit of the     *)
(* listings (PendingViewsAgree).                                            *)
LEMMA ViewsAgree == StoreTypeOK => PendingViewsAgree
<1> SUFFICES ASSUME StoreTypeOK, NEW r \in Role
             PROVE  /\ StatusPending(r) = PendingCount(r)
                    /\ \A L \in ListMessages(r, {"pending"}) :
                         /\ L \subseteq ClaimCandidates(r)
                         /\ Cardinality(L) = IF PendingCount(r) <= ListLimit
                                             THEN PendingCount(r) ELSE ListLimit
                    /\ \A L \in Reclaimable(r), K \in ListMessages(r, {"stale_claimed"}) :
                         /\ Cardinality(L) = Cardinality(K)
                         /\ Cardinality(L) < ListLimit => L = K
  BY DEF PendingViewsAgree
<1>1. PendingCount(r) = Cardinality(ClaimCandidates(r))  BY DEF PendingCount, ClaimCandidates
<1>2. StatusPending(r) = PendingCount(r)  BY <1>1, StatusCountsPending
<1>3. ASSUME NEW L \in ListMessages(r, {"pending"})
      PROVE  /\ L \subseteq ClaimCandidates(r)
             /\ Cardinality(L) = IF PendingCount(r) <= ListLimit
                                 THEN PendingCount(r) ELSE ListLimit
  <2>1. L \in FirstRows(ClaimCandidates(r), Precedes) /\ ClaimCandidates(r) \subseteq Message
    BY <1>3, PendingFilter
  <2> QED  BY <2>1, <1>1, ListingFills
<1>4. ASSUME NEW L \in Reclaimable(r), NEW K \in ListMessages(r, {"stale_claimed"})
      PROVE  Cardinality(L) = Cardinality(K) /\ (Cardinality(L) < ListLimit => L = K)
  <2> DEFINE R == {m \in Inbox(r) : Expired(m)}
  <2>1. {m \in Inbox(r) : MatchesFilter(m, {"stale_claimed"})} = R
    BY DEF MatchesFilter, Expired
  <2>2. L \in FirstRows(R, LapsedBefore) /\ K \in FirstRows(R, Precedes)
    BY <1>4, <2>1 DEF Reclaimable, ListMessages
  <2>3. R \subseteq Message  BY DEF Inbox
  <2> HIDE DEF R
  <2> QED  BY <2>2, <2>3, ListingFills
<1> QED  BY <1>2, <1>3, <1>4

(* No role is told by one view that its inbox is empty while another shows  *)
(* work, and no listing is short unless it is full (PendingViewsAgree).     *)
THEOREM PendingViewsAlwaysAgree == StoreSpec => []PendingViewsAgree
BY ViewsAgree, StoreTypeCorrect, PTL

-----------------------------------------------------------------------------

(* Only a claim writes a lease, and only that of the message it takes.      *)
LEMMA StepsThatLease ==
  ASSUME StoreInv, [StoreNext]_storeVars, NEW m \in Message, lease'[m] # lease[m]
  PROVE  \E r \in Role : ClaimNext(r, m)
<1>1. PICK r \in Role, k \in Message : ClaimNext(r, k)
  BY DEF StoreNext, storeVars, CreateMessage, AckMessage, CompleteMessage, CompleteReplies,
         MarkNotified, Tick
<1>2. lease' = [lease EXCEPT ![k] = now + ClaimSeconds] /\ lease \in [Message -> Nat]
  BY <1>1 DEF ClaimNext, StoreInv, StoreTypeOK
<1>3. k = m  BY <1>2
<1> QED  BY <1>1, <1>3

(* A claim takes the first candidate.                                       *)
LEMMA StepClaimsInOrder ==
  StoreInv /\ [StoreNext]_storeVars => \A m \in Message : ClaimStep(m)
<1> SUFFICES ASSUME StoreInv, [StoreNext]_storeVars, NEW m \in Message,
                    lease'[m] # lease[m], NEW n \in Message,
                    state[n] \in Claimable, row[n].recipient = row[m].recipient
             PROVE  ~Precedes(n, m)
  BY DEF ClaimStep
<1>1. PICK r \in Role : ClaimNext(r, m)  BY StepsThatLease
<1>2. m \in ClaimCandidates(r) /\ \A j \in ClaimCandidates(r) : ~Precedes(j, m)
  BY <1>1 DEF ClaimNext
<1>3. n \in ClaimCandidates(r)
  BY <1>2 DEF ClaimCandidates, Inbox, Claimable
<1> QED  BY <1>2, <1>3

(* A claim takes a first candidate, so a listing without it is full of      *)
(* rows that tie with it (claim_next, list_messages).                       *)
LEMMA StepClaimsListed ==
  StoreInv /\ [StoreNext]_storeVars => \A m \in Message : ListedStep(m)
<1> SUFFICES ASSUME StoreInv, [StoreNext]_storeVars, NEW m \in Message, lease'[m] # lease[m],
                    NEW L \in ListMessages(row[m].recipient, {"pending"}), m \notin L
             PROVE  /\ Cardinality(L) = ListLimit
                    /\ \A n \in L : ~Precedes(n, m) /\ ~Precedes(m, n)
  BY DEF ListedStep
<1>1. PICK r \in Role : ClaimNext(r, m)  BY StepsThatLease
<1>2. /\ m \in ClaimCandidates(r)
      /\ \A n \in ClaimCandidates(r) : ~Precedes(n, m)
      /\ row[m].recipient = r
  BY <1>1 DEF ClaimNext, ClaimCandidates, Inbox
<1>3. L \in FirstRows(ClaimCandidates(r), Precedes)  BY <1>2, PendingFilter
<1>4. /\ L \subseteq ClaimCandidates(r)
      /\ Cardinality(L) = ListLimit
      /\ \A n \in L, k \in ClaimCandidates(r) \ L : ~Precedes(k, n)
  BY <1>2, <1>3 DEF FirstRows
<1> QED  BY <1>2, <1>4

(* Urgent work is handed out first, then the oldest (claim_next).           *)
THEOREM ClaimsAreInOrder == StoreSpec => ClaimsInOrder
<1>1. StoreInv /\ [StoreNext]_storeVars => [\A m \in Message : ClaimStep(m)]_storeVars
  BY StepClaimsInOrder
<1> QED  BY <1>1, StoreInvariant, PTL DEF StoreSpec, ClaimsInOrder

(* What inbox next claims was in the listing of pending work, or that was   *)
(* full of rows as urgent and as old (list_messages).                       *)
THEOREM ClaimsWereListed == StoreSpec => ClaimsAreListed
<1>1. StoreInv /\ [StoreNext]_storeVars => [\A m \in Message : ListedStep(m)]_storeVars
  BY StepClaimsListed
<1> QED  BY <1>1, StoreInvariant, PTL DEF StoreSpec, ClaimsAreListed

-----------------------------------------------------------------------------
(* MessageStore implements WorkQueue. *)

(* The status a message has in the queue, state by state.                   *)
LEMMA StatusOf ==
  ASSUME StoreTypeOK, NEW m \in Message
  PROVE  /\ state[m] = "none" => QueueStatus[m] = "absent"
         /\ state[m] = "blocked" => QueueStatus[m] = "parked"
         /\ state[m] \in Claimable => QueueStatus[m] = "waiting"
         /\ state[m] = "claimed" => QueueStatus[m] = IF Expired(m) THEN "lapsed" ELSE "leased"
         /\ state[m] = "acknowledged" => QueueStatus[m] = "accepted"
         /\ state[m] = "completed" => QueueStatus[m] = "finished"
BY DEF StoreTypeOK, QueueStatus, Claimable

(* The same after a step.                                                   *)
LEMMA StatusOfNext ==
  ASSUME StoreTypeOK', NEW m \in Message
  PROVE  /\ state'[m] = "none" => QueueStatus'[m] = "absent"
         /\ state'[m] = "blocked" => QueueStatus'[m] = "parked"
         /\ state'[m] \in Claimable => QueueStatus'[m] = "waiting"
         /\ state'[m] = "claimed" => QueueStatus'[m] = IF Expired(m)' THEN "lapsed" ELSE "leased"
         /\ state'[m] = "acknowledged" => QueueStatus'[m] = "accepted"
         /\ state'[m] = "completed" => QueueStatus'[m] = "finished"
BY DEF StoreTypeOK, QueueStatus, Claimable

(* A message whose state and lease a step leaves alone, at a standing       *)
(* clock, keeps its status.                                                 *)
LEMMA StatusKept ==
  ASSUME NEW m \in Message, state'[m] = state[m], lease'[m] = lease[m], now' = now
  PROVE  QueueStatus'[m] = QueueStatus[m]
BY DEF QueueStatus, Expired

(* A step that takes exactly the messages of S to one status is a Move.     *)
LEMMA MoveOfSet ==
  ASSUME NEW S \in SUBSET Message, NEW from, NEW to,
         \A m \in S : QueueStatus[m] \in from /\ QueueStatus'[m] = to,
         \A m \in Message \ S : QueueStatus'[m] = QueueStatus[m]
  PROVE  Queue!Move(S, from, to)
<1>1. QueueStatus' = [m \in Message |-> QueueStatus'[m]]  BY DEF QueueStatus
<1>2. \A m \in Message : QueueStatus'[m] = IF m \in S THEN to ELSE QueueStatus[m]  OBVIOUS
<1> QED  BY <1>1, <1>2 DEF Queue!Move

(* No message, no item.                                                     *)
LEMMA InitPosts == StoreInit => Queue!Init
<1> SUFFICES ASSUME StoreInit PROVE Queue!Init  OBVIOUS
<1>1. \A m \in Message : QueueStatus[m] = "absent"
  BY InitInv, StatusOf DEF StoreInv, StoreInit
<1>2. QueueStatus = [m \in Message |-> QueueStatus[m]]  BY DEF QueueStatus
<1> QED  BY <1>1, <1>2 DEF Queue!Init

(* An INSERT posts one item: waiting, parked, or finished from the start.   *)
LEMMA CreatePosts ==
  ASSUME StoreInv, StoreInv', NEW m \in Message, NEW kind \in Kind, NEW p \in Priority,
         NEW r \in Role, NEW born \in State, CreateMessage(m, kind, p, r, born)
  PROVE  Queue!Post(m)
<1>1. /\ state[m] = "none" /\ born \in {"queued", "blocked", "completed"}
      /\ state' = [state EXCEPT ![m] = born] /\ lease' = lease /\ now' = now
  BY DEF CreateMessage, BirthStates
<1>2. state'[m] = born /\ \A n \in Message \ {m} : state'[n] = state[n]
  BY <1>1 DEF StoreInv, StoreTypeOK
<1>3. QueueStatus[m] = "absent"  BY <1>1, StatusOf DEF StoreInv
<1>4. QueueStatus'[m] \in {"waiting", "parked", "finished"}
  BY <1>1, <1>2, StatusOfNext DEF StoreInv, Claimable
<1>5. \A n \in Message \ {m} : QueueStatus'[n] = QueueStatus[n]  BY <1>1, <1>2, StatusKept
<1>6. Queue!Move({m}, {"absent"}, QueueStatus'[m])  BY <1>3, <1>5, MoveOfSet
<1> QED  BY <1>4, <1>6 DEF Queue!Post

(* A claim leases an item that waits or whose lease lapsed.                 *)
LEMMA ClaimLeases ==
  ASSUME StoreInv, StoreInv', NEW r \in Role, NEW m \in Message, ClaimNext(r, m)
  PROVE  Queue!Lease(m)
<1>1. /\ state[m] \in Claimable \/ Expired(m)
      /\ state' = [state EXCEPT ![m] = "claimed"]
      /\ lease' = [lease EXCEPT ![m] = now + ClaimSeconds] /\ now' = now
  BY DEF ClaimNext, ClaimCandidates
<1>2. /\ state'[m] = "claimed" /\ lease'[m] = now + ClaimSeconds /\ now \in Nat
      /\ \A n \in Message \ {m} : state'[n] = state[n] /\ lease'[n] = lease[n]
  BY <1>1, TimeAssumption DEF StoreInv, StoreTypeOK
<1>3. QueueStatus[m] \in {"waiting", "lapsed"}  BY <1>1, StatusOf DEF StoreInv, Expired
<1>4. ~Expired(m)'  BY <1>1, <1>2, LeaseAssumption DEF Expired
<1>5. QueueStatus'[m] = "leased"  BY <1>2, <1>4, StatusOfNext DEF StoreInv
<1>6. \A n \in Message \ {m} : QueueStatus'[n] = QueueStatus[n]  BY <1>1, <1>2, StatusKept
<1> QED  BY <1>3, <1>5, <1>6, MoveOfSet DEF Queue!Lease

(* Closing or accepting held messages moves them all, or (an acknowledgement *)
(* repeated) none of them.                                                  *)
LEMMA CloseMoves ==
  ASSUME StoreInv, StoreInv', NEW S \in SUBSET Message,
         NEW to \in {"acknowledged", "completed"},
         \A m \in S : state[m] \in Held,
         state' = [m \in Message |-> IF m \in S THEN to ELSE state[m]],
         UNCHANGED <<lease, row, now>>
  PROVE  /\ \A m \in S : QueueStatus[m] \in {"leased", "lapsed", "accepted"}
         /\ \A m \in S : QueueStatus[m] = "accepted" <=> state[m] = "acknowledged"
         /\ \A m \in S : QueueStatus'[m] = IF to = "completed" THEN "finished" ELSE "accepted"
         /\ \A m \in Message \ S : QueueStatus'[m] = QueueStatus[m]
<1>1. ASSUME NEW m \in S
      PROVE  /\ QueueStatus[m] \in {"leased", "lapsed", "accepted"}
             /\ QueueStatus[m] = "accepted" <=> state[m] = "acknowledged"
  BY StatusOf DEF StoreInv, Held
<1>2. \A m \in S : QueueStatus'[m] = IF to = "completed" THEN "finished" ELSE "accepted"
  BY StatusOfNext DEF StoreInv
<1>3. \A m \in Message \ S : QueueStatus'[m] = QueueStatus[m]  BY StatusKept
<1> QED  BY <1>1, <1>2, <1>3

(* An acknowledgement, a late or repeated one too, accepts or stutters.     *)
LEMMA AckAccepts ==
  ASSUME StoreInv, StoreInv', NEW r \in Role, NEW m \in Message, AckMessage(r, m)
  PROVE  Queue!Accept(m) \/ UNCHANGED QueueStatus
<1>1. /\ {m} \in SUBSET Message /\ "acknowledged" \in {"acknowledged", "completed"}
      /\ \A n \in {m} : state[n] \in Held
      /\ state' = [n \in Message |-> IF n \in {m} THEN "acknowledged" ELSE state[n]]
      /\ UNCHANGED <<lease, row, now>>
  BY AckIsClose
<1>2. /\ QueueStatus[m] \in {"leased", "lapsed", "accepted"} /\ QueueStatus'[m] = "accepted"
      /\ \A n \in Message \ {m} : QueueStatus'[n] = QueueStatus[n]
  BY <1>1, CloseMoves
<1>3. CASE QueueStatus[m] = "accepted"
  <2>1. \A n \in Message : QueueStatus'[n] = QueueStatus[n]  BY <1>2, <1>3
  <2> QED  BY <2>1 DEF QueueStatus
<1>4. CASE QueueStatus[m] # "accepted"
  BY <1>2, <1>4, MoveOfSet DEF Queue!Accept
<1> QED  BY <1>3, <1>4

(* A completion finishes one item that was leased or accepted.              *)
LEMMA CompleteFinishes ==
  ASSUME StoreInv, StoreInv', NEW S \in SUBSET Message,
         \A m \in S : state[m] \in Held,
         state' = [m \in Message |-> IF m \in S THEN "completed" ELSE state[m]],
         UNCHANGED <<lease, row, now>>
  PROVE  Queue!Finish(S)
<1>1. "completed" \in {"acknowledged", "completed"}  OBVIOUS
<1>2. /\ \A m \in S : QueueStatus[m] \in {"leased", "lapsed", "accepted"}
      /\ \A m \in S : QueueStatus'[m] = "finished"
      /\ \A m \in Message \ S : QueueStatus'[m] = QueueStatus[m]
  BY <1>1, CloseMoves
<1> QED  BY <1>2, MoveOfSet DEF Queue!Finish

(* A wake changes nothing the queue can see: marked work waits as before.   *)
LEMMA MarkStutters ==
  ASSUME StoreInv, StoreInv', NEW r \in Role, MarkNotified(r)
  PROVE  UNCHANGED QueueStatus
<1>1. /\ lease' = lease /\ now' = now
      /\ \A m \in Message : \/ state'[m] = state[m]
                            \/ state[m] = "queued" /\ state'[m] = "notified"
  BY DEF MarkNotified
<1>2. ASSUME NEW m \in Message  PROVE QueueStatus'[m] = QueueStatus[m]
  <2>1. CASE state'[m] = state[m]  BY <1>1, <2>1, StatusKept
  <2>2. CASE state[m] = "queued" /\ state'[m] = "notified"
    BY <2>2, StatusOf, StatusOfNext DEF StoreInv, Claimable
  <2> QED  BY <1>1, <2>1, <2>2
<1> QED  BY <1>2 DEF QueueStatus

(* A tick lapses the leases that end with it.                               *)
LEMMA TickLapses ==
  ASSUME StoreInv, StoreInv', Tick
  PROVE  \E S \in SUBSET Message : Queue!Lapse(S)
<1> DEFINE S == {m \in Message : state[m] = "claimed" /\ ~Expired(m) /\ Expired(m)'}
<1>1. state' = state /\ lease' = lease /\ now' = now + 1  BY DEF Tick
<1>2. now \in Nat /\ lease \in [Message -> Nat]
  BY TimeAssumption DEF StoreInv, StoreTypeOK
<1>3. \A m \in S : QueueStatus[m] = "leased" /\ QueueStatus'[m] = "lapsed"
  BY <1>1, StatusOf, StatusOfNext DEF StoreInv
<1>4. ASSUME NEW m \in Message \ S  PROVE QueueStatus'[m] = QueueStatus[m]
  <2>1. CASE state[m] # "claimed"  BY <1>1, <2>1 DEF QueueStatus
  <2>2. CASE state[m] = "claimed"
    <3>1. Expired(m) => Expired(m)'  BY <1>1, <1>2 DEF Expired
    <3>2. Expired(m) <=> Expired(m)'  BY <2>2, <3>1
    <3> QED  BY <1>1, <2>2, <3>2, StatusOf, StatusOfNext DEF StoreInv
  <2> QED  BY <2>1, <2>2
<1> HIDE DEF S
<1>5. S \in SUBSET Message  BY DEF S
<1>6. Queue!Move(S, {"leased"}, "lapsed")  BY <1>3, <1>4, <1>5, MoveOfSet
<1> QED  BY <1>5, <1>6 DEF Queue!Lapse

(* Every step of the store is a step of the queue or a stutter.             *)
LEMMA NextImplements ==
  StoreInv /\ StoreInv' /\ [StoreNext]_storeVars => [Queue!Next]_QueueStatus
<1> SUFFICES ASSUME StoreInv, StoreInv', [StoreNext]_storeVars
             PROVE  Queue!Next \/ UNCHANGED QueueStatus
  OBVIOUS
<1>1. ASSUME NEW m \in Message, NEW kind \in Kind, NEW p \in Priority, NEW r \in Role,
             NEW born \in State, CreateMessage(m, kind, p, r, born)
      PROVE  Queue!Next
  BY <1>1, CreatePosts DEF Queue!Next
<1>2. ASSUME NEW r \in Role, NEW m \in Message, ClaimNext(r, m)  PROVE Queue!Next
  BY <1>2, ClaimLeases DEF Queue!Next
<1>3. ASSUME NEW r \in Role, NEW m \in Message, AckMessage(r, m)
      PROVE  Queue!Next \/ UNCHANGED QueueStatus
  BY <1>3, AckAccepts DEF Queue!Next
<1>4. ASSUME NEW r \in Role, NEW m \in Message, CompleteMessage(r, m)  PROVE Queue!Next
  <2>1. /\ {m} \in SUBSET Message
        /\ \A n \in {m} : state[n] \in Held
        /\ state' = [n \in Message |-> IF n \in {m} THEN "completed" ELSE state[n]]
        /\ UNCHANGED <<lease, row, now>>
    BY <1>4, CompleteIsClose
  <2>2. Queue!Finish({m})  BY <2>1, CompleteFinishes
  <2> QED  BY <2>1, <2>2 DEF Queue!Next
<1>5. ASSUME NEW r \in Role, NEW S \in SUBSET Message, CompleteReplies(r, S)  PROVE Queue!Next
  <2>1. /\ \A m \in S : state[m] \in Held
        /\ state' = [m \in Message |-> IF m \in S THEN "completed" ELSE state[m]]
        /\ UNCHANGED <<lease, row, now>>
    BY <1>5 DEF CompleteReplies, ReadReplies
  <2>2. Queue!Finish(S)  BY <2>1, CompleteFinishes
  <2> QED  BY <2>2 DEF Queue!Next
<1>6. ASSUME NEW r \in Role, MarkNotified(r)  PROVE UNCHANGED QueueStatus
  BY <1>6, MarkStutters
<1>7. CASE Tick  BY <1>7, TickLapses DEF Queue!Next
<1>8. CASE UNCHANGED storeVars  BY <1>8 DEF storeVars, QueueStatus, Expired
<1> QED  BY <1>1, <1>2, <1>3, <1>4, <1>5, <1>6, <1>7, <1>8 DEF StoreNext

(* The store implements WorkQueue: one lease at a time, nothing accepted is *)
(* offered again, nothing is finished that was not leased, and nothing      *)
(* parked is ever offered.                                                  *)
THEOREM StoreImplementsQueue == StoreSpec => QueueImplementation
<1>1. StoreInit => Queue!Init  BY InitPosts
<1>2. StoreInv /\ StoreInv' /\ [StoreNext]_storeVars => [Queue!Next]_QueueStatus
  BY NextImplements
<1> QED  BY <1>1, <1>2, StoreInvariant, PTL DEF StoreSpec, QueueImplementation, Queue!Spec

=============================================================================
