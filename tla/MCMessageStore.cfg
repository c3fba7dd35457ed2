SPECIFICATION StoreSpec
CONSTANTS
  Role = {r1, r2}
  Message = {m1, m2, m3}
  Priority = {0, 2}
  ClaimSeconds = 1
  ReplyLimit = 1
  ListLimit = 2
  MaxTime = 1
SYMMETRY Symmetry
INVARIANTS
  StoreTypeOK
  ClaimsExpire
  ClosedWasClaimed
  PendingViewsAgree
PROPERTIES
  ClaimsInOrder
  ClaimsAreListed
  QueueImplementation
CHECK_DEADLOCK FALSE
