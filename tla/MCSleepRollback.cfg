SPECIFICATION Spec
CONSTANTS
  Role = {r1, r2}
  NoRole = NoRole
  MaxSession = 2
INVARIANTS
  RollbackReopens
