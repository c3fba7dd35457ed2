SPECIFICATION Spec
CONSTANTS
  Role = {r1, r2}
  NoRole = NoRole
  MaxSession = 4
SYMMETRY Symmetry
INVARIANTS
  LifecycleTypeOK
  SleepBarrier
  SnapshotIsLive
  ResumeBindsLive
  SessionOpenOnce
PROPERTIES
  SessionsImplementation
