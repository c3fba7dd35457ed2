SPECIFICATION Spec
CONSTANTS
  Proc = {p1, s1}
  Server = {s1}
  MaxHooks = 2
  Nobody = Nobody
INVARIANTS
  HooksTypeOK
  CompletionApproved
  LockOnlyForHooks
PROPERTIES
  NobodyWritesUnderHook
  CommandsEnd
