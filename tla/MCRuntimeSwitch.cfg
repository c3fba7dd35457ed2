SPECIFICATION Spec
CONSTANTS
  Cmd = {c1, c2}
  Switcher = {c1}
  Option = {o1, o2}
  RoleState = {"active", "draining"}
  MaxSession = 3
  MaxSet = 2
  Nobody = Nobody
INVARIANTS
  SwitchTypeOK
  QuiesceBarrier
  PersistsLiveOption
  ActivationReady
  RowBehindFile
PROPERTIES
  OnlyOwnKeys
