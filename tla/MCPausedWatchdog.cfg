SPECIFICATION Spec
CONSTANTS
  Item = {m1, m2}
  Role = {r1}
  Runner = {n1}
  Loop = {l1}
  Operator = {o1}
  ReportOnly = ReportOnly
  NoPane = NoPane
  NoEscalation = NoEscalation
PROPERTIES PauseHolds
CHECK_DEADLOCK FALSE
