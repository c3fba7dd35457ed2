SPECIFICATION Spec
CONSTANTS
  Obligation = {o1, o2}
  Process = {p1, p2, p3}
SYMMETRY Symmetry
INVARIANTS
  ObligationTypeOK
  RowConsistent
  MissedIsReported
