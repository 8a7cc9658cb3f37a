CONSTANTS
  Machine = {m1, m2}
  Nobody = Nobody
  Cfg = {c1}
  NoCfg = NoCfg
  MaxSessions = 3
SYMMETRY MachineSymmetry
SPECIFICATION Spec
INVARIANTS
  RecordRight
  LosersLeaveNoTrace
PROPERTIES
  ClaimsExclusive
CHECK_DEADLOCK FALSE
