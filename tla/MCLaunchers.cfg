CONSTANTS
  Process = {p1, p2, p3}
  Pid = {n1, n2}
  Nobody = Nobody
  MaxDenied = 1
  MaxKills = 1
  MaxCtrl = 1
SPECIFICATION Spec
SYMMETRY Symmetry
INVARIANTS
  TypeOK
  NoSessionLeft
  StaleSwept
  TargetIsUsers
PROPERTIES
  LiveSessionsKept
CHECK_DEADLOCK FALSE
