CONSTANTS
  Thread = {t1, t2}
  cfg = cfg
  fac = fac
  new = new
  old = old
  VTable <- MCVTable
  Class <- MCClass
  Version <- MCVersion
  Limit = 3
  Hook = Hook
  Null = Null
SPECIFICATION Spec
INVARIANTS
  TypeOK
  OriginalsAreReal
  CallsReachOwnMethod
  SeenAreHooked
CHECK_DEADLOCK FALSE
