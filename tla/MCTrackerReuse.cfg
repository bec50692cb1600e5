CONSTANTS
  Thread = {t1, t2}
  Addr = {a1, a2}
  VTable = {v1}
  n1 = n1
  n2 = n2
  n3 = n3
  Name = {n1, n2}
  Cut <- LongName
  NoThread = NoThread
  NoAddr = NoAddr
  NoName = NoName
  Quirks = {"reuse"}
  MaxCalls = 4
SPECIFICATION Spec
SYMMETRY Symmetry
INVARIANT DestroyedOnlyWhenDead
CHECK_DEADLOCK FALSE
