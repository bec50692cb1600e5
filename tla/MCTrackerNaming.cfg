CONSTANTS
  Thread = {t1, t2}
  Addr = {a1, a2}
  VTable = {v1}
  n1 = n1
  n2 = n2
  n3 = n3
  Name = {n1, n2}
  Cut <- ShortNames
  NoThread = NoThread
  NoAddr = NoAddr
  NoName = NoName
  Quirks = {"naming"}
  MaxCalls = 4
SPECIFICATION Spec
SYMMETRY Symmetry
INVARIANT NamesMirrorLastCall
CHECK_DEADLOCK FALSE
