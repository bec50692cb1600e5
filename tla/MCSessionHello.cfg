CONSTANTS
  Thread = {t1, t2}
  NoThread = NoThread
  Module = {m1}
  NoModule = NoModule
  Callstacks = {TRUE, FALSE}
  EnumCap = 1
  MaxOps = 2
SPECIFICATION Spec
SYMMETRY Symmetry
INVARIANT HelloIsLineOne
CHECK_DEADLOCK FALSE
