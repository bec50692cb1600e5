CONSTANTS
  Thread = {t1, t2}
  NoThread = NoThread
  Module = {m1}
  NoModule = NoModule
  Callstacks = {TRUE, FALSE}
  EnumCap = 1
  MaxOps = 2
SPECIFICATION FairSpec
INVARIANTS
  TypeOK
  WireWellFramed
  NoHandleClosedTwice
  HelloOpensAttachedSinks
  ModuleStreamsAlternate
  ModulesKnownFromAttach
PROPERTIES
  EventReachesOpenSinks
  ImplementsChannel
  CallsReturn
CHECK_DEADLOCK FALSE
