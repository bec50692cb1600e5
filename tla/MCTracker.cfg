CONSTANTS
  Thread = {t1, t2}
  Addr = {a1, a2}
  VTable = {v1}
  n1 = n1
  n2 = n2
  n3 = n3
  Name = {n1, n2, n3}
  Cut <- LongName
  NoThread = NoThread
  NoAddr = NoAddr
  NoName = NoName
  Quirks = {"reuse", "shared", "naming", "clear", "protect"}
  MaxCalls = 4
SPECIFICATION Spec
SYMMETRY Symmetry
INVARIANTS
  TypeOK
  HookFindsReal
  OneBirthOneDeath
  EventsInsideLifetime
  DestroyedIsDeath
  SettledStreams
  NamesSettle
  NoRenameEcho
PROPERTY RecordsNeverReplaced
CHECK_DEADLOCK FALSE
