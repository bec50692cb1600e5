CONSTANTS
  Capacity = 2
  MaxStartup = 3
  MaxEvents = 3
  MaxRecords = 2
  MaxLines = 2
SPECIFICATION FairSpec
INVARIANTS
  TypeOK
  NoStartupDeadlock
  SummaryIsComplete
  SidecarInOrder
  StatsAreLast
PROPERTY LauncherFinishes
CHECK_DEADLOCK FALSE
