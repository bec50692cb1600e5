CONSTANTS
  Capacity = 2
  MaxStartup = 1
  MaxEvents = 2
  MaxRecords = 1
  MaxLines = 1
SPECIFICATION FairSpec
PROPERTY ConnectReturns
CHECK_DEADLOCK FALSE
