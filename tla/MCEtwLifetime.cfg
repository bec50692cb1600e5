CONSTANTS
  addr1 = addr1
  addr2 = addr2
  NoAddr = NoAddr
  NoObj = NoObj
  Addrs <- MCAddrs
  Plans <- ReusePlan
  Regimes = {TRUE}
  Overtaking = TRUE
  Slack = 2
  DeadCap = 2
  History = 9
SPECIFICATION Spec
INVARIANT BoundInsideLifetime
CHECK_DEADLOCK FALSE
