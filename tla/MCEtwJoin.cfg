CONSTANTS
  addr1 = addr1
  addr2 = addr2
  NoAddr = NoAddr
  NoObj = NoObj
  Addrs <- MCAddrs
  Plans <- MCPlans
  Regimes = {TRUE, FALSE}
  Overtaking = TRUE
  Slack = 2
  DeadCap = 1
  History = 5
SPECIFICATION Spec
INVARIANTS
  TypeOK
  BindingsAgree
  IndexesAgree
  TotalsMatch
  LocationsFollowHeaps
  JoinSettles
PROPERTY
  TeardownIgnored
CHECK_DEADLOCK FALSE
