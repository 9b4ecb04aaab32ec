SPECIFICATION FairSpec
CONSTANTS
  p1 = p1
  b1 = b1
  Proxies <- OneProxy
  NoProxy = NoProxy
  Direct = Direct
  MaxAttempts = 1
  MaxScreenOff = 1
  MaxFailures = 3
  Strikes = 2
  ProbeSettings = {TRUE}
  CacheSettings = {TRUE}
  BinderThreads <- OneBinder
INVARIANTS
  SingleDropNeverKills
PROPERTIES
  DeadProxyStops
CHECK_DEADLOCK FALSE
