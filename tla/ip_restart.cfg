SPECIFICATION Spec
CONSTANTS
  p1 = p1
  b1 = b1
  Proxies <- OneProxy
  NoProxy = NoProxy
  Direct = Direct
  MaxAttempts = 2
  MaxScreenOff = 0
  MaxFailures = 2
  Strikes = 2
  ProbeSettings = {TRUE, FALSE}
  CacheSettings = {TRUE}
  BinderThreads <- OneBinder
CONSTRAINT NotRaced
VIEW NoEvidence
INVARIANTS
  ShownOnlyWhenUp
  LoopAlive
PROPERTIES
  ProbeOffKeepsShown
CHECK_DEADLOCK FALSE
