SPECIFICATION Spec
CONSTANTS
  MaxAttempts = 2
  MaxSendfd = 1
  BinderThreads <- OneBinder
CONSTRAINT
  CounterInUse
INVARIANTS
  UpIsLatest
CHECK_DEADLOCK FALSE
