SPECIFICATION FairSpec
CONSTANTS
  MaxAttempts = 2
  MaxSendfd = 1
  BinderThreads <- OneBinder
CONSTRAINT
  NotRaced
INVARIANTS
  StoppedIsDown
  UpHasCarrier
PROPERTIES
  SessionSpec
  ConnectSettles
  InterfaceGoes
CHECK_DEADLOCK FALSE
