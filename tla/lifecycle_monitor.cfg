SPECIFICATION Spec
CONSTANTS
  MaxAttempts = 2
  MaxSendfd = 1
  BinderThreads <- NoBinder
PROPERTIES
  MonitorStopsOwnAttempt
CHECK_DEADLOCK FALSE
