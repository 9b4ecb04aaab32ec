SPECIFICATION Spec
CONSTANTS
  Profiles = {q1, q2}
  NoProfile = NoProfile
  Main = main
  BinderThreads = {b1}
  PersistTicks = 2
  MaxBytes = 3
  MaxStarts = 3
CONSTRAINT NotRaced
SYMMETRY Symmetry
INVARIANTS
  NoDoubleCount
PROPERTIES
  UpKeepsUsage
CHECK_DEADLOCK FALSE
