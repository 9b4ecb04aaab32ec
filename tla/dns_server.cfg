SPECIFICATION Spec
CONSTANTS
    N = 4
    SUSP_BASE = 0
    Main = 0
    Users <- MCUsers
    Servers = {"udp", "tcp"}
    proc_limit = 3
    procq_limit = 1
    SOFTLOCK_MAXTRIES = 2
INVARIANTS LockExact NoLostWakeup LimitsExact
PROPERTIES LockRefined Answered ExitCompletes
CHECK_DEADLOCK FALSE
