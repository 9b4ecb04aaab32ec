SPECIFICATION Spec
CONSTANTS
    Names = {a, b}
    LocalName = localhost
    Threads = {t1, t2}
    TTLs = {0, 2}
    min_ttl = 0
    max_ttl = 1
    neg_ttl = 0
    CACHE_LAT = 0
    PermSize = 5
    MCSZ = 3
    PurgeOptions = {TRUE, FALSE}
    MaxTime = 2
SYMMETRY Symmetric
CONSTRAINT OneLongRun
INVARIANTS Accounting ListExact EntriesSound FileOfOneMoment
PROPERTIES EvictsOldest RestoredExactly
CHECK_DEADLOCK FALSE
