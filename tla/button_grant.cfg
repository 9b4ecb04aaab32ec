SPECIFICATION Spec
CONSTANTS
    Syncs = {"poll", "event"}
    MaxConnects = 1
INVARIANTS GrantStarts
