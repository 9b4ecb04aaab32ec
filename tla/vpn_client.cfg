SPECIFICATION FairSpec
CONSTANTS
    Syncs = {"poll", "event"}
    MaxCommands = 2
    MaxFaults = 2
INVARIANTS StopWins RebindArmed NoSpontaneousStart
PROPERTIES Converges
