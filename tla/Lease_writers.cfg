SPECIFICATION FairSpec
CONSTANTS
    Host = host
    Worker = worker
    Nobody = Nobody
    Modes = {"world", "full", "external"}
    Attempts = 2
    NoWorld = NoWorld
    Faults = {"crash", "drop"}
    MaxTick = 2
    MaxCommands = 2
    MaxFaults = 1
CHECK_DEADLOCK FALSE
INVARIANTS TypeOK OneTicker
PROPERTIES NothingUndone ClockCatchesUp
