SPECIFICATION FairSpec
CONSTANTS
    Companies = {c1}
    Cmds = {k1}
    TicksPerDay = 2
    ChunkTicks = 1
    PulseSizes = {1, 2}
    CapDays = 1
    Faults = {"save", "command", "crash"}
    Rehydrates = TRUE
    StartTick = 1
    NoWorld = NoWorld
    MaxTick = 4
    MaxFaults = 2
    MaxOpens = 0
    MaxCommands = 1
INVARIANT UnsavedIsFlagged
INVARIANT NoDaySkipped
PROPERTY BacklogPersisted
