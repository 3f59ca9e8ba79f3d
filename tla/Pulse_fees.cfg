SPECIFICATION Spec
CONSTANTS
    Companies = {c1, c2}
    Cmds = {k1}
    TicksPerDay = 1
    ChunkTicks = 2
    PulseSizes = {3}
    CapDays = 1
    Faults = {"chunk", "settle", "save", "crash"}
    Rehydrates = TRUE
    StartTick = 1
    NoWorld = NoWorld
    MaxTick = 3
    MaxFaults = 1
    MaxOpens = 1
    MaxCommands = 1
SYMMETRY CompanySymmetry
INVARIANT TypeOK
INVARIANT NoDaySkipped
