SPECIFICATION FairSpec
CONSTANTS
    Companies = {c1}
    Lots = {l1}
    Kinds = {"accept", "cancel"}
    Reqs = {r1, r2}
    Free = Free
    NoWorld = NoWorld
    Nobody = Nobody
    Faults = {"missions", "slice", "save", "crash"}
    MaxTick = 2
    MaxCommands = 2
    MaxFaults = 1
INVARIANT TypeOK
INVARIANT LocksHeld
PROPERTY EveryCommandAnswered
