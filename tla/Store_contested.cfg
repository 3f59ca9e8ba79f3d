SPECIFICATION Spec
CONSTANTS
    Companies = {c1, c2}
    Lots = {l1, l2}
    Kinds = {"accept"}
    Reqs = {r1}
    Free = Free
    NoWorld = NoWorld
    Nobody = Nobody
    Faults = {}
    MaxTick = 3
    MaxCommands = 3
    MaxFaults = 0
SYMMETRY Symmetry
INVARIANT ClaimExclusive
