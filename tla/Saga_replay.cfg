SPECIFICATION FairSpec
CONSTANTS
    va = va
    own = own
    m1 = m1
    m2 = m2
    m3 = m3
    Missions = {m1, m2, m3}
    Companies = {va, own}
    Requests = {r1, r2}
    Ops <- OpsOf
    Home <- HomeOf
    Riders <- AtHome
    Listed = {va}
    NoMission = NoMission
    MaxCut = 2
    MaxAsks = 3
    MaxFaults = 1
    MaxChanges = 1
CHECK_DEADLOCK FALSE
INVARIANTS PaidOnce CutConserved Progression
PROPERTY CutArrives
