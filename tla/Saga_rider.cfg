SPECIFICATION Spec
CONSTANTS
    va = va
    own = own
    m1 = m1
    m2 = m2
    m3 = m3
    Missions = {m1, m2, m3}
    Companies = {va, own}
    Requests = {r1, r2}
    Ops <- OpsOfTrip
    Home <- HomeOf
    Riders <- Together
    Listed = {va}
    NoMission = NoMission
    MaxCut = 2
    MaxAsks = 1
    MaxFaults = 0
    MaxChanges = 0
CHECK_DEADLOCK FALSE
INVARIANT CutConserved
