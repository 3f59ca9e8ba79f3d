SPECIFICATION Spec
CONSTANTS
    t1 = t1
    t2 = t2
    a1 = a1
    a2 = a2
    a3 = a3
    NoTail = NoTail
    NoPlace = NoPlace
    MaxMissions = 3
    Tails = {t1, t2}
    Airports = {a1, a2, a3}
    MaxStops = 3
    SweepFamilies = FALSE
    RiderWatched = FALSE
    Inspections = TRUE
SYMMETRY Symmetry
VIEW OpenRows
CHECK_DEADLOCK FALSE
INVARIANTS TypeOK LinksAgree ReleasedOnce TailReady FuelOnce
PROPERTY EachContractEndsOnce
