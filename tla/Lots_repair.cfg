SPECIFICATION FairSpec
CONSTANTS
    c1 = c1
    c2 = c2
    m1 = m1
    m2 = m2
    l1 = l1
    l2 = l2
    Free = Free
    NoRoster = NoRoster
    Companies = {c1}
    Owner <- OneOwner
    Missions = {m1}
    Lots = {l1}
    Size <- Sizes
    MaxKg = 2
    MaxFlown = 3
    MaxLost = 1
    Editing = TRUE
INVARIANTS TypeOK BookingFits
PROPERTIES LeakRepaired OfferSurfaces
