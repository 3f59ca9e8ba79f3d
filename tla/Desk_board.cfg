SPECIFICATION Spec
CONSTANTS
    c1 = c1
    c2 = c2
    o1 = o1
    o2 = o2
    f1 = f1
    g1 = g1
    g2 = g2
    city = city
    None = None
    Companies = {c1, c2}
    Orders = {o1, o2}
    Flights = {f1}
    Goods = {g1, g2}
    City <- OneCity
    Wanted <- Wanteds
    Unlocked <- Licences
    Quota = 2
    Capacity <- Cargoes
    OrderTtl = 2
    HoldTtl = 1
    Sail = 1
    Day = 1
    MaxLines = 2
    MaxCargo <- Cargoes
    Edits = {"lower", "raise"}
    Slips = {"late", "row", "read"}
    MaxSlips = 1
SYMMETRY Symmetry
INVARIANTS TypeOK CargoConserved NeverOverPromised CityOnce
