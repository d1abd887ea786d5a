SPECIFICATION Spec
CONSTANTS
    m1 = m1
    m2 = m2
    m3 = m3
    water = water
    spare = spare
    both = both
    elec = elec
    gas = gas
    kWh = kWh
    MJ = MJ
    CO2 = CO2
    kg = kg
    co2 = co2
    NoSuffix = NoSuffix
    None = None
    Custom = Custom
    Meters = {m1, m2, m3}
    UnitOf <- MCUnitOf
    Groups = {both}
    Deep <- MCDeep
    StoredUnits <- MCUnits
    StoredLinks <- MCLinks
    StoredGraphic <- MCGraphic
    SuffixNames = {co2}
    Retypable = {CO2, kg}
    Rates = {1, 2}
    Visited <- MCVisited
    Fails = TRUE
    MaxFields = 2
    MaxRequests = 2
    MaxElsewhere = 1
INVARIANTS
    NothingOwed
    DefaultsFit
CHECK_DEADLOCK FALSE
