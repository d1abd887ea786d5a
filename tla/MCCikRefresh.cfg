SPECIFICATION Spec
CONSTANTS
    meter = meter  kWh = kWh  carbon = carbon  kg = kg  ton = ton  gram = gram  pound = pound  co2 = co2  co = co
    Jobs = {j1, j2}
    BaseUnits = {meter, kWh, carbon, kg, ton, gram, pound}
    SuffixNames = {co2, co}
    NoSuffix = NoSuffix
    Absent = Absent
    Prime = 5
    InitUnits <- MCInitUnits
    InitConversions <- MCInitConversions
    ConversionAdds <- MCAdds
    ConversionEdits <- MCEdits
    ConversionDeletes <- MCDeletes
    UnitAdds <- MCUnitAdds
    UnitEdits <- MCUnitEdits
    UnitDeletes = {ton, gram}
    MaxStarts = 2
    MaxRequests = 1
INVARIANTS
    RefreshComplete
    CikSound
PROPERTIES
    RefreshIdempotent
CHECK_DEADLOCK FALSE
