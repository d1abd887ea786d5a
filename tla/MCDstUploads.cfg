SPECIFICATION Spec
CONSTANTS
    Spring = 3
    Fall = 9
    Saving = 2
    LastInstant = 12
    MinLength = 1
    MaxLength = 3
    Frequency = 1
    Missing = 0
    MixedDst = FALSE
    MaxRows = 5
    MaxBatches = 3
    Day = 24
    NoRow = NoRow
    Rows <- MCRows
    Configs <- MCConfigs
    Delivers <- MCDelivers
    MayFollow <- MCMayFollow
    Untils <- MCUntils
INVARIANTS
    TimesExact
    RatePreserved
PROPERTIES
    DropsOnlyRepeated
CHECK_DEADLOCK FALSE
