SPECIFICATION Spec
CONSTANTS
    LastTick = 6
    MaxLength = 2
    MaxRows = 3
    MaxBatches = 2
    NoRow = NoRow
    Day <- MCDay
    Rows <- MCRows
    Configs <- MCConfigs
    Delivers <- MCDelivers
    MayFollow <- MCMayFollow
    Untils <- MCUntils
    Shows <- MCShows
    Used <- MCUsed
INVARIANTS
    AcceptedAreExplained
    NeverOverAttributed
PROPERTIES
    InsertedWithinLimits
    KeepsLedger
CHECK_DEADLOCK FALSE
