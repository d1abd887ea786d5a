SPECIFICATION MCSpec
CONSTANTS
    fast = fast
    odd = odd
    daily = daily
    weekly = weekly
    None = None
    Meters <- MCMeters
    Meter <- MCMeter
    Uploads <- MCUploads
    Groups <- MCGroups
    Intervals <- MCIntervals
    Nows <- MCNows
    Hour = 2
    Unit = 144
    Widths = {1, 2}
    HoursEach = {1, 4, 12}
    MaxRaw = 60
    MaxHourly = 40
    Tabs = {t1, t2}
    Slots = {1, 2}
    Charts = {"line", "bar"}
    Titles = {"a", "b"}
    Dates = {0, 1, 2, 3}
    Numbers = {0}
    MaxActs = 4
    Start <- MCStart
INVARIANTS
    LinesTrue
    TotalsTrue
    CellsInPlace
    RowIsOneForm
    OwnSavesShown
