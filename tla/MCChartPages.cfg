SPECIFICATION Spec
CONSTANTS
    m1 = m1
    g1 = g1
    m2 = m2
    kWh = kWh
    C = C
    None = None
    Nought = Nought
    Names <- MCNames
    Members <- MCMembers
    Cik <- MCCik
    DefaultUnit <- MCDefaultUnit
    NoArea = {m2}
    Raw = {C}
    Charts = {"line", "threeD", "compareLine"}
    Intervals <- MCIntervals
    Preferred <- MCPreferred
    Links <- MCLinks
    MaxActs = 3
    MaxOdds = 1
    MaxUploads = 1
INVARIANTS ShownAsAsked LinkRecreates
CHECK_DEADLOCK FALSE
