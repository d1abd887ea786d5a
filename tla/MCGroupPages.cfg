SPECIFICATION Spec
CONSTANTS
    g1 = g1
    g2 = g2
    m1 = m1
    m2 = m2
    kWh = kWh
    MJ = MJ
    BTU = BTU
    power = power
    gas = gas
    here = here
    None = None
    Ids = {g1, g2}
    Meters = {m1, m2}
    Kinds = {power, gas}
    Compatible <- MCCompatible
    Places = {here}
    Stored <- MCStored
    Collected <- MCCollected
    Hurried = FALSE
    Fails = TRUE
    MaxSaves = 2
INVARIANTS
    SavesWhatIsShown
    NeverEmptied
PROPERTIES
    AcceptedChildrenFit
CHECK_DEADLOCK FALSE
