SPECIFICATION Spec
CONSTANTS
    m1 = m1
    m2 = m2
    energy = energy
    flow = flow
    Names = {m1, m2}
    NoName = NoName
    Units = {energy, flow}
    NoChoice = NoChoice
    Widest = Widest
    Absent = Absent
    Grouped = {m2}
    Entered <- MCEntered
    Files <- MCFiles
    MaxActs = 4
    MaxLosses = 1
INVARIANTS
    ListCurrent
    FileInOrder
PROPERTY
    OddOnlyUnchecked
CHECK_DEADLOCK FALSE
