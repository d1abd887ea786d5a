SPECIFICATION DagSpec
CONSTANTS
    Ids = {1, 2, 3}
    Existing = {1, 2}
    meter = meter
    Meters = {meter}
    Sessions = {s1, s2}
    Requests <- MCRequests
    None = None
    MaxRequests = 4
INVARIANTS
    CyclesNeedARace
    NoDanglingEdge
PROPERTIES
    EditsMerge
    RequestsAnswered
CHECK_DEADLOCK FALSE
