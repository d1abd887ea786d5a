SPECIFICATION Spec
CONSTANTS
    energy = energy
    flow = flow
    slow = slow
    kwh = kwh
    gpm = gpm
    NoUnit = NoUnit
    Units = {energy, flow, slow}
    Graphics = {kwh, gpm}
    Kind <- MCKind
    Seconds <- MCSeconds
    Compatible <- MCCompatible
    LastTick = 4
    Entered <- MCEntered
    InFiles <- MCInFiles
    Limit <- MCLimit
    MaxEvents = 2
INVARIANTS
    SettingsKept
    ReadingsTrue
    
PROPERTY
    DeviceCaughtUp
