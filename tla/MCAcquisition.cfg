CONSTANTS
    f1 = f1
    f2 = f2
    c1 = c1
    s1 = s1
    r1 = r1
    r2 = r2
    Mailers = {m1}
    Web = web
    MaxFaults = 1
    Slots = {r1, r2}
    Files = {f1, f2}
    Configs = {c1}
    NoConfig = NoConfig
    Width <- MCWidth
    Described <- MCDescribed
    Serial <- MCSerial
    Bundles <- MCBundles
    Messages <- MCMessages
SPECIFICATION Spec
INVARIANTS SuccessMeant ErrorsKept
PROPERTIES QueueDrains UploadsHeard
CHECK_DEADLOCK FALSE
