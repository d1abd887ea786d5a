SPECIFICATION LiveSpec
CONSTANTS
    Names = {"admin", "carla", "bea", "dorothy"}
    Short = {"bea"}
    Passwords = {"secret-a", "secret-b"}
    Tabs = {"t1", "t2"}
    Slots = {1, 2}
    MaxId = 3
    MaxActs = 2
    MaxDays = 1
    Logins <- MCLogins
    Opened <- MCOpened
    New <- MCNew
    Edits <- MCEdits
    Start <- MCStart
INVARIANTS SessionAgrees
PROPERTIES ChangesAuthorized ExpiryNoticed
CHECK_DEADLOCK FALSE
