SPECIFICATION FairSpec
CONSTANTS
    r1 = r1
    r2 = r2
    r3 = r3
    k1 = k1
    k2 = k2
    Calls = {r1, r2, r3}
    NoCall = NoCall
    Keys = {k1, k2}
    Scenarios <- Settings
    Capacity = 1
    MaxMemory = 3
    MaxFaults = 2
    MaxBreaks = 1
    MaxWrites = 2
INVARIANTS OwnReplies SendErrorUnseen StaleIsAnnounced FillsHeld CacheExact
PROPERTIES CallsEnd
CHECK_DEADLOCK FALSE
