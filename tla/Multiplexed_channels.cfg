SPECIFICATION Spec
CONSTANTS
    r1 = r1
    r2 = r2
    r3 = r3
    k1 = k1
    k2 = k2
    Calls = {r1, r2, r3}
    NoCall = NoCall
    Keys = {k1, k2}
    Scenarios <- TwoChannels
    Capacity = 1
    MaxMemory = 3
    MaxFaults = 0
    MaxBreaks = 0
    MaxWrites = 0
INVARIANT OwnReplies
CHECK_DEADLOCK FALSE
