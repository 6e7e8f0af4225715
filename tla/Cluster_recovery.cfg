SPECIFICATION FairSpec
CONSTANTS
    Requests = {r1, r2}
    Nodes = {n1, n2}
    NoNode = NoNode
    Tasks = {1, 2, 3, 4, 5}
    NoTask = NoTask
    Retries = 1
    Cap = 1
    Faults <- AllFaults
    Scenarios <- Settings
INVARIANTS AtMostOnce OnePlace QueueWillDrain EntryHasTask
PROPERTIES AttemptBeforeNotify RequestsEnd
CHECK_DEADLOCK FALSE
