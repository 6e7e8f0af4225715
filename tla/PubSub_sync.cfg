SPECIFICATION FairSpec
CONSTANTS
    Exact = {e, f}
    Sharded = {s}
    Nodes = {n1, n2}
    NoNode = NoNode
    Callers = {u}
    Anywhere = Anywhere
    Deployments <- Settings
    MaxChanges = 2
    MaxFaults = 1
    MaxBreaks = 1
    MaxMoves = 2
INVARIANT TypeOK
PROPERTIES ImplementsService ServersSettle NoDoubleDelivery TaskEnds
CHECK_DEADLOCK FALSE
