SPECIFICATION Spec
CONSTANTS
    na = na
    nb = nb
    nc = nc
    nd = nd
    Nodes <- Addresses
    Shards = {1, 2, 3, 4, 5, 6}
    NoShard = NoShard
    MaxSlot = 3
    Views <- Topologies
    NoView = NoView
    Queried = 3
    LastRetry = 1
    MaxMoved = 3
    MaxRefreshes = 2
INVARIANTS MapConsistent MovedTakesEffect ElectionFair
PROPERTIES OtherSlotsStay
CHECK_DEADLOCK FALSE
