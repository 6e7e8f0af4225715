SPECIFICATION Spec
CONSTANTS
    Window = 1
    MinErrors = 2
    RateNum = 1
    RateDen = 2
    OpenTimeout = 1
    ConsecutiveSuccesses = 2
    MaxWindowRecords = 2
    Commands = {k1, k2, k3}
    Kinds = {"single", "pubsub", "scope", "batch"}
    Limit = 2
    MaxClones = 1
    CountTimeouts = TRUE
INVARIANTS BreakerConsistent InflightExact
SYMMETRY CommandSymmetry
