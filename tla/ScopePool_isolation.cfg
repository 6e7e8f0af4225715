SPECIFICATION Spec
CONSTANTS
    Dbs = {0, 1}
    NoDb = NoDb
    Conns = {c1, c2}
    Users = {u1}
    Dials = {d1}
    Targets = {t1}
    NoConn = NoConn
    NoUser = NoUser
    NoTarget = NoTarget
    MaxTotal = 1
    MaxResync = 2
    Scenarios <- Tracking
SYMMETRY ScopeSymmetry
INVARIANTS IdleIsPristine
PROPERTIES BorrowOnRuntimeDb
