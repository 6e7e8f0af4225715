SPECIFICATION Spec
CONSTANTS
    Dbs = {0}
    NoDb = NoDb
    Conns = {c1, c2}
    Users = {u1, u2}
    Dials = {d1, d2}
    Targets = {t1, t2}
    NoConn = NoConn
    NoUser = NoUser
    NoTarget = NoTarget
    MaxTotal = 1
    MaxResync = 1
    Scenarios <- Borrowing
SYMMETRY ScopeSymmetry
INVARIANTS ScopesIsolated SlotsSound
CHECK_DEADLOCK FALSE
