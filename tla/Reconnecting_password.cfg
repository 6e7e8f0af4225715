SPECIFICATION FairSpec
CONSTANTS
    Refreshers = {background}
    Ttl = 1
    MaxGenerations = 1
    MaxVersion = 1
    Users = {u1, u2}
    Conns = {c1, c2}
    Tasks = {t1, t2}
    NoConn = NoConn
    NoUser = NoUser
    Modes = {"static"}
    Bounds <- BoundsPerMode
    MaxPasswords = 1
PROPERTY PasswordUpdateReconnects
CHECK_DEADLOCK FALSE
