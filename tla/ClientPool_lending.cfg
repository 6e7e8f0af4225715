SPECIFICATION FairSpec
CONSTANTS
    Clients = {c1, c2}
    Borrowers = {b1, b2}
    Commands = {k1}
    NoClient = NoClient
    NoBorrower = NoBorrower
    MaxSize = 1
    MinIdle = 1
    CountMod = 256
INVARIANTS TypeOK Ownership SlotsExact RegistriesExact
PROPERTIES AbandonRevalidated WaiterServed
CHECK_DEADLOCK FALSE
