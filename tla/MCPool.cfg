SPECIFICATION FairSpec
CONSTANTS
    Borrowers = {b1, b2, b3}
    Conns = {c1, c2}
    NoConn = NoConn
    Earlier = Earlier
    POOL_SIZE = 2
INVARIANTS
    SlotsConserved
    ConnectionsExclusive
    NoLostWakeup
    UndoneStaysUndone
PROPERTIES ImplementsLease QueuedIsServed
