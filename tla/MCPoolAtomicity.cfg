SPECIFICATION Spec
CONSTANTS
    Borrowers = {b1, b2, b3}
    Conns = {c1, c2, c3}
    NoConn = NoConn
    Earlier = Earlier
    POOL_SIZE = 2
SYMMETRY PoolSymmetry
INVARIANT BlocksAreAtomic
