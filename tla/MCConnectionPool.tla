-------------------------- MODULE MCConnectionPool --------------------------
(* Instances of ConnectionPool for TLC.                                    *)
EXTENDS ConnectionPool

PoolSymmetry == Permutations(Borrowers) \cup Permutations(Conns)
=============================================================================
