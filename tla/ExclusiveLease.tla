--------------------------- MODULE ExclusiveLease ---------------------------
(***************************************************************************)
(* What the connection pool of backend/database.py promises its callers:   *)
(* a block `async with get_db() as db` owns its connection until it ends,  *)
(* and at most N blocks run at a time.  Where connections come from, how   *)
(* callers queue and which failures make a borrow end early is left to     *)
(* ConnectionPool, which implements this specification.                    *)
(***************************************************************************)
EXTENDS Integers, FiniteSets

CONSTANTS Borrowers,    \* tasks that open a get_db() block
          Conns,        \* connection identities
          NoConn,       \* "no connection"
          N             \* how many blocks may run at a time

VARIABLE lease          \* the connection each block owns, or NoConn

Leased == {lease[b] : b \in Borrowers} \ {NoConn}

Running == {b \in Borrowers : lease[b] # NoConn}

Init == lease = [b \in Borrowers |-> NoConn]

Grant(b) == /\ lease[b] = NoConn
            /\ Cardinality(Running) < N
            /\ \E c \in Conns \ Leased : lease' = [lease EXCEPT ![b] = c]

Return(b) == /\ lease[b] # NoConn
             /\ lease' = [lease EXCEPT ![b] = NoConn]

Next == \E b \in Borrowers : Grant(b) \/ Return(b)

Spec == Init /\ [][Next]_lease
=============================================================================
