--------------------------- MODULE ConnectionPool ---------------------------
(***************************************************************************)
(* The SQLite connection pool of backend/database.py: a semaphore of       *)
(* POOL_SIZE slots, a list of idle connections, and the get_db() context   *)
(* manager that borrows a connection, commits or rolls back, and returns   *)
(* it.  Every `await` is a point where another task runs or the borrower   *)
(* is cancelled, so every action below is the code between two awaits.     *)
(*                                                                         *)
(* A transaction is abstracted to the set of blocks whose uncommitted      *)
(* writes it holds; SQLite lets one connection at a time hold writes.      *)
(***************************************************************************)
EXTENDS Integers, Sequences, FiniteSets, SequencesExt

CONSTANTS Borrowers,    \* tasks that open get_db() blocks, one at a time each
          Conns,        \* identities of the connections ever opened (a bound)
          NoConn,       \* "no connection"
          Earlier,      \* any block that its task has followed by another
          POOL_SIZE     \* _POOL_SIZE

ASSUME PoolAssumption == /\ POOL_SIZE \in Nat \ {0}
                         /\ IsFiniteSet(Borrowers)
                         /\ NoConn \notin Conns
                         /\ Earlier \notin Borrowers

VARIABLES
    slots,      \* value of the semaphore _pool
    waiters,    \* tasks queued in _pool.acquire(), in order of arrival
    idle,       \* _connections; list.pop() takes from the end
    pc,         \* where each borrower is, see Phases
    conn,       \* the connection a borrower has in hand
    open,       \* connections whose SQLite handle is open
    pending,    \* blocks whose writes are in the connection's open transaction
    durable,    \* blocks whose writes have been committed
    completed,  \* blocks whose body ran to its end
    undone,     \* blocks whose rollback() succeeded
    closeAt     \* position of close_db() in the idle list

poolVars == <<slots, waiters, idle, pc, conn, open, closeAt>>
txVars   == <<pending, durable, completed, undone>>
vars     == <<poolVars, txVars>>

Phases == {"out",        \* no block open
           "queued",     \* awaiting the semaphore
           "granted",    \* its future is set: the slot is its own
           "probing",    \* awaiting SELECT 1 on a connection popped from idle
           "creating",   \* awaiting _create_connection()
           "body",       \* inside the with block
           "commit",     \* awaiting conn.commit()
           "rollback"}   \* awaiting conn.rollback()

WithConn == {"probing", "body", "commit", "rollback"}
Active   == WithConn \cup {"creating"}
WithSlot == Active \cup {"granted"}

In(phases) == {b \in Borrowers : pc[b] \in phases}

NotClosing == 0
CloseDone  == POOL_SIZE + 1

Init ==
    /\ slots = POOL_SIZE
    /\ waiters = <<>>
    /\ idle = <<>>
    /\ pc = [b \in Borrowers |-> "out"]
    /\ conn = [b \in Borrowers |-> NoConn]
    /\ open = {}
    /\ pending = [c \in Conns |-> {}]
    /\ durable = {}
    /\ completed = {}
    /\ undone = {}
    /\ closeAt = NotClosing

-----------------------------------------------------------------------------
(* asyncio.Semaphore, as the pool uses it.                                 *)

Locked == slots = 0 \/ waiters # <<>> \/ In({"granted"}) # {}

\* The semaphore value becomes n and the queue ws; the first waiter, if a
\* slot is free for it, is granted that slot.
Wake(n, ws, pcs) ==
    \/ /\ n > 0 /\ ws # <<>>
       /\ slots' = n - 1
       /\ waiters' = Tail(ws)
       /\ pc' = [pcs EXCEPT ![Head(ws)] = "granted"]
    \/ /\ n = 0 \/ ws = <<>>
       /\ slots' = n
       /\ waiters' = ws
       /\ pc' = pcs

\* pool.release() by b, which leaves the block.
ReleaseSlot(b) == Wake(slots + 1, waiters, [pc EXCEPT ![b] = "out"])

-----------------------------------------------------------------------------
(* get_connection()                                                        *)

\* With a slot in hand and no await in between: pop an idle connection and
\* probe it, or start to create one.
NextPhase == IF idle # <<>> THEN "probing" ELSE "creating"

\* A variant that reads _connections[-1] and leaves it in the list.
TakeIdleWithoutPop(b) ==
    IF idle # <<>>
    THEN /\ conn' = [conn EXCEPT ![b] = Last(idle)]
         /\ UNCHANGED idle
    ELSE UNCHANGED <<conn, idle>>

TakeIdle(b) ==
    IF idle # <<>>
    THEN /\ conn' = [conn EXCEPT ![b] = Last(idle)]
         /\ idle' = Front(idle)
    ELSE UNCHANGED <<conn, idle>>

\* b stands for the latest block of a task: writes that an earlier one left in
\* an open transaction become Earlier's.
Renamed(writers, b) ==
    IF b \in writers THEN (writers \ {b}) \cup {Earlier} ELSE writers

NewBlock(b) == /\ durable' = durable \ {b}
               /\ completed' = completed \ {b}
               /\ undone' = undone \ {b}
               /\ pending' = [c \in Conns |-> Renamed(pending[c], b)]

Acquire(b) ==
    /\ pc[b] = "out"
    /\ ~Locked
    /\ slots' = slots - 1
    /\ pc' = [pc EXCEPT ![b] = NextPhase]
    /\ TakeIdle(b)
    /\ NewBlock(b)
    /\ UNCHANGED <<waiters, open, closeAt>>

Enqueue(b) ==
    /\ pc[b] = "out"
    /\ Locked
    /\ waiters' = Append(waiters, b)
    /\ pc' = [pc EXCEPT ![b] = "queued"]
    /\ NewBlock(b)
    /\ UNCHANGED <<slots, idle, conn, open, closeAt>>

\* A variant of acquire() that does not wake the next waiter.
ResumeSilently(b) ==
    /\ pc[b] = "granted"
    /\ pc' = [pc EXCEPT ![b] = NextPhase]
    /\ TakeIdle(b)
    /\ UNCHANGED <<slots, waiters, open, closeAt, txVars>>

\* acquire() returns in a granted task, after waking one more waiter if
\* another slot is free.
Resume(b) ==
    /\ pc[b] = "granted"
    /\ Wake(slots, waiters, [pc EXCEPT ![b] = NextPhase])
    /\ TakeIdle(b)
    /\ UNCHANGED <<open, closeAt, txVars>>

ProbeOk(b) ==
    /\ pc[b] = "probing"
    /\ conn[b] \in open
    /\ pc' = [pc EXCEPT ![b] = "body"]
    /\ UNCHANGED <<slots, waiters, idle, conn, open, closeAt, txVars>>

\* SELECT 1 raises: the connection is dropped without being closed.
ProbeFail(b) ==
    /\ pc[b] = "probing"
    /\ pc' = [pc EXCEPT ![b] = "creating"]
    /\ conn' = [conn EXCEPT ![b] = NoConn]
    /\ UNCHANGED <<slots, waiters, idle, open, closeAt, txVars>>

Unused == Conns \ (open \cup Range(idle) \cup {conn[b] : b \in Borrowers})

CreateOk(b) ==
    /\ pc[b] = "creating"
    /\ \E c \in Unused : /\ conn' = [conn EXCEPT ![b] = c]
                         /\ open' = open \cup {c}
    /\ pc' = [pc EXCEPT ![b] = "body"]
    /\ UNCHANGED <<slots, waiters, idle, closeAt, txVars>>

\* The code before FIX-06: a failed borrow keeps its slot.
AbandonWithoutRelease(b) ==
    /\ pc[b] \in {"probing", "creating"}
    /\ pc' = [pc EXCEPT ![b] = "out"]
    /\ conn' = [conn EXCEPT ![b] = NoConn]
    /\ UNCHANGED <<slots, waiters, idle, open, closeAt, txVars>>

\* _create_connection() raises, or the borrower is cancelled in it or in the
\* probe: `except BaseException` gives the slot back and the block never opens.
AbandonBorrow(b) ==
    /\ pc[b] \in {"probing", "creating"}
    /\ ReleaseSlot(b)
    /\ conn' = [conn EXCEPT ![b] = NoConn]
    /\ UNCHANGED <<idle, open, closeAt, txVars>>

-----------------------------------------------------------------------------
(* get_db() and release_connection()                                       *)

\* release_connection(conn[b]): back to the idle list while it has room, else
\* left to a closing thread; then exactly one pool.release().
ReleaseConnection(b) ==
    /\ ReleaseSlot(b)
    /\ conn' = [conn EXCEPT ![b] = NoConn]
    /\ IF Len(idle) < POOL_SIZE
       THEN /\ idle' = Append(idle, conn[b])
            /\ open' = open
       ELSE /\ idle' = idle
            /\ open' = open \ {conn[b]}
    /\ UNCHANGED closeAt

\* A write statement succeeds only if no other connection holds the write lock.
Write(b) ==
    /\ pc[b] = "body"
    /\ b \notin pending[conn[b]]
    /\ \A c \in Conns \ {conn[b]} : pending[c] = {}
    /\ pending' = [pending EXCEPT ![conn[b]] = @ \cup {b}]
    /\ UNCHANGED <<poolVars, durable, completed, undone>>

BodyEnds(b) ==
    /\ pc[b] = "body"
    /\ pc' = [pc EXCEPT ![b] = "commit"]
    /\ completed' = completed \cup {b}
    /\ UNCHANGED <<slots, waiters, idle, conn, open, closeAt,
                   pending, durable, undone>>

\* The body raises ("database is locked" among others), or commit() does.
Raises(b) ==
    /\ pc[b] \in {"body", "commit"}
    /\ pc' = [pc EXCEPT ![b] = "rollback"]
    /\ UNCHANGED <<slots, waiters, idle, conn, open, closeAt, txVars>>

\* commit() succeeds, whether or not the task awaiting it has been cancelled:
\* the connection's thread runs it.
Commit(b) ==
    /\ pc[b] = "commit"
    /\ durable' = durable \cup (pending[conn[b]] \ {Earlier})
    /\ pending' = [pending EXCEPT ![conn[b]] = {}]
    /\ ReleaseConnection(b)
    /\ UNCHANGED <<completed, undone>>

\* A variant without the `await conn.rollback()`.
RollbackSkipped(b) ==
    /\ pc[b] = "rollback"
    /\ undone' = undone \cup (pending[conn[b]] \ {Earlier})
    /\ ReleaseConnection(b)
    /\ UNCHANGED <<pending, durable, completed>>

Rollback(b) ==
    /\ pc[b] = "rollback"
    /\ undone' = undone \cup (pending[conn[b]] \ {Earlier})
    /\ pending' = [pending EXCEPT ![conn[b]] = {}]
    /\ ReleaseConnection(b)
    /\ UNCHANGED <<durable, completed>>

RollbackFails(b) ==
    /\ pc[b] = "rollback"
    /\ ReleaseConnection(b)
    /\ UNCHANGED txVars

\* CancelledError is not an Exception: get_db() runs its finally clause only.
CancelBlock(b) ==
    /\ pc[b] \in {"body", "commit"}
    /\ ReleaseConnection(b)
    /\ UNCHANGED txVars

CancelQueued(b) ==
    /\ pc[b] = "queued"
    /\ \E i \in 1..Len(waiters) : /\ waiters[i] = b
                                  /\ waiters' = RemoveAt(waiters, i)
    /\ pc' = [pc EXCEPT ![b] = "out"]
    /\ UNCHANGED <<slots, idle, conn, open, closeAt, txVars>>

\* A variant where a cancelled task keeps the slot it was just granted.
CancelGrantedKeepsSlot(b) ==
    /\ pc[b] = "granted"
    /\ pc' = [pc EXCEPT ![b] = "out"]
    /\ UNCHANGED <<slots, waiters, idle, conn, open, closeAt, txVars>>

CancelGranted(b) ==
    /\ pc[b] = "granted"
    /\ ReleaseSlot(b)
    /\ UNCHANGED <<idle, conn, open, closeAt, txVars>>

-----------------------------------------------------------------------------
(* close_db(): `for conn in _connections: await conn.close()`, then clear. *)
(* SQLite rolls back what a closed connection had not committed.           *)

CloseVisit(i) ==
    /\ IF i <= Len(idle)
       THEN /\ closeAt' = i
            /\ open' = open \ {idle[i]}
            /\ pending' = [pending EXCEPT ![idle[i]] = {}]
            /\ UNCHANGED idle
       ELSE /\ closeAt' = CloseDone
            /\ idle' = <<>>
            /\ UNCHANGED <<open, pending>>
    /\ UNCHANGED <<slots, waiters, pc, conn, durable, completed, undone>>

CloseDb == closeAt = NotClosing /\ CloseVisit(1)

CloseResume == closeAt \in 1..POOL_SIZE /\ CloseVisit(closeAt + 1)

-----------------------------------------------------------------------------
\* What a borrower does of itself once it has asked for a connection.
Advance(b) == \/ Resume(b) \/ ProbeOk(b) \/ ProbeFail(b)
              \/ CreateOk(b) \/ AbandonBorrow(b)
              \/ BodyEnds(b) \/ Raises(b)
              \/ Commit(b) \/ Rollback(b) \/ RollbackFails(b)

Cancel(b) == CancelBlock(b) \/ CancelQueued(b) \/ CancelGranted(b)

Next == \/ \E b \in Borrowers : \/ Acquire(b) \/ Enqueue(b)
                                \/ Write(b) \/ Advance(b) \/ Cancel(b)
        \/ CloseDb \/ CloseResume

Spec == Init /\ [][Next]_vars

\* Every statement a block awaits ends (SQLite's busy_timeout bounds it), so
\* the event loop eventually runs a borrower that is not waiting for a slot.
FairSpec == Spec /\ \A b \in Borrowers : WF_vars(Advance(b))

-----------------------------------------------------------------------------
(* Properties.                                                             *)

\* The variables have their types; a borrower has a connection in hand
\* exactly in the phases of get_db() that use one.
TypeOK ==
    /\ slots \in 0..POOL_SIZE
    /\ waiters \in Seq(Borrowers)
    /\ idle \in Seq(Conns)
    /\ pc \in [Borrowers -> Phases]
    /\ conn \in [Borrowers -> Conns \cup {NoConn}]
    /\ \A b \in Borrowers : conn[b] # NoConn <=> pc[b] \in WithConn
    /\ open \in SUBSET Conns
    /\ pending \in [Conns -> SUBSET (Borrowers \cup {Earlier})]
    /\ durable \in SUBSET Borrowers
    /\ completed \in SUBSET Borrowers
    /\ undone \in SUBSET Borrowers
    /\ closeAt \in 0..CloseDone

\* FIX-06, "exactly one release per acquire": whatever raises or is cancelled,
\* between two steps every slot is free or belongs to one borrower.
SlotsConserved == slots + Cardinality(In(WithSlot)) = POOL_SIZE

\* A connection is never in the hands of two borrowers, nor lent while it is in
\* the idle list, nor twice in that list.
ConnectionsExclusive ==
    /\ \A a, b \in Borrowers : a # b /\ conn[a] = conn[b] => conn[a] = NoConn
    /\ \A b \in Borrowers, i \in 1..Len(idle) : conn[b] # idle[i]
    /\ \A i, j \in 1..Len(idle) : i # j => idle[i] # idle[j]

\* The idle list always has room for every connection in use or being opened:
\* release_connection() never takes its "pool full, close" branch.
PoolHasRoom == Len(idle) + Cardinality(In(Active)) <= POOL_SIZE

\* The semaphore's queue holds tasks that still wait, each of them once: no slot
\* is ever granted to a task that has been cancelled or already served.
QueueHoldsWaiters ==
    /\ \A i \in 1..Len(waiters) : pc[waiters[i]] = "queued"
    /\ \A i, j \in 1..Len(waiters) : i # j => waiters[i] # waiters[j]

\* A free slot with somebody queued means a granted task has still to run and
\* will wake the next one: no wakeup is lost when waiters are cancelled.
NoLostWakeup == slots > 0 /\ waiters # <<>> => In({"granted"}) # {}

\* What a rollback() has undone stays undone: no later commit on the same
\* connection, by whichever borrower, makes any of it durable.
UndoneStaysUndone == durable \cap undone = {}

\* A task queued for a connection gets a slot or is cancelled, whatever fails
\* in the blocks before it.
QueuedIsServed ==
    \A b \in Borrowers : pc[b] = "queued" ~> pc[b] # "queued"

\* The pool implements exclusive leases of at most POOL_SIZE connections.
lease == [b \in Borrowers |-> IF pc[b] \in {"body", "commit", "rollback"}
                              THEN conn[b] ELSE NoConn]
Lease == INSTANCE ExclusiveLease WITH N <- POOL_SIZE
ImplementsLease == Lease!Spec

\* "full atomicity across multi-source writes": only blocks that ran to their
\* end have durable writes.
BlocksAreAtomic == durable \subseteq completed

=============================================================================
