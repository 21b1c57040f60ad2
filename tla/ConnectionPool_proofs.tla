------------------------ MODULE ConnectionPool_proofs ------------------------
(***************************************************************************)
(* Safety of the connection pool for every number of borrowers,            *)
(* connections and slots.  The inductive invariant is the conjunction of   *)
(* TypeOK, QueueHoldsWaiters, SlotsConserved, PoolHasRoom and              *)
(* ConnectionsExclusive: a step that grants a slot relies on the head of   *)
(* the queue not having one yet, and a step that opens a connection relies *)
(* on the slot that pays for it.                                           *)
(***************************************************************************)
EXTENDS ConnectionPool, FiniteSetTheorems, SequenceTheorems, TLAPS

\* The borrowers that f puts in one of the given phases.
At(f, phases) == {b \in Borrowers : f[b] \in phases}

\* QueueHoldsWaiters of an arbitrary queue and phase function.
QueueOf(ws, f) ==
    /\ \A i \in 1..Len(ws) : f[ws[i]] = "queued"
    /\ \A i, j \in 1..Len(ws) : i # j => ws[i] # ws[j]

\* Every set of borrowers is finite, so it has a number of elements.
LEMMA AtFinite ==
    ASSUME NEW f, NEW phases
    PROVE  /\ IsFiniteSet(At(f, phases))
           /\ Cardinality(At(f, phases)) \in Nat
<1>1. At(f, phases) \in SUBSET Borrowers  BY DEF At
<1>2. IsFiniteSet(At(f, phases))  BY <1>1, PoolAssumption, FS_Subset
<1> QED  BY <1>2, FS_CardinalityType

\* A borrower that enters a set of phases adds one to its population.
LEMMA Enter ==
    ASSUME NEW f \in [Borrowers -> Phases], NEW b \in Borrowers,
           NEW p \in Phases, NEW phases, p \in phases, f[b] \notin phases
    PROVE  Cardinality(At([f EXCEPT ![b] = p], phases))
             = Cardinality(At(f, phases)) + 1
<1>1. At([f EXCEPT ![b] = p], phases) = At(f, phases) \cup {b}  BY DEF At
<1>2. b \notin At(f, phases)  BY DEF At
<1> QED  BY <1>1, <1>2, AtFinite, FS_AddElement

\* A borrower that leaves a set of phases takes one from its population.
LEMMA Leave ==
    ASSUME NEW f \in [Borrowers -> Phases], NEW b \in Borrowers,
           NEW p \in Phases, NEW phases, p \notin phases, f[b] \in phases
    PROVE  Cardinality(At([f EXCEPT ![b] = p], phases))
             = Cardinality(At(f, phases)) - 1
<1>1. At([f EXCEPT ![b] = p], phases) = At(f, phases) \ {b}  BY DEF At
<1>2. b \in At(f, phases)  BY DEF At
<1> QED  BY <1>1, <1>2, AtFinite, FS_RemoveElement

\* A borrower that stays inside or outside a set of phases changes nothing.
LEMMA Stay ==
    ASSUME NEW f \in [Borrowers -> Phases], NEW b \in Borrowers,
           NEW p \in Phases, NEW phases, p \in phases <=> f[b] \in phases
    PROVE  Cardinality(At([f EXCEPT ![b] = p], phases))
             = Cardinality(At(f, phases))
<1>1. At([f EXCEPT ![b] = p], phases) = At(f, phases)  BY DEF At
<1> QED  BY <1>1

\* Waking a waiter hands it one of the n free slots; nobody else moves.
LEMMA WakeStep ==
    ASSUME NEW n \in Nat, NEW ws \in Seq(Borrowers),
           NEW f \in [Borrowers -> Phases],
           QueueOf(ws, f), Wake(n, ws, f)
    PROVE  /\ slots' \in Nat
           /\ waiters' \in Seq(Borrowers)
           /\ pc' \in [Borrowers -> Phases]
           /\ QueueOf(waiters', pc')
           /\ slots' + Cardinality(At(pc', WithSlot))
                = n + Cardinality(At(f, WithSlot))
           /\ \A b \in Borrowers :
                \/ pc'[b] = f[b]
                \/ f[b] = "queued" /\ pc'[b] = "granted"
<1>1. CASE n > 0 /\ ws # <<>>
  <2>1. /\ slots' = n - 1
        /\ waiters' = Tail(ws)
        /\ pc' = [f EXCEPT ![Head(ws)] = "granted"]
    BY <1>1 DEF Wake
  <2>2. Head(ws) \in Borrowers /\ f[Head(ws)] = "queued"
    BY <1>1 DEF QueueOf
  <2>3. "granted" \in Phases /\ "granted" \in WithSlot /\ "queued" \notin WithSlot
    BY DEF Phases, WithSlot, Active, WithConn
  <2>4. Cardinality(At(pc', WithSlot)) = Cardinality(At(f, WithSlot)) + 1
    BY <2>1, <2>2, <2>3, Enter
  <2>5. QueueOf(waiters', pc')
    <3>1. \A i \in 1..Len(Tail(ws)) : i + 1 \in 1..Len(ws) /\ Tail(ws)[i] = ws[i + 1]
      BY <1>1
    <3>2. \A i \in 1..Len(Tail(ws)) : Tail(ws)[i] # Head(ws)
      BY <1>1, <3>1 DEF QueueOf
    <3> QED  BY <2>1, <2>2, <3>1, <3>2 DEF QueueOf
  <2>6. waiters' \in Seq(Borrowers)  BY <1>1, <2>1
  <2>7. slots' + Cardinality(At(pc', WithSlot))
          = n + Cardinality(At(f, WithSlot))
    BY <1>1, <2>1, <2>4, AtFinite
  <2>8. pc' \in [Borrowers -> Phases]
    BY <2>1, <2>3
  <2>9. \A b \in Borrowers :
          \/ pc'[b] = f[b]
          \/ f[b] = "queued" /\ pc'[b] = "granted"
    BY <2>1, <2>2
  <2>10. slots' \in Nat
    BY <1>1, <2>1
  <2> QED  BY <2>5, <2>6, <2>7, <2>8, <2>9, <2>10
<1>2. CASE n = 0 \/ ws = <<>>
  BY <1>2, AtFinite DEF Wake, QueueOf
<1> QED  BY <1>1, <1>2

-----------------------------------------------------------------------------
(* The inductive invariant.                                                *)

IInv == TypeOK /\ QueueHoldsWaiters /\ SlotsConserved
               /\ PoolHasRoom /\ ConnectionsExclusive

\* The phase sets, spelled out.
LEMMA PhaseFacts ==
    /\ Phases = {"out", "queued", "granted", "probing", "creating",
                 "body", "commit", "rollback"}
    /\ WithConn = {"probing", "body", "commit", "rollback"}
    /\ Active = {"probing", "body", "commit", "rollback", "creating"}
    /\ WithSlot = {"probing", "body", "commit", "rollback", "creating", "granted"}
BY DEF Phases, WithConn, Active, WithSlot

\* In(phases) is At for the current phases; active borrowers hold slots.
LEMMA InIsAt == \A phases : In(phases) = At(pc, phases)
BY DEF In, At

\* There are never more active borrowers than borrowers with a slot.
LEMMA ActiveHaveSlots ==
    ASSUME NEW f
    PROVE  Cardinality(At(f, Active)) <= Cardinality(At(f, WithSlot))
<1>1. At(f, Active) \in SUBSET At(f, WithSlot)  BY DEF At, WithSlot
<1> QED  BY <1>1, AtFinite, FS_Subset

\* b moves to phase p, n slots are left before waiters are woken, and the
\* slots still add up: after the wakeup they do as well, and only b can have
\* entered or left an active phase.
LEMMA SlotMove ==
    ASSUME TypeOK, QueueHoldsWaiters,
           NEW b \in Borrowers, NEW p \in Phases, p # "queued",
           pc[b] # "queued", NEW n \in Nat,
           n + Cardinality(At([pc EXCEPT ![b] = p], WithSlot)) = POOL_SIZE,
           Wake(n, waiters, [pc EXCEPT ![b] = p])
    PROVE  /\ slots' \in 0..POOL_SIZE
           /\ waiters' \in Seq(Borrowers)
           /\ pc' \in [Borrowers -> Phases]
           /\ QueueHoldsWaiters'
           /\ SlotsConserved'
           /\ pc'[b] = p
           /\ \A a \in Borrowers \ {b} : pc'[a] \in WithConn <=> pc[a] \in WithConn
           /\ Cardinality(At(pc', Active))
                = Cardinality(At([pc EXCEPT ![b] = p], Active))
<1> DEFINE f == [pc EXCEPT ![b] = p]
<1>1. f \in [Borrowers -> Phases] /\ waiters \in Seq(Borrowers)  BY DEF TypeOK
<1>2. QueueOf(waiters, f)
  BY <1>1 DEF TypeOK, QueueHoldsWaiters, QueueOf
<1> HIDE DEF f
<1>3. /\ slots' \in Nat
      /\ waiters' \in Seq(Borrowers)
      /\ pc' \in [Borrowers -> Phases]
      /\ QueueOf(waiters', pc')
      /\ slots' + Cardinality(At(pc', WithSlot))
           = n + Cardinality(At(f, WithSlot))
      /\ \A a \in Borrowers : \/ pc'[a] = f[a]
                              \/ f[a] = "queued" /\ pc'[a] = "granted"
  BY <1>1, <1>2, WakeStep DEF f
<1>4. slots' \in 0..POOL_SIZE
  BY <1>3, AtFinite, PoolAssumption DEF f
<1>5. QueueHoldsWaiters'
  BY <1>3 DEF QueueOf, QueueHoldsWaiters
<1>6. SlotsConserved'
  BY <1>3 DEF f, SlotsConserved, In, At
<1>7. pc'[b] = p
  BY <1>3 DEF f, TypeOK
<1>8. \A a \in Borrowers \ {b} : pc'[a] \in WithConn <=> pc[a] \in WithConn
  BY <1>3, PhaseFacts DEF f, TypeOK
<1>9. At(pc', Active) = At(f, Active)
  BY <1>3, PhaseFacts DEF At
<1> QED  BY <1>3, <1>4, <1>5, <1>6, <1>7, <1>8, <1>9 DEF f

-----------------------------------------------------------------------------
(* Each action preserves the invariant.                                    *)

\* Sequence facts about the idle list.
LEMMA FrontFacts ==
    ASSUME NEW s \in Seq(Conns), s # <<>>
    PROVE  /\ Front(s) \in Seq(Conns)
           /\ Len(Front(s)) = Len(s) - 1
           /\ Last(s) \in Conns
           /\ Len(s) \in 1..Len(s)
           /\ \A i \in 1..Len(Front(s)) : Front(s)[i] = s[i] /\ i \in 1..Len(s)
<1>1. Len(s) \in Nat /\ Len(s) >= 1  OBVIOUS
<1>2. Front(s) \in Seq(Conns) /\ Len(Front(s)) = Len(s) - 1
  BY <1>1 DEF Front
<1>3. Last(s) \in Conns  BY <1>1 DEF Last
<1>4. \A i \in 1..Len(Front(s)) : Front(s)[i] = s[i] /\ i \in 1..Len(s)
  BY <1>1, <1>2 DEF Front
<1> QED  BY <1>1, <1>2, <1>3, <1>4

\* Popping the end of the idle list keeps every connection in one place.
LEMMA TakeIdleStep ==
    ASSUME TypeOK, ConnectionsExclusive, NEW b \in Borrowers,
           pc[b] \notin WithConn, TakeIdle(b)
    PROVE  /\ idle' \in Seq(Conns)
           /\ conn' \in [Borrowers -> Conns \cup {NoConn}]
           /\ conn'[b] # NoConn <=> NextPhase \in WithConn
           /\ \A a \in Borrowers \ {b} : conn'[a] = conn[a]
           /\ ConnectionsExclusive'
           /\ NextPhase \in {"probing", "creating"}
           /\ idle # <<>> => Len(idle') = Len(idle) - 1
           /\ idle = <<>> => Len(idle') = 0
<1>1. NextPhase \in {"probing", "creating"}  BY DEF NextPhase
<1>2. CASE idle # <<>>
  <2>1. /\ conn' = [conn EXCEPT ![b] = Last(idle)]
        /\ idle' = Front(idle)
        /\ NextPhase = "probing"
    BY <1>2 DEF TakeIdle, NextPhase
  <2>2. /\ idle' \in Seq(Conns)
        /\ Len(idle') = Len(idle) - 1
        /\ Last(idle) \in Conns
        /\ Last(idle) = idle[Len(idle)] /\ Len(idle) \in 1..Len(idle)
        /\ \A i \in 1..Len(idle') : idle'[i] = idle[i] /\ i \in 1..Len(idle)
    BY <1>2, <2>1, FrontFacts DEF TypeOK, Last
  <2>3. Len(idle) \in Nat  BY DEF TypeOK
  <2>4. \A i \in 1..Len(idle') : idle'[i] # Last(idle)
    BY <2>2, <2>3 DEF ConnectionsExclusive
  <2>5. \A i, j \in 1..Len(idle') : i # j => idle'[i] # idle'[j]
    BY <2>2 DEF ConnectionsExclusive
  <2>6. \A a \in Borrowers : conn'[a] = IF a = b THEN Last(idle) ELSE conn[a]
    BY <2>1 DEF TypeOK
  <2>7. \A a \in Borrowers, i \in 1..Len(idle') : conn'[a] # idle'[i]
    BY <2>2, <2>4, <2>6 DEF ConnectionsExclusive
  <2>8. \A a \in Borrowers : conn[a] # Last(idle)
    BY <2>2 DEF ConnectionsExclusive
  <2>9. \A a, c \in Borrowers : a # c /\ conn'[a] = conn'[c] => conn'[a] = NoConn
    BY <2>6, <2>8 DEF ConnectionsExclusive
  <2>10. ConnectionsExclusive'
    BY <2>5, <2>7, <2>9 DEF ConnectionsExclusive
  <2>11. conn' \in [Borrowers -> Conns \cup {NoConn}]
    BY <2>1, <2>2 DEF TypeOK
  <2>12. conn'[b] # NoConn /\ NextPhase \in WithConn
    BY <2>1, <2>2, <2>6, PhaseFacts, PoolAssumption
  <2> QED  BY <1>1, <1>2, <2>2, <2>6, <2>10, <2>11, <2>12
<1>3. CASE idle = <<>>
  <2>1. conn' = conn /\ idle' = idle /\ NextPhase = "creating"
    BY <1>3 DEF TakeIdle, NextPhase
  <2>2. conn[b] = NoConn  BY DEF TypeOK
  <2>3. NextPhase \notin WithConn  BY <2>1, PhaseFacts
  <2>4. ConnectionsExclusive'  BY <2>1 DEF ConnectionsExclusive
  <2> QED  BY <1>1, <1>3, <2>1, <2>2, <2>3, <2>4 DEF TypeOK
<1> QED  BY <1>2, <1>3

\* Borrowing with a slot in hand: room in the pool is what the popped entry
\* gives up, or, when the idle list is empty, what the slot guarantees.
LEMMA ResumeStep ==
    ASSUME IInv, NEW b \in Borrowers, Resume(b)
    PROVE  IInv'
<1> USE DEF IInv
<1>1. /\ pc[b] = "granted"
      /\ Wake(slots, waiters, [pc EXCEPT ![b] = NextPhase])
      /\ TakeIdle(b)
      /\ UNCHANGED <<open, closeAt, pending, durable, completed, undone>>
  BY DEF Resume, txVars
<1>2. /\ pc \in [Borrowers -> Phases] /\ slots \in Nat
      /\ pc[b] \notin WithConn /\ pc[b] \notin Active /\ pc[b] \in WithSlot
  BY <1>1, PhaseFacts DEF TypeOK
<1>3. /\ idle' \in Seq(Conns)
      /\ conn' \in [Borrowers -> Conns \cup {NoConn}]
      /\ conn'[b] # NoConn <=> NextPhase \in WithConn
      /\ \A a \in Borrowers \ {b} : conn'[a] = conn[a]
      /\ ConnectionsExclusive'
      /\ NextPhase \in {"probing", "creating"}
      /\ idle # <<>> => Len(idle') = Len(idle) - 1
      /\ idle = <<>> => Len(idle') = 0
  BY <1>1, <1>2, TakeIdleStep
<1>4. /\ NextPhase \in Phases /\ NextPhase # "queued"
      /\ NextPhase \in WithSlot /\ NextPhase \in Active
  BY <1>3, PhaseFacts
<1>5. slots + Cardinality(At([pc EXCEPT ![b] = NextPhase], WithSlot)) = POOL_SIZE
  BY <1>2, <1>4, Stay, InIsAt DEF SlotsConserved
<1>6. /\ slots' \in 0..POOL_SIZE
      /\ waiters' \in Seq(Borrowers)
      /\ pc' \in [Borrowers -> Phases]
      /\ QueueHoldsWaiters'
      /\ SlotsConserved'
      /\ pc'[b] = NextPhase
      /\ \A a \in Borrowers \ {b} : pc'[a] \in WithConn <=> pc[a] \in WithConn
      /\ Cardinality(At(pc', Active))
           = Cardinality(At([pc EXCEPT ![b] = NextPhase], Active))
  BY <1>1, <1>2, <1>4, <1>5, SlotMove
<1>7. Cardinality(At(pc', Active)) = Cardinality(At(pc, Active)) + 1
  BY <1>2, <1>4, <1>6, Enter
<1>8. TypeOK'
  BY <1>1, <1>3, <1>6 DEF TypeOK
<1>9. PoolHasRoom'
  <2>1. Cardinality(At(pc', Active)) <= POOL_SIZE
    <3>1. Cardinality(At(pc', Active)) <= Cardinality(At(pc', WithSlot))
      BY ActiveHaveSlots
    <3>2. slots' + Cardinality(At(pc', WithSlot)) = POOL_SIZE
      BY <1>6 DEF SlotsConserved, In, At
    <3> QED  BY <3>1, <3>2, <1>6, AtFinite, PoolAssumption
  <2>2. Len(idle) \in Nat /\ Len(idle') \in Nat  BY <1>3 DEF TypeOK
  <2>3. Len(idle) + Cardinality(At(pc, Active)) <= POOL_SIZE
    BY InIsAt DEF PoolHasRoom
  <2>4. Len(idle') + Cardinality(At(pc', Active)) <= POOL_SIZE
    BY <1>3, <1>7, <2>1, <2>2, <2>3, AtFinite, PoolAssumption
  <2> QED  BY <2>4 DEF PoolHasRoom, In, At
<1> QED  BY <1>3, <1>6, <1>8, <1>9

\* Giving a slot back leaves the phases and the queue in order.
LEMMA ReleaseSlotStep ==
    ASSUME TypeOK, QueueHoldsWaiters, SlotsConserved, NEW b \in Borrowers,
           pc[b] \in WithSlot, ReleaseSlot(b)
    PROVE  /\ slots' \in 0..POOL_SIZE
           /\ waiters' \in Seq(Borrowers)
           /\ pc' \in [Borrowers -> Phases]
           /\ QueueHoldsWaiters'
           /\ SlotsConserved'
           /\ pc'[b] = "out"
           /\ \A a \in Borrowers \ {b} : pc'[a] \in WithConn <=> pc[a] \in WithConn
           /\ Cardinality(At(pc', Active))
                = Cardinality(At(pc, Active)) - (IF pc[b] \in Active THEN 1 ELSE 0)
<1>1. /\ pc \in [Borrowers -> Phases] /\ slots \in Nat
      /\ slots + Cardinality(At(pc, WithSlot)) = POOL_SIZE
  BY InIsAt DEF TypeOK, SlotsConserved
<1>2. /\ "out" \in Phases /\ "out" # "queued" /\ pc[b] # "queued"
      /\ "out" \notin WithSlot /\ "out" \notin Active
  BY PhaseFacts
<1>3. Cardinality(At([pc EXCEPT ![b] = "out"], WithSlot))
        = Cardinality(At(pc, WithSlot)) - 1
  BY <1>1, <1>2, Leave
<1>4. slots + 1 + Cardinality(At([pc EXCEPT ![b] = "out"], WithSlot)) = POOL_SIZE
  BY <1>1, <1>3, AtFinite
<1>5. Wake(slots + 1, waiters, [pc EXCEPT ![b] = "out"])  BY DEF ReleaseSlot
<1>6. slots + 1 \in Nat  BY <1>1
<1>7. /\ slots' \in 0..POOL_SIZE
      /\ waiters' \in Seq(Borrowers)
      /\ pc' \in [Borrowers -> Phases]
      /\ QueueHoldsWaiters'
      /\ SlotsConserved'
      /\ pc'[b] = "out"
      /\ \A a \in Borrowers \ {b} : pc'[a] \in WithConn <=> pc[a] \in WithConn
      /\ Cardinality(At(pc', Active))
           = Cardinality(At([pc EXCEPT ![b] = "out"], Active))
  BY <1>2, <1>4, <1>5, <1>6, SlotMove
<1>8. CASE pc[b] \in Active
  <2>1. Cardinality(At([pc EXCEPT ![b] = "out"], Active))
          = Cardinality(At(pc, Active)) - 1
    BY <1>1, <1>2, <1>8, Leave
  <2> QED  BY <1>7, <1>8, <2>1
<1>9. CASE pc[b] \notin Active
  <2>1. Cardinality(At([pc EXCEPT ![b] = "out"], Active))
          = Cardinality(At(pc, Active))
    BY <1>1, <1>2, <1>9, Stay
  <2> QED  BY <1>7, <1>9, <2>1, AtFinite
<1> QED  BY <1>7, <1>8, <1>9

\* A connection that is dropped rather than returned: everything shrinks.
LEMMA DropStep ==
    ASSUME IInv, NEW b \in Borrowers, pc[b] \in WithSlot, ReleaseSlot(b),
           conn' = [conn EXCEPT ![b] = NoConn] \/ (conn' = conn /\ conn[b] = NoConn),
           UNCHANGED <<idle, open, closeAt, txVars>>
    PROVE  IInv'
<1> USE DEF IInv
<1>1. /\ slots' \in 0..POOL_SIZE
      /\ waiters' \in Seq(Borrowers)
      /\ pc' \in [Borrowers -> Phases]
      /\ QueueHoldsWaiters'
      /\ SlotsConserved'
      /\ pc'[b] = "out"
      /\ \A a \in Borrowers \ {b} : pc'[a] \in WithConn <=> pc[a] \in WithConn
      /\ Cardinality(At(pc', Active))
           = Cardinality(At(pc, Active)) - (IF pc[b] \in Active THEN 1 ELSE 0)
  BY ReleaseSlotStep
<1>2. /\ conn' \in [Borrowers -> Conns \cup {NoConn}]
      /\ \A a \in Borrowers : conn'[a] = IF a = b THEN NoConn ELSE conn[a]
  BY DEF TypeOK
<1>3. idle' = idle /\ open' = open /\ closeAt' = closeAt
      /\ pending' = pending /\ durable' = durable /\ completed' = completed
      /\ undone' = undone
  BY DEF txVars
<1>4. "out" \notin WithConn  BY PhaseFacts
<1>5. TypeOK'  BY <1>1, <1>2, <1>3, <1>4 DEF TypeOK
<1>6. PoolHasRoom'
  <2>1. Len(idle) \in Nat /\ Len(idle) + Cardinality(At(pc, Active)) <= POOL_SIZE
    BY InIsAt DEF PoolHasRoom, TypeOK
  <2>2. Len(idle') + Cardinality(At(pc', Active)) <= POOL_SIZE
    BY <1>1, <1>3, <2>1, AtFinite, PoolAssumption
  <2> QED  BY <2>2 DEF PoolHasRoom, In, At
<1>7. \A i \in 1..Len(idle) : idle[i] # NoConn
  BY PoolAssumption DEF TypeOK
<1>8. ConnectionsExclusive'
  BY <1>2, <1>3, <1>7 DEF ConnectionsExclusive
<1> QED  BY <1>1, <1>5, <1>6, <1>8

\* Returning a connection: the idle list takes it, and the phase that counted
\* for it in PoolHasRoom ends in the same step.
LEMMA ReturnStep ==
    ASSUME IInv, NEW b \in Borrowers, pc[b] \in {"body", "commit", "rollback"},
           ReleaseConnection(b),
           pending' \in [Conns -> SUBSET (Borrowers \cup {Earlier})],
           durable' \in SUBSET Borrowers, completed' \in SUBSET Borrowers,
           undone' \in SUBSET Borrowers
    PROVE  IInv'
<1> USE DEF IInv
<1>1. pc[b] \in WithSlot /\ pc[b] \in Active /\ pc[b] \in WithConn
  BY PhaseFacts
<1>2. /\ slots' \in 0..POOL_SIZE
      /\ waiters' \in Seq(Borrowers)
      /\ pc' \in [Borrowers -> Phases]
      /\ QueueHoldsWaiters'
      /\ SlotsConserved'
      /\ pc'[b] = "out"
      /\ \A a \in Borrowers \ {b} : pc'[a] \in WithConn <=> pc[a] \in WithConn
      /\ Cardinality(At(pc', Active)) = Cardinality(At(pc, Active)) - 1
  BY <1>1, ReleaseSlotStep DEF ReleaseConnection
<1>3. /\ conn' = [conn EXCEPT ![b] = NoConn]
      /\ conn' \in [Borrowers -> Conns \cup {NoConn}]
      /\ \A a \in Borrowers : conn'[a] = IF a = b THEN NoConn ELSE conn[a]
      /\ conn[b] \in Conns
  BY <1>1 DEF TypeOK, ReleaseConnection
<1>4. /\ Len(idle) \in Nat
      /\ Len(idle) + Cardinality(At(pc, Active)) <= POOL_SIZE
      /\ Cardinality(At(pc', Active)) \in Nat
  BY InIsAt, AtFinite DEF PoolHasRoom, TypeOK
<1>5. Len(idle) < POOL_SIZE
  BY <1>2, <1>4, AtFinite, PoolAssumption
<1>6. /\ idle' = Append(idle, conn[b])
      /\ open' = open /\ closeAt' = closeAt
  BY <1>5 DEF ReleaseConnection
<1>7. /\ idle' \in Seq(Conns)
      /\ Len(idle') = Len(idle) + 1
      /\ \A i \in 1..Len(idle') :
           idle'[i] = IF i \in 1..Len(idle) THEN idle[i] ELSE conn[b]
  BY <1>3, <1>6 DEF TypeOK
<1>8. "out" \notin WithConn  BY PhaseFacts
<1>9. TypeOK'
  BY <1>2, <1>3, <1>6, <1>7, <1>8 DEF TypeOK
<1>10. Len(idle') + Cardinality(At(pc', Active)) <= POOL_SIZE
  BY <1>2, <1>4, <1>7, AtFinite, PoolAssumption
<1>11. PoolHasRoom'
  BY <1>10 DEF PoolHasRoom, In, At
<1>12. ConnectionsExclusive'
  <2>1. \A i \in 1..Len(idle') : idle'[i] # NoConn
    BY <1>7, PoolAssumption
  <2>2. \A a \in Borrowers \ {b} : conn[a] # conn[b]
    BY <1>3, PoolAssumption DEF ConnectionsExclusive
  <2>3. \A a \in Borrowers, i \in 1..Len(idle') : conn'[a] # idle'[i]
    BY <1>3, <1>7, <2>1, <2>2 DEF ConnectionsExclusive
  <2>4. \A i, j \in 1..Len(idle') : i # j => idle'[i] # idle'[j]
    BY <1>4, <1>7 DEF ConnectionsExclusive
  <2>5. \A a, c \in Borrowers : a # c /\ conn'[a] = conn'[c] => conn'[a] = NoConn
    BY <1>3 DEF ConnectionsExclusive
  <2> QED  BY <2>3, <2>4, <2>5 DEF ConnectionsExclusive
<1> QED  BY <1>2, <1>9, <1>11, <1>12

\* A borrower that keeps its slot, or its lack of one, while nobody is woken.
LEMMA QuietMove ==
    ASSUME TypeOK, QueueHoldsWaiters, SlotsConserved, NEW b \in Borrowers,
           NEW p \in Phases, p # "queued", pc[b] # "queued",
           p \in WithSlot <=> pc[b] \in WithSlot,
           p \in Active <=> pc[b] \in Active,
           pc' = [pc EXCEPT ![b] = p], slots' = slots, waiters' = waiters
    PROVE  /\ pc' \in [Borrowers -> Phases]
           /\ \A a \in Borrowers : pc'[a] = IF a = b THEN p ELSE pc[a]
           /\ QueueHoldsWaiters'
           /\ SlotsConserved'
           /\ Cardinality(At(pc', Active)) = Cardinality(At(pc, Active))
<1>1. pc \in [Borrowers -> Phases] /\ waiters \in Seq(Borrowers)  BY DEF TypeOK
<1>2. /\ pc' \in [Borrowers -> Phases]
      /\ \A a \in Borrowers : pc'[a] = IF a = b THEN p ELSE pc[a]
  BY <1>1
<1>3. /\ Cardinality(At(pc', WithSlot)) = Cardinality(At(pc, WithSlot))
      /\ Cardinality(At(pc', Active)) = Cardinality(At(pc, Active))
  BY <1>1, Stay
<1>4. QueueHoldsWaiters'
  BY <1>1, <1>2 DEF QueueHoldsWaiters
<1>5. SlotsConserved'
  BY <1>3 DEF SlotsConserved, In, At
<1> QED  BY <1>2, <1>3, <1>4, <1>5

\* Steps from one phase of a borrow to the next, the connection staying in hand.
LEMMA HoldStep ==
    ASSUME IInv, NEW b \in Borrowers, ProbeOk(b) \/ BodyEnds(b) \/ Raises(b)
    PROVE  IInv'
<1> USE DEF IInv
<1>1. PICK p \in {"body", "commit", "rollback"} :
        /\ pc[b] \in {"probing", "body", "commit"}
        /\ pc' = [pc EXCEPT ![b] = p]
        /\ UNCHANGED <<slots, waiters, idle, conn, open, closeAt, pending, durable, undone>>
        /\ completed' \in SUBSET Borrowers
  BY DEF ProbeOk, BodyEnds, Raises, txVars, TypeOK
<1>2. /\ p \in Phases /\ p # "queued" /\ pc[b] # "queued"
      /\ p \in WithSlot /\ pc[b] \in WithSlot /\ p \in Active /\ pc[b] \in Active
      /\ p \in WithConn /\ pc[b] \in WithConn
  BY <1>1, PhaseFacts
<1>3. /\ pc' \in [Borrowers -> Phases]
      /\ \A a \in Borrowers : pc'[a] = IF a = b THEN p ELSE pc[a]
      /\ QueueHoldsWaiters'
      /\ SlotsConserved'
      /\ Cardinality(At(pc', Active)) = Cardinality(At(pc, Active))
  BY <1>1, <1>2, QuietMove
<1>4. TypeOK'  BY <1>1, <1>2, <1>3 DEF TypeOK
<1>5. PoolHasRoom'  BY <1>1, <1>3, InIsAt DEF PoolHasRoom, In, At
<1>6. ConnectionsExclusive'  BY <1>1 DEF ConnectionsExclusive
<1> QED  BY <1>3, <1>4, <1>5, <1>6

\* A failed probe: the connection leaves the borrower's hand, the slot stays.
LEMMA ProbeFailStep ==
    ASSUME IInv, NEW b \in Borrowers, ProbeFail(b)
    PROVE  IInv'
<1> USE DEF IInv
<1>1. /\ pc[b] = "probing"
      /\ pc' = [pc EXCEPT ![b] = "creating"]
      /\ conn' = [conn EXCEPT ![b] = NoConn]
      /\ UNCHANGED <<slots, waiters, idle, open, closeAt, pending, durable, completed, undone>>
  BY DEF ProbeFail, txVars
<1>2. /\ "creating" \in Phases /\ "creating" \in WithSlot /\ "creating" \in Active
      /\ "probing" \in WithSlot /\ "probing" \in Active /\ "creating" \notin WithConn
  BY PhaseFacts
<1>3. /\ pc' \in [Borrowers -> Phases]
      /\ \A a \in Borrowers : pc'[a] = IF a = b THEN "creating" ELSE pc[a]
      /\ QueueHoldsWaiters'
      /\ SlotsConserved'
      /\ Cardinality(At(pc', Active)) = Cardinality(At(pc, Active))
  BY <1>1, <1>2, QuietMove
<1>4. /\ conn' \in [Borrowers -> Conns \cup {NoConn}]
      /\ \A a \in Borrowers : conn'[a] = IF a = b THEN NoConn ELSE conn[a]
  BY <1>1 DEF TypeOK
<1>5. TypeOK'  BY <1>1, <1>2, <1>3, <1>4 DEF TypeOK
<1>6. PoolHasRoom'  BY <1>1, <1>3, InIsAt DEF PoolHasRoom, In, At
<1>7. \A i \in 1..Len(idle) : idle[i] # NoConn
  BY PoolAssumption DEF TypeOK
<1>8. ConnectionsExclusive'  BY <1>1, <1>4, <1>7 DEF ConnectionsExclusive
<1> QED  BY <1>3, <1>5, <1>6, <1>8

\* A new connection is nobody else's and not in the idle list.
LEMMA CreateOkStep ==
    ASSUME IInv, NEW b \in Borrowers, CreateOk(b)
    PROVE  IInv'
<1> USE DEF IInv
<1>1. PICK c \in Unused : conn' = [conn EXCEPT ![b] = c] /\ open' = open \cup {c}
  BY DEF CreateOk
<1>2. /\ pc[b] = "creating"
      /\ pc' = [pc EXCEPT ![b] = "body"]
      /\ UNCHANGED <<slots, waiters, idle, closeAt, pending, durable, completed, undone>>
  BY DEF CreateOk, txVars
<1>3. /\ "body" \in Phases /\ "body" \in WithSlot /\ "body" \in Active
      /\ "creating" \in WithSlot /\ "creating" \in Active /\ "body" \in WithConn
  BY PhaseFacts
<1>4. /\ pc' \in [Borrowers -> Phases]
      /\ \A a \in Borrowers : pc'[a] = IF a = b THEN "body" ELSE pc[a]
      /\ QueueHoldsWaiters'
      /\ SlotsConserved'
      /\ Cardinality(At(pc', Active)) = Cardinality(At(pc, Active))
  BY <1>2, <1>3, QuietMove
<1>5. /\ c \in Conns /\ c # NoConn
      /\ \A i \in 1..Len(idle) : idle[i] # c
      /\ \A a \in Borrowers : conn[a] # c
  BY <1>1, PoolAssumption DEF Unused, Range, TypeOK
<1>6. /\ conn' \in [Borrowers -> Conns \cup {NoConn}]
      /\ \A a \in Borrowers : conn'[a] = IF a = b THEN c ELSE conn[a]
  BY <1>1, <1>5 DEF TypeOK
<1>7. TypeOK'  BY <1>1, <1>2, <1>3, <1>4, <1>5, <1>6 DEF TypeOK
<1>8. PoolHasRoom'  BY <1>2, <1>4, InIsAt DEF PoolHasRoom, In, At
<1>9. ConnectionsExclusive'  BY <1>2, <1>5, <1>6 DEF ConnectionsExclusive
<1> QED  BY <1>4, <1>7, <1>8, <1>9

\* A new block renames the task's earlier writes and forgets how it ended.
LEMMA NewBlockStep ==
    ASSUME TypeOK, NEW b \in Borrowers, NewBlock(b)
    PROVE  /\ pending' \in [Conns -> SUBSET (Borrowers \cup {Earlier})]
           /\ durable' \in SUBSET Borrowers
           /\ completed' \in SUBSET Borrowers
           /\ undone' \in SUBSET Borrowers
BY DEF TypeOK, NewBlock, Renamed

\* The uncontended acquire(): the semaphore is not locked, so nobody waits.
LEMMA AcquireStep ==
    ASSUME IInv, NEW b \in Borrowers, Acquire(b)
    PROVE  IInv'
<1> USE DEF IInv
<1>1. /\ pc[b] = "out" /\ ~Locked
      /\ slots' = slots - 1
      /\ pc' = [pc EXCEPT ![b] = NextPhase]
      /\ TakeIdle(b) /\ NewBlock(b)
      /\ UNCHANGED <<waiters, open, closeAt>>
  BY DEF Acquire
<1>2. /\ pc \in [Borrowers -> Phases]
      /\ slots \in 1..POOL_SIZE /\ slots' \in 0..POOL_SIZE
      /\ pc[b] \notin WithConn /\ pc[b] \notin Active /\ pc[b] \notin WithSlot
  BY <1>1, PhaseFacts, PoolAssumption DEF TypeOK, Locked
<1>3. /\ idle' \in Seq(Conns)
      /\ conn' \in [Borrowers -> Conns \cup {NoConn}]
      /\ conn'[b] # NoConn <=> NextPhase \in WithConn
      /\ \A a \in Borrowers \ {b} : conn'[a] = conn[a]
      /\ ConnectionsExclusive'
      /\ NextPhase \in {"probing", "creating"}
      /\ idle # <<>> => Len(idle') = Len(idle) - 1
      /\ idle = <<>> => Len(idle') = 0
  BY <1>1, <1>2, TakeIdleStep
<1>4. /\ NextPhase \in Phases /\ NextPhase \in WithSlot /\ NextPhase \in Active
  BY <1>3, PhaseFacts
<1>5. /\ Cardinality(At(pc', WithSlot)) = Cardinality(At(pc, WithSlot)) + 1
      /\ Cardinality(At(pc', Active)) = Cardinality(At(pc, Active)) + 1
  BY <1>1, <1>2, <1>4, Enter
<1>6. slots' + Cardinality(At(pc', WithSlot)) = POOL_SIZE
  BY <1>1, <1>2, <1>5, InIsAt, AtFinite, PoolAssumption DEF SlotsConserved
<1>7. SlotsConserved'
  BY <1>6 DEF SlotsConserved, In, At
<1>8. /\ pc' \in [Borrowers -> Phases]
      /\ \A a \in Borrowers : pc'[a] = IF a = b THEN NextPhase ELSE pc[a]
  BY <1>1, <1>2, <1>4
<1>9. TypeOK'
  BY <1>1, <1>2, <1>3, <1>8, NewBlockStep DEF TypeOK
<1>10. QueueHoldsWaiters'
  BY <1>1 DEF QueueHoldsWaiters, TypeOK, Locked
<1>11. PoolHasRoom'
  <2>1. Cardinality(At(pc', Active)) <= Cardinality(At(pc', WithSlot))
    BY ActiveHaveSlots
  <2>2. /\ Len(idle) \in Nat /\ Len(idle') \in Nat
        /\ Len(idle) + Cardinality(At(pc, Active)) <= POOL_SIZE
    BY <1>3, InIsAt DEF PoolHasRoom, TypeOK
  <2>3. CASE idle = <<>>
    <3>1. Cardinality(At(pc', Active)) <= POOL_SIZE
      BY <1>2, <1>6, <2>1, AtFinite, PoolAssumption
    <3>2. Len(idle') + Cardinality(At(pc', Active)) <= POOL_SIZE
      BY <1>3, <2>3, <3>1, AtFinite, PoolAssumption
    <3> QED  BY <3>2 DEF PoolHasRoom, In, At
  <2>4. CASE idle # <<>>
    <3>1. Len(idle') + Cardinality(At(pc', Active)) <= POOL_SIZE
      BY <1>3, <1>5, <2>2, <2>4, AtFinite, PoolAssumption
    <3> QED  BY <3>1 DEF PoolHasRoom, In, At
  <2> QED  BY <2>3, <2>4
<1> QED  BY <1>3, <1>7, <1>9, <1>10, <1>11

\* A task that joins or leaves the queue has no slot and no connection.
LEMMA EnqueueStep ==
    ASSUME IInv, NEW b \in Borrowers, Enqueue(b)
    PROVE  IInv'
<1> USE DEF IInv
<1>1. /\ pc[b] = "out"
      /\ waiters' = Append(waiters, b)
      /\ pc' = [pc EXCEPT ![b] = "queued"]
      /\ NewBlock(b)
      /\ UNCHANGED <<slots, idle, conn, open, closeAt>>
  BY DEF Enqueue
<1>2. /\ "queued" \in Phases /\ "queued" \notin WithSlot /\ "queued" \notin Active
      /\ "out" \notin WithSlot /\ "out" \notin Active
      /\ "queued" \notin WithConn /\ "out" \notin WithConn
  BY PhaseFacts
<1>3. /\ pc' \in [Borrowers -> Phases]
      /\ \A a \in Borrowers : pc'[a] = IF a = b THEN "queued" ELSE pc[a]
  BY <1>1, <1>2 DEF TypeOK
<1>4. /\ Cardinality(At(pc', WithSlot)) = Cardinality(At(pc, WithSlot))
      /\ Cardinality(At(pc', Active)) = Cardinality(At(pc, Active))
  <2>1. pc \in [Borrowers -> Phases] /\ "queued" \in Phases
    BY PhaseFacts DEF TypeOK
  <2>2. /\ "queued" \in WithSlot <=> pc[b] \in WithSlot
        /\ "queued" \in Active <=> pc[b] \in Active
        /\ pc' = [pc EXCEPT ![b] = "queued"]
    BY <1>1, <1>2
  <2> QED  BY <2>1, <2>2, Stay
<1>5. /\ waiters' \in Seq(Borrowers)
      /\ Len(waiters) \in Nat /\ Len(waiters') = Len(waiters) + 1
      /\ \A i \in 1..Len(waiters') :
           waiters'[i] = IF i \in 1..Len(waiters) THEN waiters[i] ELSE b
  BY <1>1 DEF TypeOK
<1>6. \A i \in 1..Len(waiters) : waiters[i] # b /\ pc'[waiters[i]] = "queued"
  BY <1>1, <1>3 DEF QueueHoldsWaiters, TypeOK
<1>7. QueueHoldsWaiters'
  BY <1>3, <1>5, <1>6 DEF QueueHoldsWaiters
<1>8. TypeOK'  BY <1>1, <1>2, <1>3, <1>5, NewBlockStep DEF TypeOK
<1>9. SlotsConserved'  BY <1>1, <1>4 DEF SlotsConserved, In, At
<1>10. PoolHasRoom'  BY <1>1, <1>4 DEF PoolHasRoom, In, At
<1>11. ConnectionsExclusive'  BY <1>1 DEF ConnectionsExclusive
<1> QED  BY <1>7, <1>8, <1>9, <1>10, <1>11

\* A cancelled task leaves position k of the queue; whoever else was in it still
\* is, once.
LEMMA RemoveWaiter ==
    ASSUME waiters \in Seq(Borrowers), NEW k \in 1..Len(waiters),
           \A i, j \in 1..Len(waiters) : i # j => waiters[i] # waiters[j],
           waiters' = RemoveAt(waiters, k)
    PROVE  /\ waiters' \in Seq(Borrowers)
           /\ \A i \in 1..Len(waiters') :
                \E j \in 1..Len(waiters) \ {k} :
                  waiters'[i] = waiters[j] /\ waiters'[i] # waiters[k]
           /\ \A i, j \in 1..Len(waiters') : i # j => waiters'[i] # waiters'[j]
<1> DEFINE head == SubSeq(waiters, 1, k - 1)
           rest == SubSeq(waiters, k + 1, Len(waiters))
           from(i) == IF i < k THEN i ELSE i + 1
<1>1. Len(waiters) \in Nat /\ k \in Nat /\ k >= 1 /\ k <= Len(waiters)  OBVIOUS
<1>2. /\ head \in Seq(Borrowers) /\ Len(head) = k - 1
      /\ \A i \in 1..(k - 1) : head[i] = waiters[i]
  BY <1>1
<1>3. /\ rest \in Seq(Borrowers) /\ Len(rest) = Len(waiters) - k
      /\ \A i \in 1..(Len(waiters) - k) : rest[i] = waiters[i + k]
  BY <1>1
<1>4. waiters' = head \o rest  BY DEF RemoveAt
<1> HIDE DEF head, rest
<1>5. waiters' \in Seq(Borrowers) /\ Len(waiters') = Len(waiters) - 1
  <2>1. head \o rest \in Seq(Borrowers) /\ Len(head \o rest) = Len(head) + Len(rest)
    BY <1>2, <1>3, ConcatProperties
  <2>2. Len(head) + Len(rest) = Len(waiters) - 1
    BY <1>1, <1>2, <1>3
  <2> QED  BY <1>4, <2>1, <2>2
<1>6. \A i \in 1..Len(waiters') : waiters'[i] = waiters[from(i)] /\ from(i) \in 1..Len(waiters) \ {k}
  <2> SUFFICES ASSUME NEW i \in 1..Len(waiters')
               PROVE  waiters'[i] = waiters[from(i)] /\ from(i) \in 1..Len(waiters) \ {k}
    OBVIOUS
  <2>1. CASE i < k
    <3>1. i \in 1..(k - 1) /\ i \in 1..Len(waiters)
      BY <1>1, <1>5, <2>1
    <3>2. waiters'[i] = head[i]
      BY <1>1, <1>2, <1>3, <1>4, <3>1
    <3> QED  BY <1>1, <1>2, <2>1, <3>1, <3>2
  <2>2. CASE i >= k
    <3>1. waiters'[i] = rest[i - (k - 1)]
      BY <1>1, <1>2, <1>3, <1>4, <1>5, <2>2
    <3>2. rest[i - (k - 1)] = waiters[i + 1]
      BY <1>1, <1>3, <1>5, <2>2
    <3> QED  BY <1>1, <1>5, <2>2, <3>1, <3>2
  <2> QED  BY <1>1, <1>5, <2>1, <2>2
<1>7. \A i, j \in 1..Len(waiters') : i # j => from(i) # from(j)
  <2>1. \A i, j \in Int : i # j => from(i) # from(j)  BY <1>1
  <2> QED  BY <1>5, <2>1
<1> HIDE DEF from
<1>8. \A i, j \in 1..Len(waiters') : i # j => waiters'[i] # waiters'[j]
  <2> SUFFICES ASSUME NEW i \in 1..Len(waiters'), NEW j \in 1..Len(waiters'), i # j
               PROVE  waiters'[i] # waiters'[j]
    OBVIOUS
  <2>1. from(i) \in 1..Len(waiters) /\ from(j) \in 1..Len(waiters) /\ from(i) # from(j)
    BY <1>6, <1>7
  <2>2. waiters[from(i)] # waiters[from(j)]  BY <2>1
  <2> QED  BY <1>6, <2>2
<1>9. \A i \in 1..Len(waiters') :
        \E j \in 1..Len(waiters) \ {k} : waiters'[i] = waiters[j] /\ waiters'[i] # waiters[k]
  BY <1>6
<1> QED  BY <1>5, <1>8, <1>9

\* A waiter that is cancelled leaves the queue, and no slot with it.
LEMMA CancelQueuedStep ==
    ASSUME IInv, NEW b \in Borrowers, CancelQueued(b)
    PROVE  IInv'
<1> USE DEF IInv
<1>1. PICK k \in 1..Len(waiters) :
        waiters[k] = b /\ waiters' = RemoveAt(waiters, k)
  BY DEF CancelQueued
<1>2. /\ pc[b] = "queued"
      /\ pc' = [pc EXCEPT ![b] = "out"]
      /\ UNCHANGED <<slots, idle, conn, open, closeAt, pending, durable, completed, undone>>
  BY DEF CancelQueued, txVars
<1>3. /\ "queued" \notin WithSlot /\ "queued" \notin Active /\ "out" \in Phases
      /\ "out" \notin WithSlot /\ "out" \notin Active
      /\ "queued" \notin WithConn /\ "out" \notin WithConn
  BY PhaseFacts
<1>4. /\ pc' \in [Borrowers -> Phases]
      /\ \A a \in Borrowers : pc'[a] = IF a = b THEN "out" ELSE pc[a]
  BY <1>2, <1>3 DEF TypeOK
<1>5. /\ Cardinality(At(pc', WithSlot)) = Cardinality(At(pc, WithSlot))
      /\ Cardinality(At(pc', Active)) = Cardinality(At(pc, Active))
  <2>1. pc \in [Borrowers -> Phases] /\ "out" \in Phases
    BY PhaseFacts DEF TypeOK
  <2>2. /\ "out" \in WithSlot <=> pc[b] \in WithSlot
        /\ "out" \in Active <=> pc[b] \in Active
        /\ pc' = [pc EXCEPT ![b] = "out"]
    BY <1>2, <1>3
  <2> QED  BY <2>1, <2>2, Stay
<1>6. /\ waiters' \in Seq(Borrowers)
      /\ \A i \in 1..Len(waiters') :
           \E j \in 1..Len(waiters) \ {k} :
             waiters'[i] = waiters[j] /\ waiters'[i] # waiters[k]
      /\ \A i, j \in 1..Len(waiters') : i # j => waiters'[i] # waiters'[j]
  BY <1>1, RemoveWaiter DEF TypeOK, QueueHoldsWaiters
<1>7. \A i \in 1..Len(waiters') : pc'[waiters'[i]] = "queued"
  <2> TAKE i \in 1..Len(waiters')
  <2>1. PICK j \in 1..Len(waiters) : waiters'[i] = waiters[j] /\ waiters'[i] # b
    BY <1>1, <1>6
  <2>2. waiters[j] \in Borrowers /\ pc[waiters[j]] = "queued"
    BY DEF TypeOK, QueueHoldsWaiters
  <2> QED  BY <1>4, <2>1, <2>2
<1>8. QueueHoldsWaiters'  BY <1>6, <1>7 DEF QueueHoldsWaiters
<1>9. TypeOK'  BY <1>2, <1>3, <1>4, <1>6 DEF TypeOK
<1>10. SlotsConserved'  BY <1>2, <1>5 DEF SlotsConserved, In, At
<1>11. PoolHasRoom'  BY <1>2, <1>5 DEF PoolHasRoom, In, At
<1>12. ConnectionsExclusive'  BY <1>2 DEF ConnectionsExclusive
<1> QED  BY <1>8, <1>9, <1>10, <1>11, <1>12

\* Statements of the body touch the transaction only.
LEMMA WriteStep ==
    ASSUME IInv, NEW b \in Borrowers, Write(b)
    PROVE  IInv'
<1> USE DEF IInv
<1>1. /\ UNCHANGED <<slots, waiters, idle, pc, conn, open, closeAt,
                     durable, completed, undone>>
      /\ pending' = [pending EXCEPT ![conn[b]] = @ \cup {b}]
  BY DEF Write, poolVars
<1>2. pending' \in [Conns -> SUBSET (Borrowers \cup {Earlier})]
  BY <1>1 DEF TypeOK
<1>3. TypeOK'  BY <1>1, <1>2 DEF TypeOK
<1>4. QueueHoldsWaiters' /\ SlotsConserved' /\ PoolHasRoom' /\ ConnectionsExclusive'
  BY <1>1 DEF QueueHoldsWaiters, SlotsConserved, PoolHasRoom,
              ConnectionsExclusive, In
<1> QED  BY <1>3, <1>4

\* close_db() only closes idle connections, or empties the list.
LEMMA CloseStep ==
    ASSUME IInv, NEW i \in 1..(POOL_SIZE + 1), CloseVisit(i)
    PROVE  IInv'
<1> USE DEF IInv
<1>1. UNCHANGED <<slots, waiters, pc, conn, durable, completed, undone>>
  BY DEF CloseVisit
<1>2. Len(idle) \in Nat /\ Len(idle) <= POOL_SIZE
  BY InIsAt, AtFinite, PoolAssumption DEF PoolHasRoom, TypeOK
<1>3. CASE i <= Len(idle)
  <2>1. /\ idle' = idle /\ closeAt' = i
        /\ open' = open \ {idle[i]}
        /\ pending' = [pending EXCEPT ![idle[i]] = {}]
    BY <1>3 DEF CloseVisit
  <2>2. TypeOK'
    <3>1. /\ pending' \in [Conns -> SUBSET (Borrowers \cup {Earlier})]
          /\ open' \in SUBSET Conns
      BY <2>1 DEF TypeOK
    <3>2. closeAt' \in 0..CloseDone
      BY <2>1, PoolAssumption DEF CloseDone
    <3> QED  BY <1>1, <2>1, <3>1, <3>2 DEF TypeOK
  <2>3. QueueHoldsWaiters' /\ SlotsConserved' /\ PoolHasRoom' /\ ConnectionsExclusive'
    BY <1>1, <2>1 DEF QueueHoldsWaiters, SlotsConserved, PoolHasRoom,
                      ConnectionsExclusive, In
  <2> QED  BY <2>2, <2>3
<1>4. CASE i > Len(idle)
  <2>1. /\ idle' = <<>> /\ closeAt' = CloseDone
        /\ open' = open /\ pending' = pending
    BY <1>2, <1>4 DEF CloseVisit
  <2>2. TypeOK'  BY <1>1, <2>1, PoolAssumption DEF TypeOK, CloseDone
  <2>3. PoolHasRoom'
    <3>1. Len(idle) + Cardinality(At(pc, Active)) <= POOL_SIZE
      BY InIsAt DEF PoolHasRoom
    <3>2. 0 + Cardinality(At(pc, Active)) <= POOL_SIZE
      BY <1>2, <3>1, AtFinite, PoolAssumption
    <3>3. Len(idle') = 0 /\ pc' = pc  BY <1>1, <2>1
    <3> QED  BY <3>2, <3>3 DEF PoolHasRoom, In, At
  <2>4. QueueHoldsWaiters' /\ SlotsConserved' /\ ConnectionsExclusive'
    BY <1>1, <2>1 DEF QueueHoldsWaiters, SlotsConserved,
                      ConnectionsExclusive, In
  <2> QED  BY <2>2, <2>3, <2>4
<1> QED  BY <1>2, <1>3, <1>4

\* The pool starts with every slot free and nothing open.
LEMMA InitInv == Init => IInv
<1> SUFFICES ASSUME Init PROVE IInv
  OBVIOUS
<1> USE DEF Init
<1>1. /\ "out" \notin WithConn /\ "out" \notin WithSlot
      /\ "out" \notin Active /\ "out" \in Phases
  BY PhaseFacts
<1>2. TypeOK
  <2>1. slots \in 0..POOL_SIZE /\ closeAt \in 0..CloseDone
    BY PoolAssumption DEF CloseDone, NotClosing
  <2>2. waiters \in Seq(Borrowers) /\ idle \in Seq(Conns)
    OBVIOUS
  <2>3. /\ pc \in [Borrowers -> Phases]
        /\ conn \in [Borrowers -> Conns \cup {NoConn}]
        /\ \A b \in Borrowers : conn[b] # NoConn <=> pc[b] \in WithConn
    BY <1>1
  <2>4. /\ open \in SUBSET Conns
        /\ pending \in [Conns -> SUBSET (Borrowers \cup {Earlier})]
        /\ durable \in SUBSET Borrowers
        /\ completed \in SUBSET Borrowers
        /\ undone \in SUBSET Borrowers
    OBVIOUS
  <2> QED  BY <2>1, <2>2, <2>3, <2>4 DEF TypeOK
<1>3. In(WithSlot) = {} /\ In(Active) = {}
  BY <1>1 DEF In
<1>4. SlotsConserved /\ PoolHasRoom
  BY <1>3, FS_EmptySet, PoolAssumption DEF SlotsConserved, PoolHasRoom
<1>5. QueueHoldsWaiters /\ ConnectionsExclusive
  BY DEF QueueHoldsWaiters, ConnectionsExclusive
<1> QED  BY <1>2, <1>4, <1>5 DEF IInv

\* One case per action of Next.
LEMMA NextInv == IInv /\ [Next]_vars => IInv'
<1> SUFFICES ASSUME IInv, [Next]_vars PROVE IInv'
  OBVIOUS
<1>1. ASSUME NEW b \in Borrowers, Acquire(b) PROVE IInv'
  BY <1>1, AcquireStep
<1>2. ASSUME NEW b \in Borrowers, Enqueue(b) PROVE IInv'
  BY <1>2, EnqueueStep
<1>3. ASSUME NEW b \in Borrowers, Write(b) PROVE IInv'
  BY <1>3, WriteStep
<1>4. ASSUME NEW b \in Borrowers, Resume(b) PROVE IInv'
  BY <1>4, ResumeStep
<1>5. ASSUME NEW b \in Borrowers, ProbeOk(b) \/ BodyEnds(b) \/ Raises(b)
      PROVE  IInv'
  BY <1>5, HoldStep
<1>6. ASSUME NEW b \in Borrowers, ProbeFail(b) PROVE IInv'
  BY <1>6, ProbeFailStep
<1>7. ASSUME NEW b \in Borrowers, CreateOk(b) PROVE IInv'
  BY <1>7, CreateOkStep
<1>8. ASSUME NEW b \in Borrowers, AbandonBorrow(b) PROVE IInv'
  <2>1. pc[b] \in WithSlot  BY <1>8, PhaseFacts DEF AbandonBorrow
  <2> QED  BY <1>8, <2>1, DropStep DEF AbandonBorrow
<1>9. ASSUME NEW b \in Borrowers, Commit(b) PROVE IInv'
  <2>1. /\ pending' \in [Conns -> SUBSET (Borrowers \cup {Earlier})]
        /\ durable' \in SUBSET Borrowers
        /\ completed' \in SUBSET Borrowers
        /\ undone' \in SUBSET Borrowers
    <3>1. conn[b] \in Conns
      BY <1>9, PhaseFacts DEF Commit, IInv, TypeOK
    <3> QED  BY <1>9, <3>1 DEF Commit, IInv, TypeOK
  <2> QED  BY <1>9, <2>1, ReturnStep DEF Commit
<1>10. ASSUME NEW b \in Borrowers, Rollback(b) PROVE IInv'
  <2>1. /\ pending' \in [Conns -> SUBSET (Borrowers \cup {Earlier})]
        /\ durable' \in SUBSET Borrowers
        /\ completed' \in SUBSET Borrowers
        /\ undone' \in SUBSET Borrowers
    <3>1. conn[b] \in Conns
      BY <1>10, PhaseFacts DEF Rollback, IInv, TypeOK
    <3> QED  BY <1>10, <3>1 DEF Rollback, IInv, TypeOK
  <2> QED  BY <1>10, <2>1, ReturnStep DEF Rollback
<1>11. ASSUME NEW b \in Borrowers, RollbackFails(b) \/ CancelBlock(b)
       PROVE  IInv'
  <2>1. /\ pending' \in [Conns -> SUBSET (Borrowers \cup {Earlier})]
        /\ durable' \in SUBSET Borrowers
        /\ completed' \in SUBSET Borrowers
        /\ undone' \in SUBSET Borrowers
    BY <1>11 DEF RollbackFails, CancelBlock, txVars, IInv, TypeOK
  <2>2. pc[b] \in {"body", "commit", "rollback"} /\ ReleaseConnection(b)
    BY <1>11 DEF RollbackFails, CancelBlock
  <2> QED  BY <2>1, <2>2, ReturnStep
<1>12. ASSUME NEW b \in Borrowers, CancelQueued(b) PROVE IInv'
  BY <1>12, CancelQueuedStep
<1>13. ASSUME NEW b \in Borrowers, CancelGranted(b) PROVE IInv'
  <2>1. pc[b] \in WithSlot /\ pc[b] \notin WithConn
    BY <1>13, PhaseFacts DEF CancelGranted
  <2>2. conn' = conn /\ conn[b] = NoConn
    BY <1>13, <2>1 DEF CancelGranted, IInv, TypeOK
  <2> QED  BY <1>13, <2>1, <2>2, DropStep DEF CancelGranted
<1>14. ASSUME CloseDb \/ CloseResume PROVE IInv'
  <2>1. PICK i \in 1..(POOL_SIZE + 1) : CloseVisit(i)
    BY <1>14, PoolAssumption DEF CloseDb, CloseResume
  <2> QED  BY <2>1, CloseStep
<1>15. ASSUME UNCHANGED vars PROVE IInv'
  BY <1>15 DEF vars, poolVars, txVars, IInv, TypeOK, QueueHoldsWaiters,
               SlotsConserved, PoolHasRoom, ConnectionsExclusive, In
<1> QED
  BY <1>1, <1>2, <1>3, <1>4, <1>5, <1>6, <1>7, <1>8, <1>9, <1>10, <1>11,
     <1>12, <1>13, <1>14, <1>15 DEF Next, Advance, Cancel

\* The inductive invariant holds of every behaviour of the pool.
THEOREM PoolInvariant == Spec => []IInv
BY InitInv, NextInv, PTL DEF Spec

\* Type correctness of the pool's state.
THEOREM PoolTypeCorrect == Spec => []TypeOK
<1>1. IInv => TypeOK  BY DEF IInv
<1> QED  BY <1>1, PoolInvariant, PTL

\* FIX-06: however a borrow ends (commit, rollback, a failed probe or creation,
\* cancellation at any await), acquires and releases of the semaphore balance.
THEOREM PoolConservesSlots == Spec => []SlotsConserved
<1>1. IInv => SlotsConserved  BY DEF IInv
<1> QED  BY <1>1, PoolInvariant, PTL

\* No connection is ever shared by two blocks or lent from the idle list twice.
THEOREM PoolConnectionsExclusive == Spec => []ConnectionsExclusive
<1>1. IInv => ConnectionsExclusive  BY DEF IInv
<1> QED  BY <1>1, PoolInvariant, PTL

\* release_connection() always finds room: its closing branch is dead code.
THEOREM PoolAlwaysHasRoom == Spec => []PoolHasRoom
<1>1. IInv => PoolHasRoom  BY DEF IInv
<1> QED  BY <1>1, PoolInvariant, PTL

\* The semaphore never grants a slot to a task that is not waiting for one.
THEOREM PoolQueueHoldsWaiters == Spec => []QueueHoldsWaiters
<1>1. IInv => QueueHoldsWaiters  BY DEF IInv
<1> QED  BY <1>1, PoolInvariant, PTL

-----------------------------------------------------------------------------
(* No wakeup is lost.                                                      *)

\* After a wakeup a free slot and a waiter only coexist with a granted task.
LEMMA WakeLosesNothing ==
    ASSUME NEW n \in Nat, NEW ws \in Seq(Borrowers),
           NEW f \in [Borrowers -> Phases], Wake(n, ws, f)
    PROVE  NoLostWakeup'
<1>1. CASE n > 0 /\ ws # <<>>
  <2>1. Head(ws) \in Borrowers /\ pc' = [f EXCEPT ![Head(ws)] = "granted"]
    BY <1>1 DEF Wake
  <2>2. pc'[Head(ws)] = "granted"  BY <2>1
  <2> QED  BY <2>1, <2>2 DEF NoLostWakeup, In
<1>2. CASE n = 0 \/ ws = <<>>
  BY <1>2 DEF Wake, NoLostWakeup
<1> QED  BY <1>1, <1>2

\* A step that wakes nobody, moves no granted task and frees no slot.
LEMMA QuietLosesNothing ==
    ASSUME TypeOK, NoLostWakeup, NEW b \in Borrowers, pc[b] # "granted",
           NEW p \in Phases, pc' = [pc EXCEPT ![b] = p],
           slots' = slots, waiters' # <<>> => waiters # <<>>
    PROVE  NoLostWakeup'
<1>1. \A a \in Borrowers : pc[a] = "granted" => pc'[a] = "granted"
  BY DEF TypeOK
<1> QED  BY <1>1 DEF NoLostWakeup, In

\* No step leaves a slot free while someone waits for one.
LEMMA NextNoLostWakeup ==
    ASSUME IInv, NoLostWakeup, [Next]_vars
    PROVE  NoLostWakeup'
<1>1. TypeOK  BY DEF IInv
<1>2. /\ slots \in Nat /\ slots + 1 \in Nat
      /\ waiters \in Seq(Borrowers) /\ pc \in [Borrowers -> Phases]
  BY <1>1, PoolAssumption DEF TypeOK
<1>3. NextPhase \in Phases  BY PhaseFacts DEF NextPhase
<1>4. ASSUME NEW b \in Borrowers, Acquire(b) PROVE NoLostWakeup'
  BY <1>4 DEF Acquire, Locked, NoLostWakeup
<1>5. ASSUME NEW b \in Borrowers, Enqueue(b) PROVE NoLostWakeup'
  <2>1. \A a \in Borrowers : pc[a] = "granted" => pc'[a] = "granted"
    BY <1>2, <1>5 DEF Enqueue
  <2> QED  BY <1>5, <2>1 DEF Enqueue, Locked, NoLostWakeup, In
<1>6. ASSUME NEW b \in Borrowers, Resume(b) PROVE NoLostWakeup'
  <2>1. [pc EXCEPT ![b] = NextPhase] \in [Borrowers -> Phases]
    BY <1>2, <1>3
  <2> QED  BY <1>2, <1>6, <2>1, WakeLosesNothing DEF Resume
<1>7. ASSUME NEW b \in Borrowers, ReleaseSlot(b) PROVE NoLostWakeup'
  <2>1. [pc EXCEPT ![b] = "out"] \in [Borrowers -> Phases]
    BY <1>2, PhaseFacts
  <2> QED  BY <1>2, <1>7, <2>1, WakeLosesNothing DEF ReleaseSlot
<1>8. ASSUME NEW b \in Borrowers,
             \/ ProbeOk(b) \/ ProbeFail(b) \/ CreateOk(b)
             \/ BodyEnds(b) \/ Raises(b)
      PROVE  NoLostWakeup'
  <2>1. PICK p \in Phases :
          /\ pc[b] # "granted" /\ pc' = [pc EXCEPT ![b] = p]
          /\ slots' = slots /\ waiters' = waiters
    BY <1>8, PhaseFacts DEF ProbeOk, ProbeFail, CreateOk, BodyEnds, Raises
  <2> QED  BY <1>1, <2>1, QuietLosesNothing
<1>9. ASSUME NEW b \in Borrowers, CancelQueued(b) PROVE NoLostWakeup'
  <2>1. /\ pc[b] # "granted" /\ pc' = [pc EXCEPT ![b] = "out"]
        /\ slots' = slots /\ waiters # <<>>
    BY <1>9 DEF CancelQueued
  <2> QED  BY <1>1, <2>1, PhaseFacts, QuietLosesNothing
<1>10. ASSUME NEW b \in Borrowers, AbandonBorrow(b) PROVE NoLostWakeup'
  BY <1>7, <1>10 DEF AbandonBorrow
<1>11. ASSUME NEW b \in Borrowers, CancelGranted(b) PROVE NoLostWakeup'
  BY <1>7, <1>11 DEF CancelGranted
<1>12. ASSUME NEW b \in Borrowers,
              Commit(b) \/ Rollback(b) \/ RollbackFails(b) \/ CancelBlock(b)
       PROVE  NoLostWakeup'
  BY <1>7, <1>12 DEF Commit, Rollback, RollbackFails, CancelBlock,
                     ReleaseConnection
<1>13. ASSUME \/ \E b \in Borrowers : Write(b)
              \/ CloseDb \/ CloseResume \/ UNCHANGED vars
       PROVE  NoLostWakeup'
  <2>1. UNCHANGED <<slots, waiters, pc>>
    BY <1>13 DEF Write, CloseDb, CloseResume, CloseVisit, vars, poolVars
  <2> QED  BY <2>1 DEF NoLostWakeup, In
<1> QED
  BY <1>4, <1>5, <1>6, <1>8, <1>9, <1>10, <1>11, <1>12, <1>13
  DEF Next, Advance, Cancel

\* A task is never left queued beside a free slot with nobody about to wake it.
THEOREM PoolLosesNoWakeup == Spec => []NoLostWakeup
<1>1. Init => NoLostWakeup
  BY DEF Init, NoLostWakeup
<1>2. IInv /\ NoLostWakeup /\ [Next]_vars => NoLostWakeup'
  BY NextNoLostWakeup
<1> QED  BY <1>1, <1>2, PoolInvariant, PTL DEF Spec

-----------------------------------------------------------------------------
(* What has been rolled back stays rolled back.                            *)

\* While a block runs, its writes are in the transaction of the connection in
\* its hand and have been neither committed nor undone; afterwards writes still
\* in an open transaction have been neither.
TxInv ==
    /\ \A b \in Borrowers : pc[b] # "out" =>
         /\ b \notin durable /\ b \notin undone
         /\ \A c \in Conns : b \in pending[c] =>
              conn[b] = c /\ pc[b] \in {"body", "commit", "rollback"}
    /\ \A b \in Borrowers, c \in Conns :
         b \in pending[c] => b \notin durable /\ b \notin undone
    /\ \A b \in Borrowers, c, d \in Conns :
         b \in pending[c] /\ b \in pending[d] => c = d
    /\ durable \cap undone = {}

\* The end of b's block: the writes of its transaction move together to durable
\* or to undone, or stay pending.
LEMMA TxReturn ==
    ASSUME IInv, TxInv, NEW b \in Borrowers,
           pc[b] \in {"body", "commit", "rollback"}, ReleaseConnection(b),
           NEW moved, moved = pending[conn[b]] \ {Earlier},
           \/ /\ durable' = durable \cup moved /\ undone' = undone
              /\ pending' = [pending EXCEPT ![conn[b]] = {}]
           \/ /\ undone' = undone \cup moved /\ durable' = durable
              /\ pending' = [pending EXCEPT ![conn[b]] = {}]
           \/ UNCHANGED <<pending, durable, undone>>
    PROVE  TxInv'
<1>1. TypeOK /\ conn[b] \in Conns
  BY PhaseFacts DEF IInv, TypeOK
<1>2. /\ pc'[b] = "out"
      /\ \A a \in Borrowers \ {b} :
           /\ pc'[a] # "out" => pc[a] # "out"
           /\ pc[a] \in {"body", "commit", "rollback"} => pc'[a] = pc[a]
  <2>1. /\ waiters \in Seq(Borrowers) /\ slots + 1 \in Nat
        /\ [pc EXCEPT ![b] = "out"] \in [Borrowers -> Phases]
        /\ QueueOf(waiters, [pc EXCEPT ![b] = "out"])
        /\ Wake(slots + 1, waiters, [pc EXCEPT ![b] = "out"])
    BY <1>1, PhaseFacts, PoolAssumption
    DEF IInv, TypeOK, QueueHoldsWaiters, QueueOf, ReleaseConnection, ReleaseSlot
  <2>2. \A a \in Borrowers :
          \/ pc'[a] = [pc EXCEPT ![b] = "out"][a]
          \/ [pc EXCEPT ![b] = "out"][a] = "queued" /\ pc'[a] = "granted"
    BY <2>1, WakeStep
  <2> QED  BY <1>1, <2>2 DEF TypeOK
<1>3. \A a \in Borrowers : conn'[a] = IF a = b THEN NoConn ELSE conn[a]
  BY <1>1 DEF ReleaseConnection, TypeOK
<1>4. \A c \in Conns : pending'[c] = pending[c] \/ (c = conn[b] /\ pending'[c] = {})
  <2>1. pending' = pending \/ pending' = [pending EXCEPT ![conn[b]] = {}]
    OBVIOUS
  <2>2. pending \in [Conns -> SUBSET (Borrowers \cup {Earlier})]
    BY <1>1 DEF TypeOK
  <2> QED  BY <2>1, <2>2
<1>5. \A a \in Borrowers \ {b} : pc[a] # "out" => a \notin moved
  <2> SUFFICES ASSUME NEW a \in Borrowers \ {b}, pc[a] # "out", a \in moved
               PROVE  FALSE
    OBVIOUS
  <2>1. conn[a] = conn[b]  BY <1>1 DEF TxInv
  <2>2. conn[b] # NoConn  BY <1>1, PoolAssumption
  <2> QED  BY <2>1, <2>2 DEF IInv, ConnectionsExclusive
<1>6. \A a \in Borrowers : a \in moved => a \notin durable /\ a \notin undone
  BY <1>1 DEF TxInv
<1>7. durable' \subseteq durable \cup moved /\ undone' \subseteq undone \cup moved
  OBVIOUS
<1>8. ASSUME NEW a \in Borrowers, pc'[a] # "out"
      PROVE  /\ a \notin durable' /\ a \notin undone'
             /\ \A c \in Conns : a \in pending'[c] =>
                  conn'[a] = c /\ pc'[a] \in {"body", "commit", "rollback"}
  <2>1. a # b /\ pc[a] # "out"  BY <1>2, <1>8
  <2>2. a \notin durable /\ a \notin undone /\ a \notin moved
    BY <1>5, <2>1 DEF TxInv
  <2>3. \A c \in Conns : a \in pending'[c] =>
          conn'[a] = c /\ pc'[a] \in {"body", "commit", "rollback"}
    BY <1>2, <1>3, <1>4, <2>1 DEF TxInv
  <2> QED  BY <1>7, <2>2, <2>3
<1>9. ASSUME NEW a \in Borrowers, NEW c \in Conns, a \in pending'[c]
      PROVE  a \notin durable' /\ a \notin undone'
  <2>1. a \in pending[c]  BY <1>4, <1>9
  <2>2. a \notin durable /\ a \notin undone  BY <2>1 DEF TxInv
  <2>3. CASE UNCHANGED <<pending, durable, undone>>
    BY <2>2, <2>3
  <2>4. CASE pending' = [pending EXCEPT ![conn[b]] = {}]
    <3>1. c # conn[b]  BY <1>1, <1>9, <2>4 DEF TypeOK
    <3>2. a \notin moved  BY <1>1, <2>1, <3>1 DEF TxInv
    <3> QED  BY <1>7, <2>2, <3>2
  <2> QED  BY <2>3, <2>4
<1>10. \A a \in Borrowers, c, d \in Conns :
         a \in pending'[c] /\ a \in pending'[d] => c = d
  BY <1>4 DEF TxInv
<1>11. durable' \cap undone' = {}
  <2>1. moved \subseteq Borrowers  BY <1>1 DEF TypeOK
  <2>2. moved \cap durable = {} /\ moved \cap undone = {}
    BY <1>6, <2>1
  <2> QED  BY <2>2 DEF TxInv
<1> QED  BY <1>8, <1>9, <1>10, <1>11 DEF TxInv

\* No step leaves writes in a transaction that were committed or undone.
LEMMA NextTxInv ==
    ASSUME IInv, TxInv, [Next]_vars
    PROVE  TxInv'
<1>1. TypeOK  BY DEF IInv
<1>2. ASSUME NEW b \in Borrowers, Acquire(b) \/ Enqueue(b) PROVE TxInv'
  <2>1. /\ pc[b] = "out" /\ NewBlock(b)
        /\ \A a \in Borrowers \ {b} : conn'[a] = conn[a] /\ pc'[a] = pc[a]
    BY <1>1, <1>2 DEF Acquire, Enqueue, TakeIdle, TypeOK
  <2>2. \A c \in Conns : /\ b \notin pending'[c]
                         /\ \A a \in Borrowers : a \in pending'[c] => a \in pending[c]
    BY <2>1, PoolAssumption DEF NewBlock, Renamed
  <2>3. /\ b \notin durable' /\ b \notin undone'
        /\ durable' \subseteq durable /\ undone' \subseteq undone
    BY <2>1 DEF NewBlock
  <2> QED  BY <2>1, <2>2, <2>3 DEF TxInv
<1>3. ASSUME NEW b \in Borrowers, Write(b) PROVE TxInv'
  <2>1. /\ pc[b] = "body" /\ conn[b] \in Conns
        /\ UNCHANGED <<pc, conn, durable, undone>>
        /\ \A c \in Conns \ {conn[b]} : pending[c] = {}
        /\ pending' = [pending EXCEPT ![conn[b]] = @ \cup {b}]
    BY <1>1, <1>3, PhaseFacts DEF Write, poolVars, TypeOK
  <2>2. \A c \in Conns : pending'[c] = IF c = conn[b] THEN pending[c] \cup {b} ELSE {}
    BY <1>1, <2>1 DEF TypeOK
  <2>3. b \notin durable /\ b \notin undone  BY <2>1 DEF TxInv
  <2> QED  BY <2>1, <2>2, <2>3 DEF TxInv
<1>4. ASSUME NEW b \in Borrowers, Resume(b) PROVE TxInv'
  <2>1. /\ pc[b] = "granted" /\ UNCHANGED <<pending, durable, undone>>
        /\ Wake(slots, waiters, [pc EXCEPT ![b] = NextPhase])
        /\ \A a \in Borrowers \ {b} : conn'[a] = conn[a]
    BY <1>1, <1>4 DEF Resume, txVars, TakeIdle, TypeOK
  <2>2. /\ slots \in Nat /\ waiters \in Seq(Borrowers)
        /\ [pc EXCEPT ![b] = NextPhase] \in [Borrowers -> Phases]
        /\ QueueOf(waiters, [pc EXCEPT ![b] = NextPhase])
    BY <1>1, <2>1, PhaseFacts, PoolAssumption
    DEF IInv, TypeOK, QueueHoldsWaiters, QueueOf, NextPhase
  <2>3. \A a \in Borrowers :
          \/ pc'[a] = [pc EXCEPT ![b] = NextPhase][a]
          \/ [pc EXCEPT ![b] = NextPhase][a] = "queued" /\ pc'[a] = "granted"
    BY <2>1, <2>2, WakeStep
  <2>4. \A a \in Borrowers \ {b} :
          /\ pc'[a] # "out" => pc[a] # "out"
          /\ pc[a] \in {"body", "commit", "rollback"} => pc'[a] = pc[a]
    BY <1>1, <2>3 DEF TypeOK
  <2>5. \A c \in Conns : b \notin pending[c]
    BY <1>1, <2>1, PhaseFacts, PoolAssumption DEF TxInv, TypeOK
  <2> QED  BY <2>1, <2>4, <2>5 DEF TxInv
<1>5. ASSUME NEW b \in Borrowers, AbandonBorrow(b) \/ CancelGranted(b)
      PROVE  TxInv'
  <2>1. /\ pc[b] # "queued" /\ UNCHANGED <<pending, durable, undone>>
        /\ Wake(slots + 1, waiters, [pc EXCEPT ![b] = "out"])
        /\ \A a \in Borrowers \ {b} : conn'[a] = conn[a]
    BY <1>1, <1>5
    DEF AbandonBorrow, CancelGranted, ReleaseSlot, txVars, TypeOK
  <2>2. /\ slots + 1 \in Nat /\ waiters \in Seq(Borrowers)
        /\ [pc EXCEPT ![b] = "out"] \in [Borrowers -> Phases]
        /\ QueueOf(waiters, [pc EXCEPT ![b] = "out"])
    BY <1>1, <2>1, PhaseFacts, PoolAssumption
    DEF IInv, TypeOK, QueueHoldsWaiters, QueueOf
  <2>3. \A a \in Borrowers :
          \/ pc'[a] = [pc EXCEPT ![b] = "out"][a]
          \/ [pc EXCEPT ![b] = "out"][a] = "queued" /\ pc'[a] = "granted"
    BY <2>1, <2>2, WakeStep
  <2>4. /\ pc'[b] = "out"
        /\ \A a \in Borrowers \ {b} :
             /\ pc'[a] # "out" => pc[a] # "out"
             /\ pc[a] \in {"body", "commit", "rollback"} => pc'[a] = pc[a]
    BY <1>1, <2>3 DEF TypeOK
  <2> QED  BY <2>1, <2>4 DEF TxInv
<1>6. ASSUME NEW b \in Borrowers, ProbeFail(b) \/ CreateOk(b) PROVE TxInv'
  <2>1. /\ pc[b] \in {"probing", "creating"} /\ UNCHANGED <<pending, durable, undone>>
        /\ \A a \in Borrowers \ {b} : conn'[a] = conn[a] /\ pc'[a] = pc[a]
    BY <1>1, <1>6 DEF ProbeFail, CreateOk, txVars, TypeOK
  <2>2. ASSUME NEW c \in Conns, b \in pending[c] PROVE FALSE
    BY <2>1, <2>2 DEF TxInv
  <2> QED  BY <2>1, <2>2 DEF TxInv
<1>7. ASSUME NEW b \in Borrowers, ProbeOk(b) \/ BodyEnds(b) \/ Raises(b)
      PROVE  TxInv'
  <2>1. /\ pc[b] # "out" /\ UNCHANGED <<conn, pending, durable, undone>>
        /\ pc'[b] \in {"body", "commit", "rollback"}
        /\ \A a \in Borrowers \ {b} : pc'[a] = pc[a]
    BY <1>1, <1>7 DEF ProbeOk, BodyEnds, Raises, txVars, TypeOK
  <2> QED  BY <2>1 DEF TxInv
<1>8. ASSUME NEW b \in Borrowers, CancelQueued(b) PROVE TxInv'
  <2>1. /\ UNCHANGED <<conn, pending, durable, undone>>
        /\ \A a \in Borrowers : pc'[a] = pc[a] \/ (pc[a] = "queued" /\ pc'[a] = "out")
    BY <1>1, <1>8 DEF CancelQueued, txVars, TypeOK
  <2> QED  BY <2>1 DEF TxInv
<1>9. ASSUME NEW b \in Borrowers, Commit(b) PROVE TxInv'
  BY <1>9, TxReturn DEF Commit
<1>10. ASSUME NEW b \in Borrowers, Rollback(b) PROVE TxInv'
  BY <1>10, TxReturn DEF Rollback
<1>11. ASSUME NEW b \in Borrowers, RollbackFails(b) \/ CancelBlock(b)
       PROVE  TxInv'
  BY <1>11, TxReturn DEF RollbackFails, CancelBlock, txVars
<1>12. ASSUME CloseDb \/ CloseResume PROVE TxInv'
  <2>1. /\ UNCHANGED <<pc, conn, durable, undone>>
        /\ \A c \in Conns : pending'[c] \subseteq pending[c]
    BY <1>1, <1>12 DEF CloseDb, CloseResume, CloseVisit, TypeOK
  <2> QED  BY <2>1 DEF TxInv
<1>13. ASSUME UNCHANGED vars PROVE TxInv'
  BY <1>13 DEF vars, poolVars, txVars, TxInv
<1> QED
  BY <1>2, <1>3, <1>4, <1>5, <1>6, <1>7, <1>8, <1>9, <1>10, <1>11, <1>12,
     <1>13 DEF Next, Advance, Cancel

\* Once a rollback has undone a block's writes no later commit revives them,
\* and a committed block is never undone.
THEOREM PoolUndoneStaysUndone == Spec => []UndoneStaysUndone
<1>1. Init => TxInv
  BY DEF Init, TxInv
<1>2. IInv /\ TxInv /\ [Next]_vars => TxInv'
  BY NextTxInv
<1>3. TxInv => UndoneStaysUndone
  BY DEF TxInv, UndoneStaysUndone
<1> QED  BY <1>1, <1>2, <1>3, PoolInvariant, PTL DEF Spec

-----------------------------------------------------------------------------
(* The pool implements ExclusiveLease.                                     *)

\* The lease a borrower has is the connection in its hand, once get_connection()
\* has returned it.
LEMMA LeaseFacts ==
    ASSUME TypeOK
    PROVE  /\ lease \in [Borrowers -> Conns \cup {NoConn}]
           /\ \A b \in Borrowers :
                lease[b] # NoConn <=> pc[b] \in {"body", "commit", "rollback"}
           /\ \A b \in Borrowers : lease[b] # NoConn => lease[b] = conn[b]
BY PhaseFacts DEF TypeOK, lease

\* Every step of the pool grants one lease, returns one, or changes none.
LEMMA NextLease ==
    ASSUME IInv, IInv', [Next]_vars
    PROVE  [Lease!Next]_lease
<1>1. TypeOK /\ TypeOK'  BY DEF IInv
<1>2. /\ pc \in [Borrowers -> Phases]
      /\ conn \in [Borrowers -> Conns \cup {NoConn}]
  BY <1>1 DEF TypeOK
<1> DEFINE Leasing == {"body", "commit", "rollback"}
<1>3. ASSUME \A a \in Borrowers :
               \/ pc'[a] = pc[a] /\ conn'[a] = conn[a]
               \/ pc'[a] \notin Leasing /\ pc[a] \notin Leasing
               \/ pc'[a] \in Leasing /\ pc[a] \in Leasing /\ conn'[a] = conn[a]
      PROVE  lease' = lease
  BY <1>3 DEF lease
<1>4. ASSUME NEW b \in Borrowers, NEW p \in Phases, p \notin Leasing,
             pc[b] \notin Leasing, NEW n \in Nat,
             p # "queued", pc[b] # "queued",
             Wake(n, waiters, [pc EXCEPT ![b] = p]),
             \A a \in Borrowers \ {b} : conn'[a] = conn[a]
      PROVE  lease' = lease
  <2>1. /\ waiters \in Seq(Borrowers)
        /\ [pc EXCEPT ![b] = p] \in [Borrowers -> Phases]
        /\ QueueOf(waiters, [pc EXCEPT ![b] = p])
    <3>1. waiters \in Seq(Borrowers) /\ QueueHoldsWaiters
      BY DEF IInv, TypeOK
    <3>2. \A i \in 1..Len(waiters) : waiters[i] \in Borrowers \ {b}
      BY <1>4, <3>1 DEF QueueHoldsWaiters
    <3>3. [pc EXCEPT ![b] = p] \in [Borrowers -> Phases]
      BY <1>2, <1>4
    <3>4. QueueOf(waiters, [pc EXCEPT ![b] = p])
      BY <1>2, <3>1, <3>2 DEF QueueHoldsWaiters, QueueOf
    <3> QED  BY <3>1, <3>3, <3>4
  <2>2. \A a \in Borrowers :
          \/ pc'[a] = [pc EXCEPT ![b] = p][a]
          \/ [pc EXCEPT ![b] = p][a] = "queued" /\ pc'[a] = "granted"
    BY <1>4, <2>1, WakeStep
  <2>3. \A a \in Borrowers :
          \/ pc'[a] = pc[a] /\ conn'[a] = conn[a]
          \/ pc'[a] \notin Leasing /\ pc[a] \notin Leasing
          \/ pc'[a] \in Leasing /\ pc[a] \in Leasing /\ conn'[a] = conn[a]
    BY <1>2, <1>4, <2>2
  <2> QED  BY <1>3, <2>3
<1>5. /\ slots \in Nat /\ slots + 1 \in Nat
      /\ NextPhase \in Phases \ Leasing /\ NextPhase # "queued"
      /\ "out" \in Phases \ Leasing
  BY <1>1, PhaseFacts, PoolAssumption DEF TypeOK, NextPhase
<1>6. ASSUME NEW b \in Borrowers, Acquire(b) \/ Enqueue(b) PROVE lease' = lease
  <2>1. /\ pc[b] = "out" /\ pc'[b] \notin Leasing
        /\ \A a \in Borrowers \ {b} : conn'[a] = conn[a] /\ pc'[a] = pc[a]
    BY <1>2, <1>5, <1>6 DEF Acquire, Enqueue, TakeIdle
  <2> QED  BY <1>3, <2>1
<1>7. ASSUME NEW b \in Borrowers, Resume(b) PROVE lease' = lease
  <2>1. /\ pc[b] = "granted" /\ Wake(slots, waiters, [pc EXCEPT ![b] = NextPhase])
        /\ \A a \in Borrowers \ {b} : conn'[a] = conn[a]
    BY <1>2, <1>7 DEF Resume, TakeIdle
  <2> QED  BY <1>4, <1>5, <2>1
<1>8. ASSUME NEW b \in Borrowers, AbandonBorrow(b) \/ CancelGranted(b)
      PROVE  lease' = lease
  <2>1. /\ pc[b] \in {"granted", "probing", "creating"}
        /\ Wake(slots + 1, waiters, [pc EXCEPT ![b] = "out"])
        /\ \A a \in Borrowers \ {b} : conn'[a] = conn[a]
    BY <1>2, <1>8 DEF AbandonBorrow, CancelGranted, ReleaseSlot
  <2> QED  BY <1>4, <1>5, <2>1
<1>9. ASSUME NEW b \in Borrowers,
             ProbeFail(b) \/ CancelQueued(b) \/ BodyEnds(b) \/ Raises(b)
      PROVE  lease' = lease
  <2>1. /\ \/ pc'[b] \notin Leasing /\ pc[b] \notin Leasing
           \/ pc'[b] \in Leasing /\ pc[b] \in Leasing /\ conn'[b] = conn[b]
        /\ \A a \in Borrowers \ {b} : conn'[a] = conn[a] /\ pc'[a] = pc[a]
    BY <1>2, <1>9 DEF ProbeFail, CancelQueued, BodyEnds, Raises
  <2> QED  BY <1>3, <2>1
<1>10. ASSUME \/ \E b \in Borrowers : Write(b)
              \/ CloseDb \/ CloseResume \/ UNCHANGED vars
       PROVE  lease' = lease
  <2>1. UNCHANGED <<pc, conn>>
    BY <1>10 DEF Write, CloseDb, CloseResume, CloseVisit, vars, poolVars
  <2> QED  BY <1>3, <2>1
<1>11. ASSUME NEW b \in Borrowers, ProbeOk(b) \/ CreateOk(b)
       PROVE  Lease!Grant(b)
  <2>1. /\ pc[b] \in {"probing", "creating"} /\ pc'[b] = "body"
        /\ \A a \in Borrowers \ {b} : conn'[a] = conn[a] /\ pc'[a] = pc[a]
    BY <1>2, <1>11 DEF ProbeOk, CreateOk
  <2>2. lease[b] = NoConn  BY <2>1 DEF lease
  <2>3. conn'[b] \in Conns
    BY <1>1, <2>1, PhaseFacts DEF TypeOK
  <2>4. \A a \in Borrowers \ {b} : lease[a] # conn'[b]
    BY <1>1, <2>1, <2>3, PoolAssumption, LeaseFacts
    DEF IInv, ConnectionsExclusive
  <2>5. conn'[b] \in Conns \ Lease!Leased
    BY <2>2, <2>3, <2>4, PoolAssumption DEF Lease!Leased
  <2>6. lease' = [lease EXCEPT ![b] = conn'[b]]
    BY <2>1 DEF lease
  <2>7. Cardinality(Lease!Running) < POOL_SIZE
    <3>1. Lease!Running \in SUBSET (At(pc, Active) \ {b})
      BY <1>1, <2>2, LeaseFacts, PhaseFacts DEF Lease!Running, At
    <3>2. b \in At(pc, Active)  BY <2>1, PhaseFacts DEF At
    <3>3. /\ IsFiniteSet(At(pc, Active) \ {b})
          /\ Cardinality(At(pc, Active) \ {b}) = Cardinality(At(pc, Active)) - 1
      BY <3>2, AtFinite, FS_RemoveElement
    <3>4. /\ IsFiniteSet(Lease!Running)
          /\ Cardinality(Lease!Running) <= Cardinality(At(pc, Active)) - 1
      BY <3>1, <3>3, FS_Subset
    <3>5. /\ slots + Cardinality(At(pc, WithSlot)) = POOL_SIZE
          /\ Cardinality(At(pc, Active)) <= Cardinality(At(pc, WithSlot))
      BY InIsAt, ActiveHaveSlots DEF IInv, SlotsConserved
    <3>6. Cardinality(Lease!Running) \in Nat  BY <3>4, FS_CardinalityType
    <3>7. /\ Cardinality(At(pc, Active)) \in Nat
          /\ Cardinality(At(pc, WithSlot)) \in Nat
      BY AtFinite
    <3>8. POOL_SIZE \in Nat  BY PoolAssumption
    <3> QED  BY <1>5, <3>4, <3>5, <3>6, <3>7, <3>8
  <2>8. Lease!Cardinality(Lease!Running) = Cardinality(Lease!Running)
    BY DEF Lease!Cardinality, Cardinality
  <2> QED  BY <2>2, <2>5, <2>6, <2>7, <2>8 DEF Lease!Grant
<1>12. ASSUME NEW b \in Borrowers,
              Commit(b) \/ Rollback(b) \/ RollbackFails(b) \/ CancelBlock(b)
       PROVE  Lease!Return(b)
  <2>1. /\ pc[b] \in Leasing /\ ReleaseSlot(b)
        /\ conn' = [conn EXCEPT ![b] = NoConn]
    BY <1>12 DEF Commit, Rollback, RollbackFails, CancelBlock, ReleaseConnection
  <2>2. /\ waiters \in Seq(Borrowers)
        /\ [pc EXCEPT ![b] = "out"] \in [Borrowers -> Phases]
        /\ QueueOf(waiters, [pc EXCEPT ![b] = "out"])
    BY <1>1, <1>5, <2>1 DEF IInv, TypeOK, QueueHoldsWaiters, QueueOf
  <2>3. \A a \in Borrowers :
          \/ pc'[a] = [pc EXCEPT ![b] = "out"][a]
          \/ [pc EXCEPT ![b] = "out"][a] = "queued" /\ pc'[a] = "granted"
    BY <1>5, <2>1, <2>2, WakeStep DEF ReleaseSlot
  <2>4. lease' = [lease EXCEPT ![b] = NoConn]
    BY <1>2, <2>1, <2>3 DEF lease
  <2> QED  BY <1>1, <2>1, <2>4, LeaseFacts DEF Lease!Return
<1> QED
  BY <1>6, <1>7, <1>8, <1>9, <1>10, <1>11, <1>12
  DEF Next, Advance, Cancel, Lease!Next

\* get_db() implements exclusive leases of at most POOL_SIZE connections.
THEOREM PoolImplementsLease == Spec => ImplementsLease
<1>1. Init => Lease!Init
  BY DEF Init, Lease!Init, lease
<1>2. IInv /\ IInv' /\ [Next]_vars => [Lease!Next]_lease
  BY NextLease
<1> QED
  BY <1>1, <1>2, PoolInvariant, PTL DEF Spec, ImplementsLease, Lease!Spec

=============================================================================
