--------------------------- MODULE Backtest_proofs ---------------------------
(***************************************************************************)
(* Theorems about Backtest: in any run over any tables, its types, that no *)
(* trade runs backwards, that the folds of the walk add up to the run, and *)
(* that the books balance.  The loops of the engine are recursive          *)
(* functions, so first of all: induction on a number, and what a loop that *)
(* adds up, or that skips, computes.                                       *)
(***************************************************************************)
EXTENDS Backtest, FiniteSetTheorems, WellFoundedInduction, TLAPS

-----------------------------------------------------------------------------
(* Least and greatest times                                                *)

Below == {p \in Nat \X Nat : p[1] < p[2]}

\* Any set of numbers has a least one.
LEMMA LeastExists ==
    ASSUME NEW S \in SUBSET Nat, S # {}
    PROVE  \E x \in S : \A y \in S : x <= y
<1>1. Below = OpToRel(<, Nat)
    BY DEF Below, OpToRel
<1>2. IsWellFoundedOn(Below, Nat)
    BY <1>1, NatLessThanWellFounded
<1>3. PICK x \in S : \A y \in S : ~(<<y, x>> \in Below)
    BY <1>2, WFMin
<1>4. ASSUME NEW y \in S PROVE x <= y
    <2>1. x \in Nat /\ y \in Nat /\ ~(<<y, x>> \in Below)
        BY <1>3
    <2>2. ~(y < x)
        BY <2>1 DEF Below
    <2>3. QED
        BY <2>1, <2>2
<1>5. QED
    BY <1>4

\* Min finds it.
LEMMA MinIsLeast ==
    ASSUME NEW S \in SUBSET Nat, S # {}
    PROVE  Min(S) \in S /\ \A y \in S : Min(S) <= y
BY LeastExists DEF Min

\* A set of numbers under a bound has a greatest one.
LEMMA MaxIsGreatest ==
    ASSUME NEW S \in SUBSET Nat, S # {}, NEW n \in Nat, \A x \in S : x <= n
    PROVE  Max(S) \in S /\ \A y \in S : Max(S) >= y
<1> DEFINE Gaps == {n - x : x \in S}
<1>1. Gaps \in SUBSET Nat /\ Gaps # {}
    <2>1. \A x \in S : n - x \in Nat
        OBVIOUS
    <2>2. QED
        BY <2>1
<1>2. PICK g \in Gaps : \A h \in Gaps : g <= h
    BY <1>1, LeastExists
<1>3. PICK x \in S : g = n - x
    BY <1>2
<1>4. ASSUME NEW y \in S PROVE x >= y
    <2>1. n - y \in Gaps
        OBVIOUS
    <2>2. n - x <= n - y
        BY <1>2, <1>3, <2>1
    <2>3. QED
        BY <2>2
<1>5. QED
    BY <1>4 DEF Max

-----------------------------------------------------------------------------
(* Induction, and functions defined by recursion on a number               *)

\* A set of numbers with 0 and the successor of each of its members has them all.
LEMMA NaturalInduction ==
    ASSUME NEW P \in SUBSET Nat, 0 \in P, \A n \in P : n + 1 \in P
    PROVE  \A n \in Nat : n \in P
<1> SUFFICES ASSUME Nat \ P # {} PROVE FALSE
    OBVIOUS
<1>1. PICK x \in Nat \ P : \A y \in Nat \ P : x <= y
    BY LeastExists
<1>2. x # 0 /\ x - 1 \in Nat
    BY <1>1
<1>3. x - 1 \in P
    BY <1>1, <1>2
<1>4. (x - 1) + 1 = x
    BY <1>1
<1>5. QED
    BY <1>1, <1>3, <1>4

\* The same up to a bound.
LEMMA InductionUpTo ==
    ASSUME NEW m \in Nat, NEW P, 0 \in P, \A n \in 0..(m - 1) : n \in P => n + 1 \in P
    PROVE  \A n \in 0..m : n \in P
<1> DEFINE Q == {n \in Nat : n <= m => n \in P}
<1>1. 0 \in Q
    OBVIOUS
<1>2. \A n \in Q : n + 1 \in Q
    <2> SUFFICES ASSUME NEW n \in Q, n + 1 <= m PROVE n + 1 \in P
        OBVIOUS
    <2>1. n \in 0..(m - 1) /\ n \in P
        OBVIOUS
    <2>2. QED
        BY <2>1
<1>3. Q \in SUBSET Nat
    OBVIOUS
<1>4. \A n \in Nat : n \in Q
    <2> HIDE DEF Q
    <2>1. QED
        BY <1>1, <1>2, <1>3, NaturalInduction
<1>5. QED
    BY <1>4

\* f has the first value base and comes to each other one by a step.
Recurs(f, m, S, base, step) ==
    /\ f \in [0..m -> S]
    /\ f[0] = base
    /\ \A i \in 1..m : f[i] = step[<<f[i - 1], i>>]

\* There is a function with a given first value and a given step to each other one.
LEMMA RecursionExists ==
    ASSUME NEW m \in Nat, NEW S, NEW base \in S, NEW step \in [S \X (1..m) -> S]
    PROVE  \E f : Recurs(f, m, S, base, step)
<1> DEFINE P == {n \in 0..m : \E f : Recurs(f, n, S, base, step)}
<1>1. 0 \in P
    <2>1. Recurs([k \in 0..0 |-> base], 0, S, base, step)
        BY DEF Recurs
    <2>2. 0 \in 0..m
        OBVIOUS
    <2>3. QED
        BY <2>1, <2>2
<1>2. ASSUME NEW n \in 0..(m - 1), n \in P PROVE n + 1 \in P
    <2>1. PICK f : Recurs(f, n, S, base, step)
        BY <1>2
    <2> USE DEF Recurs
    <2> DEFINE g == [k \in 0..(n + 1) |-> IF k = n + 1 THEN step[<<f[n], n + 1>>] ELSE f[k]]
    <2>2. n \in 0..n /\ n + 1 \in 1..m /\ n + 1 \in 0..m
        OBVIOUS
    <2>3. <<f[n], n + 1>> \in S \X (1..m)
        BY <2>1, <2>2
    <2>4. step[<<f[n], n + 1>>] \in S
        BY <2>3
    <2>5. g \in [0..(n + 1) -> S]
        BY <2>1, <2>4
    <2>6. g[0] = base
        BY <2>1
    <2>7. ASSUME NEW i \in 1..(n + 1) PROVE g[i] = step[<<g[i - 1], i>>]
        <3>1. i \in 0..(n + 1) /\ i - 1 \in 0..(n + 1) /\ i - 1 # n + 1
            OBVIOUS
        <3>2. g[i - 1] = f[i - 1]
            BY <3>1
        <3>3. CASE i = n + 1
            <4>1. i - 1 = n /\ g[i] = step[<<f[n], n + 1>>]
                BY <3>1, <3>3
            <4>2. QED
                BY <3>2, <3>3, <4>1
        <3>4. CASE i # n + 1
            <4>1. i \in 1..n /\ g[i] = f[i]
                BY <3>1, <3>4
            <4>2. QED
                BY <2>1, <3>2, <4>1
        <3>5. QED
            BY <3>3, <3>4
    <2> HIDE DEF g
    <2>8. Recurs(g, n + 1, S, base, step)
        BY <2>5, <2>6, <2>7
    <2> HIDE DEF Recurs
    <2>9. QED
        BY <2>2, <2>8
<1>3. \A n \in 0..m : n \in P
    <2> HIDE DEF P
    <2>1. QED
        BY <1>1, <1>2, InductionUpTo
<1>4. m \in P
    BY <1>3
<1>5. QED
    BY <1>4

-----------------------------------------------------------------------------
(* Sums                                                                    *)

\* The running sum of a loop begins with nothing and takes every number in.
LEMMA RunningFacts ==
    ASSUME NEW m \in Nat, NEW v \in [1..m -> Int]
    PROVE  /\ Len(v) = m
           /\ Running(v) \in [0..m -> Int]
           /\ Running(v)[0] = 0
           /\ \A i \in 1..m : Running(v)[i] = Running(v)[i - 1] + v[i]
<1> DEFINE step == [x \in Int \X (1..m) |-> x[1] + v[x[2]]]
           Sums(f) == f = [n \in 0..m |-> IF n = 0 THEN 0 ELSE f[n - 1] + v[n]]
<1>1. 0 \in Int /\ step \in [Int \X (1..m) -> Int]
    OBVIOUS
<1>2. PICK f : Recurs(f, m, Int, 0, step)
    <2> HIDE DEF step
    <2>1. QED
        BY <1>1, RecursionExists
<1>3. ASSUME NEW i \in 1..m PROVE f[i] = f[i - 1] + v[i]
    <2>1. i - 1 \in 0..m
        OBVIOUS
    <2>2. f[i - 1] \in Int
        BY <1>2, <2>1 DEF Recurs
    <2>3. <<f[i - 1], i>> \in Int \X (1..m)
        BY <2>2
    <2>4. step[<<f[i - 1], i>>] = f[i - 1] + v[i]
        BY <2>3
    <2>5. QED
        BY <1>2, <2>4 DEF Recurs
<1>4. Sums(f)
    <2> DEFINE g == [n \in 0..m |-> IF n = 0 THEN 0 ELSE f[n - 1] + v[n]]
    <2>1. DOMAIN f = 0..m /\ f = [n \in 0..m |-> f[n]]
        BY <1>2 DEF Recurs
    <2>2. ASSUME NEW n \in 0..m PROVE f[n] = g[n]
        <3>1. n = 0 \/ n \in 1..m
            OBVIOUS
        <3>2. QED
            BY <1>2, <1>3, <3>1 DEF Recurs
    <2>3. QED
        BY <2>1, <2>2
<1>5. Len(v) = m
    OBVIOUS
<1>6. Running(v) = CHOOSE r : Sums(r)
    BY <1>5 DEF Running
<1>7. Sums(Running(v))
    <2> HIDE DEF Sums
    <2>1. QED
        BY <1>4, <1>6
<1> DEFINE r == Running(v)
<1> HIDE DEF r
<1>8. Sums(r)
    BY <1>7 DEF r
<1>9. r[0] = 0 /\ \A i \in 1..m : r[i] = r[i - 1] + v[i]
    <2>1. 0 \in 0..m /\ \A i \in 1..m : i \in 0..m /\ i # 0
        OBVIOUS
    <2>2. QED
        BY <1>8, <2>1
<1>10. \A i \in 0..m : r[i] \in Int
    <2> DEFINE P == {i \in 0..m : r[i] \in Int}
    <2>1. 0 \in P
        BY <1>9
    <2>2. ASSUME NEW n \in 0..(m - 1), n \in P PROVE n + 1 \in P
        <3>1. n + 1 \in 1..m /\ (n + 1) - 1 = n /\ n + 1 \in 0..m
            OBVIOUS
        <3>2. r[n + 1] = r[n] + v[n + 1]
            BY <1>9, <3>1
        <3>3. QED
            BY <2>2, <3>1, <3>2
    <2>3. \A i \in 0..m : i \in P
        <3> HIDE DEF P
        <3>1. QED
            BY <2>1, <2>2, InductionUpTo
    <2>4. QED
        BY <2>3
<1>11. r \in [0..m -> Int]
    BY <1>8, <1>10
<1>12. QED
    BY <1>5, <1>9, <1>11 DEF r

\* Sums of two loops over the same positions add up to the sum of one that adds both.
LEMMA RunningAdds ==
    ASSUME NEW m \in Nat, NEW u \in [1..m -> Int], NEW v \in [1..m -> Int],
           NEW w \in [1..m -> Int], \A i \in 1..m : w[i] = u[i] + v[i]
    PROVE  \A i \in 0..m : Running(w)[i] = Running(u)[i] + Running(v)[i]
<1> DEFINE P == {i \in 0..m : Running(w)[i] = Running(u)[i] + Running(v)[i]}
<1>1. 0 \in P
    <2>1. Running(w)[0] = 0 /\ Running(u)[0] = 0 /\ Running(v)[0] = 0 /\ 0 \in 0..m
        BY RunningFacts
    <2>2. QED
        BY <2>1
<1>2. ASSUME NEW n \in 0..(m - 1), n \in P PROVE n + 1 \in P
    <2>1. n \in 0..m /\ n + 1 \in 1..m /\ n + 1 \in 0..m /\ (n + 1) - 1 = n
        OBVIOUS
    <2>2. /\ Running(w)[n + 1] = Running(w)[n] + w[n + 1]
          /\ Running(u)[n + 1] = Running(u)[n] + u[n + 1]
          /\ Running(v)[n + 1] = Running(v)[n] + v[n + 1]
        BY <2>1, RunningFacts
    <2>3. /\ Running(u)[n] \in Int /\ Running(v)[n] \in Int
          /\ u[n + 1] \in Int /\ v[n + 1] \in Int
        BY <2>1, RunningFacts
    <2>4. Running(w)[n] = Running(u)[n] + Running(v)[n] /\ w[n + 1] = u[n + 1] + v[n + 1]
        BY <1>2, <2>1
    <2>5. Running(w)[n + 1] = Running(u)[n + 1] + Running(v)[n + 1]
        BY <2>2, <2>3, <2>4
    <2>6. QED
        BY <2>1, <2>5
<1>3. \A i \in 0..m : i \in P
    <2> HIDE DEF P
    <2>1. QED
        BY <1>1, <1>2, InductionUpTo
<1>4. QED
    BY <1>3

\* The sum of a loop over a stretch of the positions is the difference of the sums
\* of one over all of them.
LEMMA RunningOfStretch ==
    ASSUME NEW m \in Nat, NEW n \in Nat, NEW a \in Nat, a + m <= n,
           NEW u \in [1..m -> Int], NEW v \in [1..n -> Int],
           \A i \in 1..m : u[i] = v[a + i]
    PROVE  \A i \in 0..m : Running(v)[a + i] = Running(v)[a] + Running(u)[i]
<1> DEFINE P == {i \in 0..m : Running(v)[a + i] = Running(v)[a] + Running(u)[i]}
<1>1. 0 \in P
    <2>1. a \in 0..n /\ a + 0 = a
        OBVIOUS
    <2>2. Running(v)[a] \in Int /\ Running(u)[0] = 0
        BY <2>1, RunningFacts
    <2>3. QED
        BY <2>1, <2>2
<1>2. ASSUME NEW k \in 0..(m - 1), k \in P PROVE k + 1 \in P
    <2>1. /\ k \in 0..m /\ k + 1 \in 1..m /\ k + 1 \in 0..m /\ (k + 1) - 1 = k
          /\ a \in 0..n /\ a + k \in 0..n /\ a + (k + 1) \in 1..n /\ (a + (k + 1)) - 1 = a + k
        OBVIOUS
    <2>2. /\ Running(v)[a + (k + 1)] = Running(v)[a + k] + v[a + (k + 1)]
          /\ Running(u)[k + 1] = Running(u)[k] + u[k + 1]
        <3>1. /\ \A i \in 1..n : Running(v)[i] = Running(v)[i - 1] + v[i]
              /\ \A i \in 1..m : Running(u)[i] = Running(u)[i - 1] + u[i]
            BY RunningFacts
        <3> HIDE DEF P
        <3>2. QED
            BY <2>1, <3>1, Zenon
    <2>3. Running(v)[a] \in Int /\ Running(u)[k] \in Int /\ u[k + 1] \in Int
        BY <2>1, RunningFacts
    <2>4. Running(v)[a + k] = Running(v)[a] + Running(u)[k] /\ v[a + (k + 1)] = u[k + 1]
        BY <1>2, <2>1
    <2>5. Running(v)[a + (k + 1)] = Running(v)[a] + Running(u)[k + 1]
        BY <2>2, <2>3, <2>4
    <2>6. QED
        BY <2>1, <2>5
<1>3. \A i \in 0..m : i \in P
    <2> HIDE DEF P
    <2>1. QED
        BY <1>1, <1>2, InductionUpTo
<1>4. QED
    BY <1>3

\* m numbers of v from behind position a.
StretchOf(v, a, m) == [i \in 1..m |-> v[a + i]]

\* They are what a loop over the positions from a to a + m adds.
LEMMA SumOfStretch ==
    ASSUME NEW n \in Nat, NEW v \in [1..n -> Int], NEW a \in Nat, NEW m \in Nat, a + m <= n
    PROVE  Running(v)[a + m] = Running(v)[a] + Running(StretchOf(v, a, m))[m]
<1> DEFINE u == StretchOf(v, a, m)
<1>1. m \in 0..m /\ \A i \in 1..m : a + i \in 1..n
    OBVIOUS
<1>2. u \in [1..m -> Int] /\ \A i \in 1..m : u[i] = v[a + i]
    BY <1>1 DEF StretchOf
<1> HIDE DEF u
<1>3. \A i \in 0..m : Running(v)[a + i] = Running(v)[a] + Running(u)[i]
    BY <1>2, RunningOfStretch
<1>4. QED
    BY <1>1, <1>3 DEF u

\* One number more adds itself.
LEMMA SumOfOneMore ==
    ASSUME NEW m \in Nat, NEW u \in [1..m -> Int], NEW v \in [1..(m + 1) -> Int],
           \A i \in 1..m : u[i] = v[i]
    PROVE  Sum(v) = Sum(u) + v[m + 1]
<1>1. /\ m + 1 \in Nat /\ m \in 0..m /\ 0 \in Nat /\ 0 + m <= m + 1 /\ 0 + m = m
      /\ m + 1 \in 1..(m + 1) /\ (m + 1) - 1 = m
    OBVIOUS
<1>2. \A i \in 1..m : u[i] = v[0 + i]
    OBVIOUS
<1>3. Running(v)[0 + m] = Running(v)[0] + Running(u)[m]
    BY <1>1, <1>2, RunningOfStretch
<1>4. Running(v)[0] = 0 /\ Running(u)[m] \in Int /\ Len(u) = m /\ Len(v) = m + 1
    BY <1>1, RunningFacts
<1>5. Running(v)[m] = Running(u)[m]
    BY <1>1, <1>3, <1>4
<1>6. Running(v)[m + 1] = Running(v)[m] + v[m + 1]
    BY <1>1, RunningFacts
<1>7. QED
    BY <1>4, <1>5, <1>6 DEF Sum

\* Nothing is added up as long as there is nothing.
LEMMA RunningOfNothing ==
    ASSUME NEW m \in Nat, NEW v \in [1..m -> Int], NEW a \in 0..m, \A i \in 1..a : v[i] = 0
    PROVE  \A i \in 0..a : Running(v)[i] = 0
<1> DEFINE P == {i \in 0..a : Running(v)[i] = 0}
<1>1. 0 \in P
    BY RunningFacts
<1>2. ASSUME NEW n \in 0..(a - 1), n \in P PROVE n + 1 \in P
    <2>1. n + 1 \in 1..m /\ n + 1 \in 1..a /\ n + 1 \in 0..a /\ (n + 1) - 1 = n
        OBVIOUS
    <2>2. Running(v)[n + 1] = Running(v)[n] + v[n + 1]
        BY <2>1, RunningFacts
    <2>3. Running(v)[n] = 0 /\ v[n + 1] = 0
        BY <1>2, <2>1
    <2>4. QED
        BY <2>1, <2>2, <2>3
<1>3. \A i \in 0..a : i \in P
    <2> HIDE DEF P
    <2>1. a \in Nat
        OBVIOUS
    <2>2. QED
        BY <1>1, <1>2, <2>1, InductionUpTo
<1>4. QED
    BY <1>3

\* Sums of numbers above nothing grow.
LEMMA RunningGrows ==
    ASSUME NEW m \in Nat, NEW v \in [1..m -> Int], \A i \in 1..m : v[i] > 0
    PROVE  \A i, j \in 0..m : i < j => Running(v)[i] < Running(v)[j]
<1> DEFINE P == {j \in 0..m : \A i \in 0..m : i < j => Running(v)[i] < Running(v)[j]}
<1>1. 0 \in P
    OBVIOUS
<1>2. ASSUME NEW n \in 0..(m - 1), n \in P PROVE n + 1 \in P
    <2>1. n \in 0..m /\ n + 1 \in 1..m /\ n + 1 \in 0..m /\ (n + 1) - 1 = n
        OBVIOUS
    <2>2. /\ Running(v)[n + 1] = Running(v)[n] + v[n + 1]
          /\ Running(v)[n] \in Int /\ v[n + 1] \in Int /\ v[n + 1] > 0
        BY <2>1, RunningFacts
    <2>3. ASSUME NEW i \in 0..m, i < n + 1 PROVE Running(v)[i] < Running(v)[n + 1]
        <3>1. Running(v)[i] \in Int
            BY RunningFacts
        <3>2. i = n \/ i < n
            BY <2>3
        <3>3. Running(v)[i] <= Running(v)[n]
            BY <1>2, <2>2, <3>1, <3>2
        <3>4. QED
            BY <2>2, <3>1, <3>3
    <2>4. QED
        BY <2>1, <2>3
<1>3. \A i \in 0..m : i \in P
    <2> HIDE DEF P
    <2>1. QED
        BY <1>1, <1>2, InductionUpTo
<1>4. QED
    BY <1>3

\* Counting is adding ones.
LEMMA CountIsSum ==
    ASSUME NEW m \in Nat, NEW B
    PROVE  /\ IsFiniteSet({k \in 1..m : k \in B})
           /\ Cardinality({k \in 1..m : k \in B}) = Sum([k \in 1..m |-> IF k \in B THEN 1 ELSE 0])
<1> DEFINE Ones(n) == [k \in 1..n |-> IF k \in B THEN 1 ELSE 0]
           Of(n) == {k \in 1..n : k \in B}
           P == {n \in 0..m : IsFiniteSet(Of(n)) /\ Cardinality(Of(n)) = Sum(Ones(n))}
<1>1. \A n \in Nat : Ones(n) \in [1..n -> Int]
    OBVIOUS
<1>2. 0 \in P
    <2>1. Of(0) = {}
        OBVIOUS
    <2>2. Sum(Ones(0)) = 0
        <3>1. Ones(0) \in [1..0 -> Int] /\ 0 \in Nat
            BY <1>1
        <3> HIDE DEF Ones
        <3>2. QED
            BY <3>1, RunningFacts DEF Sum
    <2>3. 0 \in 0..m
        OBVIOUS
    <2> HIDE DEF Of, Ones
    <2>4. QED
        BY <2>1, <2>2, <2>3, FS_EmptySet
<1>3. ASSUME NEW n \in 0..(m - 1), n \in P PROVE n + 1 \in P
    <2>1. /\ n \in Nat /\ n + 1 \in 0..m
          /\ Ones(n) \in [1..n -> Int] /\ Ones(n + 1) \in [1..(n + 1) -> Int]
        BY <1>1
    <2>2. \A i \in 1..n : Ones(n)[i] = Ones(n + 1)[i]
        OBVIOUS
    <2>3. Ones(n + 1)[n + 1] = IF n + 1 \in B THEN 1 ELSE 0
        OBVIOUS
    <2>4. Of(n + 1) = IF n + 1 \in B THEN Of(n) \cup {n + 1} ELSE Of(n)
        OBVIOUS
    <2>5. n + 1 \notin Of(n)
        OBVIOUS
    <2>6. IsFiniteSet(Of(n)) /\ Cardinality(Of(n)) = Sum(Ones(n))
        BY <1>3
    <2> HIDE DEF Of, Ones
    <2>7. Sum(Ones(n + 1)) = Sum(Ones(n)) + (IF n + 1 \in B THEN 1 ELSE 0)
        BY <2>1, <2>2, <2>3, SumOfOneMore
    <2>8. /\ IsFiniteSet(Of(n + 1))
          /\ Cardinality(Of(n + 1)) = Cardinality(Of(n)) + (IF n + 1 \in B THEN 1 ELSE 0)
        <3>1. Cardinality(Of(n)) \in Nat
            BY <2>6, FS_CardinalityType
        <3>2. CASE n + 1 \in B
            BY <2>4, <2>5, <2>6, <3>2, FS_AddElement
        <3>3. CASE n + 1 \notin B
            BY <2>4, <2>6, <3>1, <3>3
        <3>4. QED
            BY <3>2, <3>3
    <2>9. QED
        BY <2>1, <2>6, <2>7, <2>8
<1>4. \A n \in 0..m : n \in P
    <2> HIDE DEF P
    <2>1. QED
        BY <1>2, <1>3, InductionUpTo
<1>5. m \in P
    BY <1>4
<1>6. QED
    BY <1>5

\* There are m numbers from one to m.
LEMMA CountUpTo ==
    ASSUME NEW m \in Nat
    PROVE  IsFiniteSet(1..m) /\ Cardinality(1..m) = m
<1>1. IsFiniteSet(1..m) /\ Cardinality(1..m) = IF 1 > m THEN 0 ELSE m - 1 + 1
    BY FS_Interval
<1>2. QED
    BY <1>1

-----------------------------------------------------------------------------
(* Loops that skip                                                         *)

\* What is kept begins with nothing; each position is appended or skipped.
LEMMA KeptFacts ==
    ASSUME NEW S, NEW s \in Seq(S), NEW is
    PROVE  /\ Len(s) \in Nat /\ DOMAIN s = 1..Len(s)
           /\ KeptUpTo(s, is) \in [0..Len(s) -> Seq(S)]
           /\ KeptUpTo(s, is)[0] = <<>>
           /\ \A i \in 1..Len(s) :
                 KeptUpTo(s, is)[i] = IF i \in is THEN Append(KeptUpTo(s, is)[i - 1], s[i])
                                      ELSE KeptUpTo(s, is)[i - 1]
<1> DEFINE m == Len(s)
           step == [x \in Seq(S) \X (1..m) |-> IF x[2] \in is THEN Append(x[1], s[x[2]]) ELSE x[1]]
           Keeps(f) == f = [n \in 0..m |-> IF n = 0 THEN <<>>
                                           ELSE IF n \in is THEN Append(f[n - 1], s[n]) ELSE f[n - 1]]
<1>1. m \in Nat /\ DOMAIN s = 1..m /\ \A i \in 1..m : s[i] \in S
    OBVIOUS
<1>2. <<>> \in Seq(S) /\ step \in [Seq(S) \X (1..m) -> Seq(S)]
    OBVIOUS
<1>3. PICK f : Recurs(f, m, Seq(S), <<>>, step)
    <2> HIDE DEF step, m
    <2>1. QED
        BY <1>1, <1>2, RecursionExists
<1> HIDE DEF m
<1>4. ASSUME NEW i \in 1..m
      PROVE  f[i] = IF i \in is THEN Append(f[i - 1], s[i]) ELSE f[i - 1]
    <2>1. i - 1 \in 0..m
        BY <1>1
    <2>2. f[i - 1] \in Seq(S) /\ f[i] = step[<<f[i - 1], i>>]
        BY <1>3, <2>1 DEF Recurs
    <2>3. <<f[i - 1], i>> \in Seq(S) \X (1..m)
        BY <2>2
    <2>4. step[<<f[i - 1], i>>] = IF i \in is THEN Append(f[i - 1], s[i]) ELSE f[i - 1]
        BY <2>3
    <2>5. QED
        BY <2>2, <2>4
<1>5. Keeps(f)
    <2> DEFINE g == [n \in 0..m |-> IF n = 0 THEN <<>>
                                    ELSE IF n \in is THEN Append(f[n - 1], s[n]) ELSE f[n - 1]]
    <2>1. DOMAIN f = 0..m /\ f = [n \in 0..m |-> f[n]] /\ f[0] = <<>>
        BY <1>3 DEF Recurs
    <2>2. ASSUME NEW n \in 0..m PROVE f[n] = g[n]
        <3>1. n = 0 \/ (n # 0 /\ n \in 1..m)
            BY <1>1
        <3>2. CASE n = 0
            BY <2>1, <3>2
        <3>3. CASE n # 0 /\ n \in 1..m
            BY <1>4, <3>3
        <3>4. QED
            BY <3>1, <3>2, <3>3
    <2>3. g = [n \in 0..m |-> g[n]]
        OBVIOUS
    <2> HIDE DEF g
    <2>4. f = g
        BY <2>1, <2>2, <2>3
    <2>5. QED
        BY <2>4 DEF g
<1>6. KeptUpTo(s, is) = CHOOSE r : Keeps(r)
    BY DEF KeptUpTo, m
<1>7. Keeps(KeptUpTo(s, is))
    <2> HIDE DEF Keeps
    <2>1. QED
        BY <1>5, <1>6
<1> DEFINE r == KeptUpTo(s, is)
<1> HIDE DEF r
<1>8. Keeps(r)
    BY <1>7 DEF r
<1>9. /\ r[0] = <<>>
      /\ \A i \in 1..m : r[i] = IF i \in is THEN Append(r[i - 1], s[i]) ELSE r[i - 1]
    <2>1. 0 \in 0..m /\ \A i \in 1..m : i \in 0..m /\ i # 0
        BY <1>1
    <2>2. QED
        BY <1>8, <2>1
<1>10. \A i \in 0..m : r[i] \in Seq(S)
    <2> DEFINE P == {i \in 0..m : r[i] \in Seq(S)}
    <2>1. 0 \in P
        <3>1. 0 \in 0..m /\ <<>> \in Seq(S)
            BY <1>1
        <3>2. QED
            BY <1>9, <3>1
    <2>2. ASSUME NEW n \in 0..(m - 1), n \in P PROVE n + 1 \in P
        <3>1. n + 1 \in 1..m /\ (n + 1) - 1 = n /\ n + 1 \in 0..m
            BY <1>1
        <3>2. r[n + 1] = IF n + 1 \in is THEN Append(r[n], s[n + 1]) ELSE r[n]
            BY <1>9, <3>1
        <3>3. r[n] \in Seq(S) /\ s[n + 1] \in S
            BY <1>1, <2>2, <3>1
        <3>4. r[n + 1] \in Seq(S)
            BY <3>2, <3>3
        <3>5. QED
            BY <3>1, <3>4
    <2>3. \A i \in 0..m : i \in P
        <3> HIDE DEF P
        <3>1. QED
            BY <1>1, <2>1, <2>2, InductionUpTo
    <2>4. QED
        BY <2>3
<1>11. r \in [0..m -> Seq(S)]
    BY <1>8, <1>10
<1> HIDE DEF Keeps
<1>12. QED
    BY <1>1, <1>9, <1>11 DEF r, m

\* Nothing is kept but elements of s at the positions.
LEMMA KeptElements ==
    ASSUME NEW S, NEW s \in Seq(S), NEW is
    PROVE  \A i \in 0..Len(s) : \A k \in DOMAIN KeptUpTo(s, is)[i] :
              \E j \in 1..i : j \in is /\ KeptUpTo(s, is)[i][k] = s[j]
<1> DEFINE m == Len(s)
           K == KeptUpTo(s, is)
           From(i) == \A k \in DOMAIN K[i] : \E j \in 1..i : j \in is /\ K[i][k] = s[j]
           P == {i \in 0..m : From(i)}
<1> HIDE DEF K, m
<1>1. /\ m \in Nat /\ K \in [0..m -> Seq(S)] /\ K[0] = <<>>
      /\ \A i \in 1..m : K[i] = IF i \in is THEN Append(K[i - 1], s[i]) ELSE K[i - 1]
    BY KeptFacts DEF K, m
<1>2. 0 \in P
    BY <1>1
<1>3. ASSUME NEW n \in 0..(m - 1), n \in P PROVE n + 1 \in P
    <2>1. /\ n \in 0..m /\ n + 1 \in 1..m /\ n + 1 \in 0..m /\ (n + 1) - 1 = n
          /\ n + 1 \in 1..(n + 1) /\ \A j \in 1..n : j \in 1..(n + 1)
        BY <1>1
    <2>2. K[n + 1] = (IF n + 1 \in is THEN Append(K[n], s[n + 1]) ELSE K[n]) /\ K[n] \in Seq(S)
        BY <1>1, <2>1
    <2>3. From(n)
        BY <1>3
    <2>4. ASSUME NEW k \in DOMAIN K[n + 1]
          PROVE  \E j \in 1..(n + 1) : j \in is /\ K[n + 1][k] = s[j]
        <3>1. CASE k \in DOMAIN K[n] /\ K[n + 1][k] = K[n][k]
            BY <2>1, <2>3, <3>1
        <3>2. CASE n + 1 \in is /\ K[n + 1][k] = s[n + 1]
            BY <2>1, <3>2
        <3>3. \/ k \in DOMAIN K[n] /\ K[n + 1][k] = K[n][k]
              \/ n + 1 \in is /\ K[n + 1][k] = s[n + 1]
            BY <2>2
        <3>4. QED
            BY <3>1, <3>2, <3>3
    <2>5. QED
        BY <2>1, <2>4
<1>4. \A i \in 0..m : i \in P
    <2> HIDE DEF P
    <2>1. QED
        BY <1>1, <1>2, <1>3, InductionUpTo
<1>5. QED
    BY <1>4 DEF K, m

\* What is kept of a sequence ordered by time is ordered by time.
LEMMA KeptOrdered ==
    ASSUME NEW S, NEW s \in Seq(S), NEW is,
           \A x \in S : x.time \in Nat,
           \A i, j \in DOMAIN s : i < j => s[i].time < s[j].time
    PROVE  \A k, l \in DOMAIN Kept(s, is) : k < l => Kept(s, is)[k].time < Kept(s, is)[l].time
<1> DEFINE m == Len(s)
           K == KeptUpTo(s, is)
           Ordered(q) == \A k, l \in DOMAIN q : k < l => q[k].time < q[l].time
           P == {i \in 0..m : Ordered(K[i])}
<1> HIDE DEF K, m
<1>1. /\ m \in Nat /\ DOMAIN s = 1..m /\ K \in [0..m -> Seq(S)] /\ K[0] = <<>>
      /\ \A i \in 1..m : K[i] = IF i \in is THEN Append(K[i - 1], s[i]) ELSE K[i - 1]
    BY KeptFacts DEF K, m
<1>2. 0 \in P
    BY <1>1
<1>3. ASSUME NEW n \in 0..(m - 1), n \in P PROVE n + 1 \in P
    <2>1. /\ n \in 0..m /\ n + 1 \in 1..m /\ n + 1 \in 0..m /\ (n + 1) - 1 = n
        BY <1>1
    <2>2. K[n + 1] = (IF n + 1 \in is THEN Append(K[n], s[n + 1]) ELSE K[n]) /\ K[n] \in Seq(S)
        BY <1>1, <2>1
    <2>3. Ordered(K[n])
        BY <1>3
    <2>4. CASE n + 1 \in is
        <3>1. /\ Len(K[n]) \in Nat /\ DOMAIN K[n] = 1..Len(K[n])
              /\ DOMAIN K[n + 1] = 1..(Len(K[n]) + 1)
              /\ K[n + 1][Len(K[n]) + 1] = s[n + 1]
              /\ \A k \in DOMAIN K[n] : K[n + 1][k] = K[n][k]
            BY <2>2, <2>4
        <3>2. \A k \in DOMAIN K[n] : K[n][k].time < s[n + 1].time
            <4>1. \A j \in 1..n : j \in 1..m /\ j < n + 1
                BY <1>1
            <4>2. \A j \in 1..n : s[j].time < s[n + 1].time
                BY <1>1, <2>1, <4>1
            <4>3. \A k \in DOMAIN K[n] : \E j \in 1..n : j \in is /\ K[n][k] = s[j]
                BY <2>1, KeptElements DEF K, m
            <4>4. QED
                BY <4>2, <4>3
        <3>3. ASSUME NEW k \in DOMAIN K[n + 1], NEW l \in DOMAIN K[n + 1], k < l
              PROVE  K[n + 1][k].time < K[n + 1][l].time
            <4>1. k \in DOMAIN K[n]
                BY <3>1, <3>3
            <4>2. l \in DOMAIN K[n] \/ l = Len(K[n]) + 1
                BY <3>1
            <4>3. CASE l \in DOMAIN K[n]
                BY <2>3, <3>1, <3>3, <4>1, <4>3
            <4>4. CASE l = Len(K[n]) + 1
                BY <3>1, <3>2, <4>1, <4>4
            <4>5. QED
                BY <4>2, <4>3, <4>4
        <3>4. QED
            BY <2>1, <3>3
    <2>5. CASE n + 1 \notin is
        <3>1. K[n + 1] = K[n]
            BY <2>2, <2>5
        <3>2. QED
            BY <2>1, <2>3, <3>1
    <2>6. QED
        BY <2>4, <2>5
<1>4. \A i \in 0..m : i \in P
    <2> HIDE DEF P
    <2>1. QED
        BY <1>1, <1>2, <1>3, InductionUpTo
<1>5. Ordered(K[m])
    BY <1>1, <1>4
<1>6. QED
    BY <1>5 DEF Kept, K, m

\* What f makes of each element of a sequence, and of each position a loop stops at.
OverSeq(f, q) == [k \in DOMAIN q |-> f[q[k]]]
OverAll(f, s, is) == [j \in DOMAIN s |-> IF j \in is THEN f[s[j]] ELSE 0]

\* Adding something up over what is kept is adding it up over the positions.
LEMMA KeptSums ==
    ASSUME NEW S, NEW s \in Seq(S), NEW is, NEW f \in [S -> Int]
    PROVE  \A i \in 0..Len(s) :
              Sum(OverSeq(f, KeptUpTo(s, is)[i])) = Running(OverAll(f, s, is))[i]
<1> DEFINE m == Len(s)
           K == KeptUpTo(s, is)
           all == [j \in 1..m |-> IF j \in is THEN f[s[j]] ELSE 0]
           of(q) == [k \in DOMAIN q |-> f[q[k]]]
           P == {i \in 0..m : Sum(of(K[i])) = Running(all)[i]}
<1>1. /\ m \in Nat /\ DOMAIN s = 1..m /\ K \in [0..m -> Seq(S)] /\ K[0] = <<>>
      /\ \A i \in 1..m : K[i] = IF i \in is THEN Append(K[i - 1], s[i]) ELSE K[i - 1]
    BY KeptFacts
<1> HIDE DEF K
<1>2. \A i \in 1..m : s[i] \in S
    OBVIOUS
<1> HIDE DEF m
<1>3. all \in [1..m -> Int]
    BY <1>2
<1>4. \A i \in 1..m : all[i] = IF i \in is THEN f[s[i]] ELSE 0
    OBVIOUS
<1>5. ASSUME NEW q \in Seq(S) PROVE of(q) \in [1..Len(q) -> Int] /\ Len(q) \in Nat
    <2>1. DOMAIN q = 1..Len(q) /\ Len(q) \in Nat /\ \A k \in DOMAIN q : q[k] \in S
        OBVIOUS
    <2>2. QED
        BY <2>1
<1>6. ASSUME NEW q \in Seq(S), NEW x \in S PROVE Sum(of(Append(q, x))) = Sum(of(q)) + f[x]
    <2>1. /\ Append(q, x) \in Seq(S) /\ Len(q) \in Nat /\ Len(Append(q, x)) = Len(q) + 1
          /\ DOMAIN q = 1..Len(q) /\ DOMAIN Append(q, x) = 1..(Len(q) + 1)
          /\ \A i \in 1..Len(q) : Append(q, x)[i] = q[i]
          /\ Append(q, x)[Len(q) + 1] = x
        OBVIOUS
    <2>2. of(q) \in [1..Len(q) -> Int] /\ of(Append(q, x)) \in [1..(Len(q) + 1) -> Int]
        BY <1>5, <2>1
    <2>3. \A i \in 1..Len(q) : i \in DOMAIN q /\ i \in DOMAIN Append(q, x)
        BY <2>1
    <2>4. \A i \in 1..Len(q) : of(q)[i] = of(Append(q, x))[i]
        BY <2>1, <2>3
    <2>5. of(Append(q, x))[Len(q) + 1] = f[x]
        BY <2>1
    <2> HIDE DEF of
    <2>6. QED
        BY <2>1, <2>2, <2>4, <2>5, SumOfOneMore
<1>7. 0 \in P
    <2>1. of(<<>>) \in [1..0 -> Int] /\ Len(of(<<>>)) = 0
        OBVIOUS
    <2>2. 0 \in Nat /\ 0 \in 0..m
        BY <1>1
    <2> HIDE DEF of, all
    <2>3. Sum(of(<<>>)) = 0 /\ Running(all)[0] = 0
        BY <1>1, <1>3, <2>1, <2>2, RunningFacts DEF Sum
    <2>4. QED
        BY <1>1, <2>2, <2>3
<1> HIDE DEF of, all
<1>8. ASSUME NEW n \in 0..(m - 1), n \in P PROVE n + 1 \in P
    <2>1. /\ n \in 0..m /\ n + 1 \in 1..m /\ n + 1 \in 0..m /\ (n + 1) - 1 = n
        BY <1>1
    <2>2. /\ K[n + 1] = (IF n + 1 \in is THEN Append(K[n], s[n + 1]) ELSE K[n])
          /\ K[n] \in Seq(S) /\ s[n + 1] \in S
        BY <1>1, <1>2, <2>1
    <2>3. /\ Running(all)[n + 1] = Running(all)[n] + all[n + 1]
          /\ Running(all)[n] \in Int
        BY <1>1, <1>3, <2>1, RunningFacts
    <2>4. Sum(of(K[n])) = Running(all)[n]
        BY <1>8
    <2>5. CASE n + 1 \in is
        <3>1. Sum(of(K[n + 1])) = Sum(of(K[n])) + f[s[n + 1]]
            BY <1>6, <2>2, <2>5
        <3>2. all[n + 1] = f[s[n + 1]]
            BY <1>4, <2>1, <2>5
        <3>3. QED
            BY <2>1, <2>3, <2>4, <3>1, <3>2
    <2>6. CASE n + 1 \notin is
        <3>1. all[n + 1] = 0
            BY <1>4, <2>1, <2>6
        <3>2. K[n + 1] = K[n]
            BY <2>2, <2>6
        <3>3. QED
            BY <2>1, <2>3, <2>4, <3>1, <3>2
    <2>7. QED
        BY <2>5, <2>6
<1>9. \A i \in 0..m : i \in P
    <2> HIDE DEF P
    <2>1. QED
        BY <1>1, <1>7, <1>8, InductionUpTo
<1>10. \A i \in 0..m : Sum(of(K[i])) = Running(all)[i]
    BY <1>9
<1>11. all = OverAll(f, s, is) /\ \A i \in 0..m : of(K[i]) = OverSeq(f, K[i])
    BY <1>1 DEF all, of, OverAll, OverSeq
<1>12. QED
    BY <1>10, <1>11 DEF m, K

\* The same once the loop is over.
LEMMA KeptSum ==
    ASSUME NEW S, NEW s \in Seq(S), NEW is, NEW f \in [S -> Int]
    PROVE  Sum(OverSeq(f, Kept(s, is))) = Running(OverAll(f, s, is))[Len(s)]
<1>1. Len(s) \in 0..Len(s)
    <2>1. Len(s) \in Nat
        OBVIOUS
    <2>2. QED
        BY <2>1
<1>2. QED
    BY <1>1, KeptSums DEF Kept

-----------------------------------------------------------------------------
(* Trades                                                                  *)

\* There is a nearest price, and no other is nearer.
LEMMA NearestIsNearest ==
    ASSUME NEW p, NEW t \in Nat, Points(p) \in SUBSET Nat, Points(p) # {}
    PROVE  /\ Nearest(p, t) \in Points(p)
           /\ \A e \in Points(p) : Distance(Nearest(p, t), t) <= Distance(e, t)
<1> DEFINE Far == {Distance(d, t) : d \in Points(p)}
           Wanted(d) == \A e \in Points(p) \ {d} :
                            \/ Distance(d, t) < Distance(e, t)
                            \/ Distance(d, t) = Distance(e, t) /\ d > e
<1>1. \A d \in Points(p) : Distance(d, t) \in Nat
    BY DEF Distance
<1>2. PICK f \in Far : \A g \in Far : f <= g
    <2>1. Far \in SUBSET Nat /\ Far # {}
        BY <1>1
    <2> HIDE DEF Far
    <2>2. QED
        BY <2>1, LeastExists
<1>3. \E d \in Points(p) : Wanted(d)
    <2>1. PICK d \in Points(p) : f = Distance(d, t)
        BY <1>2
    <2>2. CASE \E e \in Points(p) : e # d /\ Distance(e, t) = f /\ e > d
        <3>1. PICK e \in Points(p) : Distance(e, t) = f /\ e > d
            BY <2>2
        <3>2. ASSUME NEW x \in Points(p) \ {e}
              PROVE  Distance(e, t) < Distance(x, t) \/ (Distance(e, t) = Distance(x, t) /\ e > x)
            <4>1. f <= Distance(x, t) /\ x \in Nat /\ e \in Nat /\ d \in Nat
                BY <1>2
            <4>2. QED
                BY <2>1, <3>1, <3>2, <4>1 DEF Distance
        <3>3. QED
            BY <3>2
    <2>3. CASE ~\E e \in Points(p) : e # d /\ Distance(e, t) = f /\ e > d
        <3>1. ASSUME NEW x \in Points(p) \ {d}
              PROVE  Distance(d, t) < Distance(x, t) \/ (Distance(d, t) = Distance(x, t) /\ d > x)
            <4>1. f <= Distance(x, t) /\ x \in Nat /\ d \in Nat /\ Distance(x, t) \in Nat /\ f \in Nat
                BY <1>1, <1>2, <2>1
            <4>2. QED
                BY <2>1, <2>3, <3>1, <4>1
        <3>2. QED
            BY <3>1
    <2>4. QED
        BY <2>2, <2>3
<1>4. Nearest(p, t) \in Points(p) /\ Wanted(Nearest(p, t))
    BY <1>3 DEF Nearest
<1>5. ASSUME NEW e \in Points(p) PROVE Distance(Nearest(p, t), t) <= Distance(e, t)
    BY <1>1, <1>4
<1>6. QED
    BY <1>4, <1>5

\* The exit is a price at or after the signal; it lies beyond the holding period
\* only when nothing lies within.
LEMMA ExitIsLater ==
    ASSUME NEW p, NEW t \in Nat, Points(p) \in SUBSET Nat, Future(p, t) # {}
    PROVE  /\ Exit(p, t) \in Future(p, t)
           /\ Exit(p, t) > t + Holding =>
                  \A d \in Points(p) : ~ d \in t..(t + Holding)
<1> DEFINE held == {d \in Future(p, t) : d <= t + Holding}
<1>1. Holding \in Nat /\ Future(p, t) \in SUBSET Nat
    BY BacktestAssumption DEF Future
<1>2. CASE held # {}
    <2>1. Max(held) \in held
        <3>1. held \in SUBSET Nat /\ t + Holding \in Nat /\ \A x \in held : x <= t + Holding
            BY <1>1
        <3>2. QED
            BY <1>2, <3>1, MaxIsGreatest
    <2>2. Exit(p, t) = Max(held)
        BY <1>2 DEF Exit
    <2>3. QED
        BY <1>1, <2>1, <2>2
<1>3. CASE held = {}
    <2>1. Exit(p, t) = Min(Future(p, t))
        BY <1>3 DEF Exit
    <2>2. \A d \in Points(p) : ~ d \in t..(t + Holding)
        BY <1>1, <1>3 DEF Future
    <2>3. QED
        BY <1>1, <2>1, <2>2, MinIsLeast
<1>4. QED
    BY <1>2, <1>3

\* A signal that is traded opens no later than it closes, for any history of
\* prices, although it may open at a price from after the signal: no price
\* after the signal is nearer than the one it opens at (engine.py:295, :310).
THEOREM TradeRunsForward ==
    ASSUME NEW s, NEW p, s.time \in Nat, Points(p) \in SUBSET Nat, Tradable(s, p)
    PROVE  LET t == Trade(s, p)
           IN  /\ t.entry <= t.exit /\ t.entry_time <= t.exit
               /\ t.exit > t.entry_time + Holding =>
                      \A d \in Points(p) : ~ d \in t.entry_time..(t.entry_time + Holding)
<1> DEFINE entry == Nearest(p, s.time)
           exit == Exit(p, s.time)
<1>1. Future(p, s.time) # {} /\ Future(p, s.time) \subseteq Points(p)
    BY DEF Tradable, Future
<1>2. /\ exit \in Future(p, s.time)
      /\ exit > s.time + Holding => \A d \in Points(p) : ~ d \in s.time..(s.time + Holding)
    BY <1>1, ExitIsLater
<1>3. entry \in Points(p) /\ Distance(entry, s.time) <= Distance(exit, s.time)
    BY <1>1, <1>2, NearestIsNearest
<1>4. exit \in Nat /\ entry \in Nat /\ exit >= s.time
    BY <1>1, <1>2, <1>3 DEF Future
<1> HIDE DEF entry, exit
<1>5. entry <= exit
    BY <1>3, <1>4 DEF Distance
<1>6. Trade(s, p).entry = entry /\ Trade(s, p).exit = exit /\ Trade(s, p).entry_time = s.time
    BY DEF Trade, entry, exit
<1>7. QED
    BY <1>2, <1>4, <1>5, <1>6

\* The signals and the prices a run may have loaded.
Signal == [time: Nat, level: 0..3, aware: BOOLEAN]

History(p) == DOMAIN p \subseteq Nat /\ \A t \in DOMAIN p : p[t] \in Int \cup {None}

Taken(ss, p) == {i \in DOMAIN ss : Tradable(ss[i], p)}

\* The times of the known prices are numbers, and so are the prices.
LEMMA PointsFacts ==
    ASSUME NEW p, History(p)
    PROVE  Points(p) \in SUBSET Nat /\ \A t \in Points(p) : p[t] \in Int
BY DEF History, Points

\* A trade is kept for a day at least.
LEMMA HoldingDaysFacts ==
    ASSUME NEW from \in Nat, NEW to \in Nat, from <= to
    PROVE  HoldingDays(from, to) \in Nat \ {0}
<1> DEFINE q == (to - from) \div Day
<1>1. Day \in Nat \ {0} /\ to - from \in Nat
    BY BacktestAssumption
<1>2. q \in Nat
    BY <1>1
<1> HIDE DEF q
<1> DEFINE ds == {1, q}
<1>3. ds \in SUBSET Nat /\ ds # {} /\ q + 1 \in Nat /\ \A x \in ds : x <= q + 1
    BY <1>2
<1>4. 1 \in ds /\ \A x \in ds : x \in Nat
    BY <1>2
<1> HIDE DEF ds
<1>5. Max(ds) \in ds /\ \A y \in ds : Max(ds) >= y
    BY <1>3, MaxIsGreatest
<1>6. Max(ds) \in Nat \ {0}
    BY <1>4, <1>5
<1>7. QED
    BY <1>6 DEF HoldingDays, q, ds

\* A trade is made of known prices.
LEMMA TradeFacts ==
    ASSUME NEW s \in Signal, NEW p, History(p), Tradable(s, p)
    PROVE  LET t == Trade(s, p)
           IN  /\ {t.entry, t.exit} \subseteq Points(p)
               /\ t.pnl \in Int
               /\ t.holding_days \in Nat \ {0}
               /\ t.entry_time = s.time
<1> DEFINE entry == Nearest(p, s.time)
           exit == Exit(p, s.time)
<1>1. s.time \in Nat
    BY DEF Signal
<1>2. Points(p) \in SUBSET Nat /\ \A t \in Points(p) : p[t] \in Int
    BY PointsFacts
<1>3. Future(p, s.time) # {} /\ \A d \in Future(p, s.time) : d \in Points(p) /\ d >= s.time
    BY DEF Tradable, Future
<1>4. exit \in Future(p, s.time)
    BY <1>1, <1>2, <1>3, ExitIsLater
<1>5. entry \in Points(p)
    BY <1>1, <1>2, <1>3, NearestIsNearest
<1>6. exit \in Points(p) /\ exit >= s.time
    BY <1>3, <1>4
<1> HIDE DEF entry, exit
<1>7. p[exit] - p[entry] \in Int
    BY <1>2, <1>5, <1>6
<1>8. HoldingDays(s.time, exit) \in Nat \ {0}
    BY <1>1, <1>2, <1>6, HoldingDaysFacts
<1>9. /\ Trade(s, p).entry = entry /\ Trade(s, p).exit = exit /\ Trade(s, p).entry_time = s.time
      /\ Trade(s, p).pnl = p[exit] - p[entry]
      /\ Trade(s, p).holding_days = HoldingDays(s.time, exit)
    BY DEF Trade, entry, exit
<1>10. QED
    BY <1>5, <1>6, <1>7, <1>8, <1>9

\* The trades are those of the tradable signals.
LEMMA GeneratedFacts ==
    ASSUME NEW ss \in Seq(Signal), NEW p
    PROVE  LET tr == GenerateTrades(ss, p)
               taken == Kept(ss, Taken(ss, p))
           IN  /\ taken \in Seq(Signal)
               /\ Len(tr) \in Nat /\ DOMAIN tr = 1..Len(tr) /\ Len(tr) = Len(taken)
               /\ tr = [k \in 1..Len(tr) |-> Trade(taken[k], p)]
               /\ \A k \in 1..Len(tr) : taken[k] \in Signal /\ Tradable(taken[k], p)
<1> DEFINE taken == Kept(ss, Taken(ss, p))
<1>1. /\ Len(ss) \in Nat /\ DOMAIN ss = 1..Len(ss)
      /\ KeptUpTo(ss, Taken(ss, p)) \in [0..Len(ss) -> Seq(Signal)]
    BY KeptFacts
<1>2. taken \in Seq(Signal)
    BY <1>1 DEF Kept
<1>3. \A k \in DOMAIN taken : \E j \in 1..Len(ss) : j \in Taken(ss, p) /\ taken[k] = ss[j]
    <2>1. Len(ss) \in 0..Len(ss)
        BY <1>1
    <2>2. QED
        BY <2>1, KeptElements DEF Kept
<1> HIDE DEF taken
<1>4. DOMAIN taken = 1..Len(taken) /\ Len(taken) \in Nat /\ \A k \in DOMAIN taken : taken[k] \in Signal
    BY <1>2
<1>5. \A k \in DOMAIN taken : Tradable(taken[k], p)
    BY <1>3 DEF Taken
<1>6. GenerateTrades(ss, p) = [k \in 1..Len(taken) |-> Trade(taken[k], p)]
    BY <1>4 DEF GenerateTrades, Taken, taken
<1>7. Len(GenerateTrades(ss, p)) = Len(taken) /\ DOMAIN GenerateTrades(ss, p) = 1..Len(taken)
    BY <1>4, <1>6
<1>8. QED
    BY <1>2, <1>4, <1>5, <1>6, <1>7 DEF taken

-----------------------------------------------------------------------------
(* Books                                                                   *)

\* Trades with their gains, as GenerateTrades makes them.
Traded(tr) == /\ Len(tr) \in Nat /\ DOMAIN tr = 1..Len(tr)
              /\ \A k \in DOMAIN tr : tr[k].pnl \in Int

\* Gains over any choice of the trades are numbers to add up.
LEMMA PnlsFacts ==
    ASSUME NEW tr, Traded(tr), NEW ks
    PROVE  /\ Pnls(tr, ks) \in [1..Len(tr) -> Int]
           /\ \A k \in 1..Len(tr) : Pnls(tr, ks)[k] = IF k \in ks THEN tr[k].pnl ELSE 0
BY DEF Traded, Pnls

\* The curve begins with the capital and ends with all gains added to it.
LEMMA CurveFacts ==
    ASSUME NEW tr, Traded(tr)
    PROVE  LET eq == EquityCurve(tr)
               all == Pnls(tr, DOMAIN tr)
           IN  /\ Len(eq) = Len(tr) + 1
               /\ \A k \in 1..(Len(tr) + 1) : eq[k] = Capital + Running(all)[k - 1]
               /\ eq # <<>> /\ eq[1] = Capital
               /\ eq[Len(eq)] = Capital + Pnl(tr, DOMAIN tr)
               /\ Pnl(tr, DOMAIN tr) \in Int /\ Capital \in Int
<1> DEFINE all == Pnls(tr, DOMAIN tr)
           m == Len(tr)
           eq == EquityCurve(tr)
<1>1. m \in Nat /\ Capital \in Nat /\ all \in [1..m -> Int]
    BY BacktestAssumption, PnlsFacts DEF Traded
<1>2. Len(all) = m /\ Running(all) \in [0..m -> Int] /\ Running(all)[0] = 0
    <2> HIDE DEF all, m
    <2>1. QED
        BY <1>1, RunningFacts
<1>3. eq = [k \in 1..(m + 1) |-> Capital + Running(all)[k - 1]]
    BY DEF EquityCurve
<1> HIDE DEF all, m, eq
<1>4. Len(eq) = m + 1 /\ DOMAIN eq = 1..(m + 1)
    BY <1>1, <1>3
<1>5. \A k \in 1..(m + 1) : eq[k] = Capital + Running(all)[k - 1]
    BY <1>3
<1>6. /\ 1 \in 1..(m + 1) /\ 1 - 1 = 0 /\ m + 1 \in 1..(m + 1) /\ (m + 1) - 1 = m /\ m \in 0..m
    BY <1>1
<1>7. eq # <<>> /\ eq[1] = Capital
    <2>1. eq[1] = Capital + Running(all)[0]
        BY <1>5, <1>6
    <2>2. eq # <<>>
        BY <1>1, <1>4
    <2>3. QED
        BY <1>1, <1>2, <2>1, <2>2
<1>8. eq[m + 1] = Capital + Running(all)[m] /\ Running(all)[m] \in Int
    BY <1>2, <1>5, <1>6
<1>9. Pnl(tr, DOMAIN tr) = Running(all)[m]
    BY <1>2 DEF Pnl, Sum, all
<1>10. QED
    BY <1>1, <1>4, <1>5, <1>7, <1>8, <1>9 DEF m, eq, all

\* Every trade is a win or a loss, and their gains add up to all gains.
LEMMA WinsAndLosses ==
    ASSUME NEW tr, Traded(tr)
    PROVE  /\ IsFiniteSet(Winning(tr)) /\ IsFiniteSet(Losing(tr))
           /\ Cardinality(Winning(tr)) \in Nat /\ Cardinality(Losing(tr)) \in Nat
           /\ Len(tr) = Cardinality(Winning(tr)) + Cardinality(Losing(tr))
           /\ Pnl(tr, DOMAIN tr) = Pnl(tr, Winning(tr)) + Pnl(tr, Losing(tr))
           /\ Pnl(tr, Winning(tr)) \in Int /\ Pnl(tr, Losing(tr)) \in Int
           /\ Losing(tr) = {} => Pnl(tr, Losing(tr)) = 0
<1> DEFINE m == Len(tr)
           W == Winning(tr)
           L == Losing(tr)
<1>1. m \in Nat /\ DOMAIN tr = 1..m /\ \A k \in 1..m : tr[k].pnl \in Int
    BY DEF Traded
<1>2. W \cup L = 1..m /\ W \cap L = {} /\ W \subseteq 1..m /\ L \subseteq 1..m
    BY <1>1 DEF Winning, Losing
<1>3. IsFiniteSet(1..m) /\ Cardinality(1..m) = m
    BY <1>1, CountUpTo
<1>4. /\ Pnls(tr, W) \in [1..m -> Int] /\ Pnls(tr, L) \in [1..m -> Int]
      /\ Pnls(tr, DOMAIN tr) \in [1..m -> Int]
      /\ \A k \in 1..m : /\ Pnls(tr, W)[k] = IF k \in W THEN tr[k].pnl ELSE 0
                         /\ Pnls(tr, L)[k] = IF k \in L THEN tr[k].pnl ELSE 0
                         /\ Pnls(tr, DOMAIN tr)[k] = tr[k].pnl
    BY <1>1, PnlsFacts
<1> HIDE DEF m, W, L
<1>5. IsFiniteSet(W) /\ IsFiniteSet(L)
    BY <1>2, <1>3, FS_Subset
<1>6. Cardinality(W) \in Nat /\ Cardinality(L) \in Nat
    BY <1>5, FS_CardinalityType
<1>7. m = Cardinality(W) + Cardinality(L)
    <2>1. Cardinality(W \cup L) = Cardinality(W) + Cardinality(L) - Cardinality(W \cap L)
        BY <1>5, FS_Union
    <2>2. Cardinality(W \cap L) = 0
        BY <1>2, FS_EmptySet
    <2>3. m = Cardinality(W) + Cardinality(L) - Cardinality(W \cap L)
        BY <1>2, <1>3, <2>1, Zenon
    <2>4. QED
        BY <1>6, <2>2, <2>3
<1>8. ASSUME NEW k \in 1..m
      PROVE  Pnls(tr, DOMAIN tr)[k] = Pnls(tr, W)[k] + Pnls(tr, L)[k]
    <2>1. tr[k].pnl \in Int /\ Pnls(tr, DOMAIN tr)[k] = tr[k].pnl
        BY <1>1, <1>4
    <2>2. (k \in W /\ k \notin L) \/ (k \notin W /\ k \in L)
        BY <1>2
    <2>3. /\ Pnls(tr, W)[k] = IF k \in W THEN tr[k].pnl ELSE 0
          /\ Pnls(tr, L)[k] = IF k \in L THEN tr[k].pnl ELSE 0
        BY <1>4
    <2>4. QED
        BY <2>1, <2>2, <2>3
<1>9. \A i \in 0..m : Running(Pnls(tr, DOMAIN tr))[i] = Running(Pnls(tr, W))[i] + Running(Pnls(tr, L))[i]
    BY <1>1, <1>4, <1>8, RunningAdds
<1>10. /\ Len(Pnls(tr, DOMAIN tr)) = m /\ Len(Pnls(tr, W)) = m /\ Len(Pnls(tr, L)) = m
       /\ Running(Pnls(tr, W)) \in [0..m -> Int] /\ Running(Pnls(tr, L)) \in [0..m -> Int]
    BY <1>1, <1>4, RunningFacts
<1>11. m \in 0..m
    BY <1>1
<1>12. /\ Pnl(tr, DOMAIN tr) = Pnl(tr, W) + Pnl(tr, L)
       /\ Pnl(tr, W) \in Int /\ Pnl(tr, L) \in Int
    BY <1>9, <1>10, <1>11 DEF Pnl, Sum
<1>13. ASSUME L = {} PROVE Pnl(tr, L) = 0
    <2>1. \A i \in 1..m : Pnls(tr, L)[i] = 0
        BY <1>4, <1>13
    <2>2. \A i \in 0..m : Running(Pnls(tr, L))[i] = 0
        BY <1>1, <1>4, <1>11, <2>1, RunningOfNothing
    <2>3. QED
        BY <1>10, <1>11, <2>2 DEF Pnl, Sum
<1>14. QED
    BY <1>5, <1>6, <1>7, <1>12, <1>13 DEF m, W, L

\* Without a loss the curve rises from trade to trade and is never under its peak.
LEMMA NoLossNoDrawdown ==
    ASSUME NEW tr, Traded(tr), Len(tr) > 0, Losing(tr) = {}
    PROVE  DrawdownDuration(EquityCurve(tr)) = 0 /\ Pnl(tr, DOMAIN tr) > 0
<1> DEFINE m == Len(tr)
           all == Pnls(tr, DOMAIN tr)
           eq == EquityCurve(tr)
           under == {k \in 1..Len(eq) : eq[k] < Peak(eq, k)}
<1>1. m \in Nat /\ DOMAIN tr = 1..m /\ \A k \in 1..m : tr[k].pnl \in Int /\ tr[k].pnl > 0
    BY DEF Traded, Losing
<1>2. all \in [1..m -> Int] /\ \A k \in 1..m : all[k] = tr[k].pnl
    BY <1>1, PnlsFacts
<1>3. /\ Len(eq) = m + 1 /\ Capital \in Int
      /\ \A k \in 1..(m + 1) : eq[k] = Capital + Running(all)[k - 1]
    BY CurveFacts
<1> HIDE DEF m, all, eq, under
<1>4. \A i \in 1..m : all[i] > 0
    BY <1>1, <1>2
<1>5. \A i, j \in 0..m : i < j => Running(all)[i] < Running(all)[j]
    BY <1>1, <1>2, <1>4, RunningGrows
<1>6. Running(all) \in [0..m -> Int] /\ Running(all)[0] = 0 /\ Len(all) = m
    BY <1>1, <1>2, RunningFacts
<1>7. \A k \in 1..(m + 1) : k - 1 \in 0..m
    BY <1>1
<1>8. \A k \in 1..(m + 1) : eq[k] \in Int
    BY <1>3, <1>6, <1>7
<1>9. ASSUME NEW k \in 1..(m + 1), NEW j \in 1..k PROVE j \in 1..(m + 1) /\ eq[j] <= eq[k]
    <2>1. j \in 1..(m + 1) /\ (j = k \/ j - 1 < k - 1)
        BY <1>1
    <2>2. CASE j = k
        BY <1>8, <2>1, <2>2
    <2>3. CASE j - 1 < k - 1
        <3>1. Running(all)[j - 1] < Running(all)[k - 1]
            BY <1>5, <1>7, <2>1, <2>3
        <3>2. Running(all)[j - 1] \in Int /\ Running(all)[k - 1] \in Int
            BY <1>6, <1>7, <2>1
        <3>3. QED
            BY <1>3, <2>1, <3>1, <3>2
    <2>4. QED
        BY <2>1, <2>2, <2>3
<1>10. ASSUME NEW k \in 1..(m + 1) PROVE ~(eq[k] < Peak(eq, k))
    <2> DEFINE S == {eq[j] : j \in 1..k}
    <2>1. \A x \in S : x \in Int /\ x <= eq[k]
        BY <1>8, <1>9
    <2>2. eq[k] \in S /\ eq[k] \in Int
        BY <1>8
    <2> HIDE DEF S
    <2>3. Max(S) \in S /\ \A y \in S : Max(S) >= y
        BY <2>1, <2>2 DEF Max
    <2>4. Max(S) <= eq[k]
        BY <2>1, <2>3
    <2>5. Peak(eq, k) = Max(S) /\ Max(S) \in Int
        BY <2>1, <2>3 DEF Peak, S
    <2>6. QED
        BY <2>2, <2>4, <2>5
<1>11. under = {}
    BY <1>3, <1>10 DEF under
<1>12. DrawdownDuration(eq) = 0
    <2> DEFINE stretches == {ab \in under \X under : ab[1] <= ab[2] /\ ab[1]..ab[2] \subseteq under}
    <2>1. {0} \cup {ab[2] - ab[1] + 1 : ab \in stretches} = {0}
        BY <1>11
    <2>2. DrawdownDuration(eq) = Max({0} \cup {ab[2] - ab[1] + 1 : ab \in stretches})
        BY DEF DrawdownDuration, under
    <2> HIDE DEF stretches
    <2>3. Max({0}) = 0
        BY DEF Max
    <2>4. QED
        BY <2>1, <2>2, <2>3
<1>13. Running(all)[m] > 0
    <2>1. 0 \in 0..m /\ m \in 0..m /\ 0 < m
        BY <1>1 DEF m
    <2>2. QED
        BY <1>5, <1>6, <2>1
<1>14. Pnl(tr, DOMAIN tr) = Running(all)[m]
    BY <1>6 DEF Pnl, Sum, all
<1>15. QED
    BY <1>12, <1>13, <1>14 DEF eq

\* The metrics of any trades agree with their curve: what BooksBalance says of
\* them (metrics.py:34-126).
LEMMA MetricsAgree ==
    ASSUME NEW tr, Traded(tr), Len(tr) > 0
    PROVE  LET eq == EquityCurve(tr)
               ms == CalculateMetrics(tr, eq)
               last == eq[Len(eq)]
           IN  /\ ms.total = ms.winning + ms.losing
               /\ last - Capital = ms.gross_profit - (IF ms.losing = 0 THEN 0 ELSE ms.gross_loss)
               /\ ms.duration > 0 => ms.losing > 0
               /\ ms.losing = 0 => ms.duration = 0 /\ last > Capital
               /\ last >= 0 => ms.annualised =
                                 (IF last > Capital THEN "gain" ELSE IF last < Capital THEN "loss" ELSE "flat")
<1> DEFINE eq == EquityCurve(tr)
           ms == CalculateMetrics(tr, eq)
           last == eq[Len(eq)]
           W == Winning(tr)
           L == Losing(tr)
<1>1. /\ ms.total = Len(tr) /\ ms.winning = Cardinality(W) /\ ms.losing = Cardinality(L)
      /\ ms.gross_profit = Pnl(tr, W)
      /\ ms.gross_loss = (IF L = {} THEN 1 ELSE -Pnl(tr, L))
      /\ ms.duration = DrawdownDuration(eq)
      /\ ms.annualised = Annualised(last, Len(tr))
    BY DEF CalculateMetrics
<1>2. last = Capital + Pnl(tr, DOMAIN tr) /\ Capital \in Int
    BY CurveFacts
<1>3. /\ IsFiniteSet(L) /\ Cardinality(W) \in Nat /\ Cardinality(L) \in Nat
      /\ Len(tr) = Cardinality(W) + Cardinality(L)
      /\ Pnl(tr, DOMAIN tr) = Pnl(tr, W) + Pnl(tr, L)
      /\ Pnl(tr, W) \in Int /\ Pnl(tr, L) \in Int
      /\ L = {} => Pnl(tr, L) = 0
    BY WinsAndLosses
<1>4. L = {} => DrawdownDuration(eq) = 0 /\ Pnl(tr, DOMAIN tr) > 0
    BY NoLossNoDrawdown
<1> HIDE DEF eq, last, W, L
<1>5. L = {} <=> Cardinality(L) = 0
    BY <1>3, FS_EmptySet
<1>6. last >= 0 => Annualised(last, Len(tr)) =
                     (IF last > Capital THEN "gain" ELSE IF last < Capital THEN "loss" ELSE "flat")
    <2> SUFFICES ASSUME last >= 0
                 PROVE  Annualised(last, Len(tr)) =
                           (IF last > Capital THEN "gain" ELSE IF last < Capital THEN "loss" ELSE "flat")
        OBVIOUS
    <2>1. QED
        BY DEF Annualised
<1> HIDE DEF ms
<1>7. ms.total = ms.winning + ms.losing
    BY <1>1, <1>3
<1>8. last - Capital = ms.gross_profit - (IF ms.losing = 0 THEN 0 ELSE ms.gross_loss)
    BY <1>1, <1>2, <1>3, <1>5
<1>9. ms.losing = 0 => ms.duration = 0 /\ last > Capital
    BY <1>1, <1>2, <1>3, <1>4, <1>5
<1>10. ms.duration > 0 => ms.losing > 0
    BY <1>1, <1>3, <1>9
<1>11. last >= 0 => ms.annualised =
                      (IF last > Capital THEN "gain" ELSE IF last < Capital THEN "loss" ELSE "flat")
    BY <1>1, <1>6
<1>12. QED
    BY <1>7, <1>8, <1>9, <1>10, <1>11 DEF eq, ms, last

-----------------------------------------------------------------------------
(* Folds                                                                   *)

\* The position follows from the number, and numbers grow.
FoldsInv ==
    /\ phase \in {"idle", "loaded", "traded"} => fold = 0 /\ folds = <<>>
    /\ fold \in Nat
    /\ phase = "folding" => next = Window + fold * Step
    /\ \E S : folds \in Seq(S)
    /\ \A k \in DOMAIN folds : folds[k].fold_index \in Nat /\ folds[k].fold_index < fold
    /\ FoldsPlaced

\* One more fold has its number and its place.
LEMMA FoldKeeps ==
    ASSUME FoldsInv, Fold
    PROVE  FoldsInv'
<1>1. /\ Window \in Nat /\ Step \in Nat /\ fold \in Nat /\ next = Window + fold * Step
      /\ phase = "folding"
    BY BacktestAssumption DEF FoldsInv, Fold
<1>2. /\ next < Len(signals) /\ fold' = fold + 1 /\ next' = next + Step
      /\ UNCHANGED <<phase, signals>>
    BY DEF Fold
<1>3. next' = Window + fold' * Step
    BY <1>1, <1>2
<1>4. PICK r : /\ folds' = folds \/ folds' = Append(folds, r)
               /\ r.fold_index = fold /\ r.train_end = signals[next].time
               /\ r.test_start = signals[next + 1].time
    <2> DEFINE tested == GenerateTrades(SubSeq(signals, TestStart(next) + 1, TestEnd(next)), prices)
               curve == EquityCurve(tested)
               r == [fold_index |-> fold,
                     train_start |-> signals[TrainStart(next) + 1].time,
                     train_end |-> signals[TestStart(next)].time,
                     test_start |-> signals[TestStart(next) + 1].time,
                     test_end |-> signals[TestEnd(next)].time,
                     test_trades |-> Len(tested),
                     test_pnl |-> curve[Len(curve)] - Capital]
    <2>1. folds' = folds \/ folds' = Append(folds, r)
        BY DEF Fold
    <2>2. /\ r.fold_index = fold /\ r.train_end = signals[next].time
          /\ r.test_start = signals[next + 1].time
        BY DEF TestStart
    <2> HIDE DEF r
    <2>3. QED
        BY <2>1, <2>2
<1>5. PICK S : folds \in Seq(S)
    BY DEF FoldsInv
<1>6. /\ \A k \in DOMAIN folds : folds[k].fold_index \in Nat /\ folds[k].fold_index < fold
      /\ FoldsPlaced
    BY DEF FoldsInv
<1>7. CASE folds' = folds
    <2>1. \A k \in DOMAIN folds' : folds'[k].fold_index \in Nat /\ folds'[k].fold_index < fold'
        BY <1>1, <1>2, <1>6, <1>7
    <2>2. FoldsPlaced'
        BY <1>2, <1>6, <1>7 DEF FoldsPlaced
    <2>3. QED
        BY <1>1, <1>2, <1>3, <1>5, <1>7, <2>1, <2>2 DEF FoldsInv
<1>8. CASE folds' = Append(folds, r)
    <2>1. /\ folds' \in Seq(S \cup {r}) /\ Len(folds) \in Nat
          /\ DOMAIN folds = 1..Len(folds) /\ DOMAIN folds' = 1..(Len(folds) + 1)
          /\ \A k \in DOMAIN folds : folds'[k] = folds[k]
          /\ folds'[Len(folds) + 1] = r
        BY <1>5, <1>8
    <2>2. \A k \in DOMAIN folds' : k \in DOMAIN folds \/ k = Len(folds) + 1
        BY <2>1
    <2>3. \A k \in DOMAIN folds' : folds'[k].fold_index \in Nat /\ folds'[k].fold_index < fold'
        BY <1>1, <1>2, <1>4, <1>6, <2>1, <2>2
    <2>4. ASSUME NEW k \in DOMAIN folds'
          PROVE  LET first == Window + folds'[k].fold_index * Step
                 IN  /\ first < Len(signals')
                     /\ folds'[k].train_end = signals'[first].time
                     /\ folds'[k].test_start = signals'[first + 1].time
                     /\ k > 1 => folds'[k - 1].fold_index < folds'[k].fold_index
        <3>1. CASE k \in DOMAIN folds
            <4>1. folds'[k] = folds[k] /\ (k > 1 => folds'[k - 1] = folds[k - 1])
                BY <2>1, <3>1
            <4>2. QED
                BY <1>2, <1>6, <3>1, <4>1 DEF FoldsPlaced
        <3>2. CASE k = Len(folds) + 1
            <4>1. folds'[k] = r /\ (k > 1 => k - 1 \in DOMAIN folds /\ folds'[k - 1] = folds[k - 1])
                BY <2>1, <3>2
            <4>2. Window + r.fold_index * Step = next
                BY <1>1, <1>4
            <4>3. QED
                BY <1>2, <1>4, <1>6, <4>1, <4>2
        <3>3. QED
            BY <2>2, <3>1, <3>2
    <2>5. FoldsPlaced'
        BY <2>4 DEF FoldsPlaced
    <2>6. QED
        BY <1>1, <1>2, <1>3, <2>1, <2>3, <2>5 DEF FoldsInv
<1>9. QED
    BY <1>4, <1>7, <1>8

\* In any run over any tables, FoldsInv holds.
LEMMA FoldsInvariant == Spec => []FoldsInv
<1>1. \A S : <<>> \in Seq(S) /\ DOMAIN <<>> = {}
    OBVIOUS
<1>2. Init => FoldsInv
    BY <1>1 DEF Init, FoldsInv, FoldsPlaced
<1>3. FoldsInv /\ [Next]_vars => FoldsInv'
    <2> SUFFICES ASSUME FoldsInv, [Next]_vars PROVE FoldsInv'
        OBVIOUS
    <2>1. CASE Fold
        BY <2>1, FoldKeeps
    <2>2. CASE Load
        BY <1>1, <2>2 DEF Load, FoldsInv, FoldsPlaced
    <2>3. CASE StartFolding
        <3>1. /\ fold = 0 /\ folds = <<>> /\ phase' \in {"folding", "varying"}
              /\ phase' = "folding" => next' = Window
              /\ UNCHANGED <<signals, fold, folds>>
            BY <2>3 DEF StartFolding, FoldsInv
        <3>2. Window = Window + 0 * Step
            BY BacktestAssumption
        <3>3. QED
            BY <1>1, <3>1, <3>2 DEF FoldsInv, FoldsPlaced
    <2>4. CASE Return
        BY <1>1, <2>4 DEF Return, FoldsInv, FoldsPlaced
    <2>5. ASSUME UNCHANGED <<signals, next, fold, folds>>,
                 phase' \notin {"idle", "loaded", "folding"},
                 phase' = "traded" => phase \in {"idle", "loaded", "traded"}
          PROVE  FoldsInv'
        BY <2>5 DEF FoldsInv, FoldsPlaced
    <2>6. CASE NothingLoaded \/ NothingTraded \/ Replay \/ EndFolding \/ EndVarying
        BY <2>5, <2>6 DEF NothingLoaded, NothingTraded, EmptyResult, Replay, EndFolding, EndVarying
    <2>7. CASE \E d \in Dims : Vary(d)
        BY <2>5, <2>7 DEF Vary
    <2>8. CASE UNCHANGED vars
        BY <2>8 DEF vars, FoldsInv, FoldsPlaced
    <2>9. QED
        BY <2>1, <2>2, <2>3, <2>4, <2>6, <2>7, <2>8 DEF Next
<1>4. QED
    BY <1>2, <1>3, PTL DEF Spec

\* Every fold tests from the position its number says, right behind its training
\* window, in any run over any tables.
THEOREM BacktestFoldsPlaced == Spec => []FoldsPlaced
<1>1. FoldsInv => FoldsPlaced
    BY DEF FoldsInv
<1>2. QED
    BY <1>1, FoldsInvariant, PTL


-----------------------------------------------------------------------------
(* The run                                                                 *)

\* What a run has loaded: signals in the order of their times, and a history.
LoadedInv ==
    /\ signals \in Seq(Signal)
    /\ \A i, j \in DOMAIN signals : i < j => signals[i].time < signals[j].time
    /\ History(prices)

\* What it has traded is of all the signals it has loaded, and the books are of
\* what it has traded.
TradedInv ==
    /\ phase \in {"idle", "loaded"} => trades = <<>>
    /\ phase \in {"traded", "folding", "varying"} => trades # <<>>
    /\ trades = <<>> => equity \in {<<>>, <<Capital>>} /\ DOMAIN sensitivity = {}
    /\ trades # <<>> => trades = GenerateTrades(signals, prices) /\ equity = EquityCurve(trades)
    /\ metrics # None => trades # <<>> /\ metrics = CalculateMetrics(trades, equity)

\* The walk's position follows from its counter.
WalkInv ==
    /\ phase \in {"idle", "loaded", "traded"} => fold = 0
    /\ fold \in Nat /\ next \in Nat
    /\ fold > 0 \/ phase = "folding" => next = Window + fold * Step

\* Only weights that there are have been tested.
VariedInv == DOMAIN sensitivity \subseteq Dims

RunInv ==
    /\ phase \in {"idle", "loaded", "traded", "folding", "varying", "done"}
    /\ LoadedInv /\ TradedInv /\ WalkInv /\ VariedInv

\* Whatever rows the query returns, in whatever range, they are signals in order.
LEMMA LoadKeeps ==
    ASSUME RunInv, Load
    PROVE  RunInv'
<1>1. /\ phase = "idle" /\ phase' = "loaded"
      /\ UNCHANGED <<trades, equity, metrics, next, fold, folds, sensitivity>>
    BY DEF Load
<1>2. LoadedInv'
    <2>1. CASE signals' = <<>> /\ prices' = <<>>
        BY <2>1 DEF LoadedInv, History
    <2>2. CASE \E a \in Alerts, p \in Prices, r \in Ranges :
                  /\ signals' = Kept(a, {i \in DOMAIN a : InRange(a[i], r)})
                  /\ prices' = IF signals' = <<>> THEN <<>> ELSE p
        <3>1. PICK a \in Alerts, p \in Prices, r \in Ranges :
                  /\ signals' = Kept(a, {i \in DOMAIN a : InRange(a[i], r)})
                  /\ prices' = IF signals' = <<>> THEN <<>> ELSE p
            BY <2>2
        <3> DEFINE is == {i \in DOMAIN a : InRange(a[i], r)}
        <3>2. /\ a \in Seq(Signal) /\ \A i, j \in DOMAIN a : i < j => a[i].time < a[j].time
              /\ History(p)
            BY BacktestAssumption DEF Signal, History
        <3> HIDE DEF is
        <3>3. Len(a) \in Nat /\ KeptUpTo(a, is) \in [0..Len(a) -> Seq(Signal)]
            BY <3>2, KeptFacts
        <3>4. Kept(a, is) \in Seq(Signal)
            BY <3>3 DEF Kept
        <3>5. \A x \in Signal : x.time \in Nat
            BY DEF Signal
        <3>6. \A k, l \in DOMAIN Kept(a, is) : k < l => Kept(a, is)[k].time < Kept(a, is)[l].time
            BY <3>2, <3>5, KeptOrdered
        <3>7. History(<<>>)
            BY DEF History
        <3>8. signals' = Kept(a, is) /\ (prices' = <<>> \/ prices' = p)
            BY <3>1 DEF is
        <3>9. QED
            BY <3>2, <3>4, <3>6, <3>7, <3>8 DEF LoadedInv
    <2>3. QED
        BY <2>1, <2>2 DEF Load
<1>3. TradedInv'
    BY <1>1 DEF RunInv, TradedInv
<1>4. WalkInv' /\ VariedInv'
    BY <1>1 DEF RunInv, WalkInv, VariedInv
<1>5. QED
    BY <1>1, <1>2, <1>3, <1>4 DEF RunInv

\* A run that trades keeps its books.
LEMMA ReplayKeeps ==
    ASSUME RunInv, Replay
    PROVE  RunInv'
<1>1. /\ phase = "loaded" /\ phase' = "traded"
      /\ trades' = GenerateTrades(signals, prices) /\ trades' # <<>>
      /\ equity' = EquityCurve(trades') /\ metrics' = CalculateMetrics(trades', equity')
      /\ UNCHANGED <<signals, prices, next, fold, folds, sensitivity>>
    BY DEF Replay
<1>2. DOMAIN sensitivity = {}
    BY <1>1 DEF RunInv, TradedInv
<1>3. LoadedInv' /\ WalkInv' /\ VariedInv'
    BY <1>1, <1>2 DEF RunInv, LoadedInv, WalkInv, VariedInv
<1>4. TradedInv'
    BY <1>1 DEF TradedInv
<1>5. QED
    BY <1>1, <1>3, <1>4 DEF RunInv

\* Testing a weight leaves the books alone.
LEMMA VaryKeeps ==
    ASSUME RunInv, NEW d \in Dims, Vary(d)
    PROVE  RunInv'
<1>1. /\ phase = "varying"
      /\ DOMAIN sensitivity' = DOMAIN sensitivity \cup {d}
      /\ UNCHANGED <<phase, signals, prices, trades, equity, metrics, next, fold, folds>>
    BY DEF Vary
<1>2. trades # <<>>
    BY <1>1 DEF RunInv, TradedInv
<1>3. LoadedInv' /\ TradedInv' /\ WalkInv' /\ VariedInv'
    BY <1>1, <1>2 DEF RunInv, LoadedInv, TradedInv, WalkInv, VariedInv
<1>4. QED
    BY <1>1, <1>3 DEF RunInv

\* The walk goes on by steps from the first window.
LEMMA WalkKeeps ==
    ASSUME RunInv, StartFolding \/ Fold \/ EndFolding
    PROVE  RunInv'
<1>1. /\ phase \in {"traded", "folding"} /\ phase' \in {"folding", "varying"}
      /\ UNCHANGED <<signals, prices, trades, equity, metrics, sensitivity>>
    BY DEF StartFolding, Fold, EndFolding
<1>2. LoadedInv' /\ TradedInv' /\ VariedInv'
    BY <1>1 DEF RunInv, LoadedInv, TradedInv, VariedInv
<1>3. Window \in Nat /\ Step \in Nat
    BY BacktestAssumption
<1>4. WalkInv'
    <2>1. CASE StartFolding
        <3>1. fold' = 0 /\ next \in Nat /\ (phase' = "folding" => next' = Window)
              /\ (next' = next \/ next' = Window)
            BY <2>1 DEF StartFolding, RunInv, WalkInv
        <3>2. Window = Window + 0 * Step
            BY <1>3
        <3>3. QED
            BY <1>1, <1>3, <3>1, <3>2 DEF WalkInv
    <2>2. CASE Fold
        <3>1. /\ fold' = fold + 1 /\ next' = next + Step /\ phase = "folding"
              /\ fold \in Nat /\ next \in Nat /\ next = Window + fold * Step
            BY <2>2 DEF Fold, RunInv, WalkInv
        <3>2. next' = Window + fold' * Step
            BY <1>3, <3>1
        <3>3. QED
            BY <1>1, <1>3, <3>1, <3>2 DEF WalkInv
    <2>3. CASE EndFolding
        BY <2>3 DEF EndFolding, RunInv, WalkInv
    <2>4. QED
        BY <2>1, <2>2, <2>3
<1>5. QED
    BY <1>1, <1>2, <1>4 DEF RunInv

\* No step breaks what a run has loaded, traded, walked and varied.
LEMMA RunKeeps ==
    ASSUME RunInv, [Next]_vars
    PROVE  RunInv'
<1>1. CASE Load
    BY <1>1, LoadKeeps
<1>2. CASE NothingLoaded \/ NothingTraded
    <2>1. /\ phase = "loaded" /\ phase' = "done" /\ equity' = <<Capital>>
          /\ UNCHANGED <<signals, prices, trades, metrics, next, fold, folds, sensitivity>>
        BY <1>2 DEF NothingLoaded, NothingTraded, EmptyResult
    <2>2. trades = <<>> /\ DOMAIN sensitivity = {}
        BY <2>1 DEF RunInv, TradedInv
    <2>3. LoadedInv' /\ TradedInv'
        BY <2>1, <2>2 DEF RunInv, LoadedInv, TradedInv
    <2>4. WalkInv' /\ VariedInv'
        BY <2>1, <2>2 DEF RunInv, WalkInv, VariedInv
    <2>5. QED
        BY <2>1, <2>3, <2>4 DEF RunInv
<1>3. CASE Replay
    BY <1>3, ReplayKeeps
<1>4. CASE StartFolding \/ Fold \/ EndFolding
    BY <1>4, WalkKeeps
<1>5. CASE \E d \in Dims : Vary(d)
    BY <1>5, VaryKeeps
<1>6. CASE EndVarying
    <2>1. /\ phase = "varying" /\ phase' = "done"
          /\ UNCHANGED <<signals, prices, trades, equity, metrics, next, fold, folds, sensitivity>>
        BY <1>6 DEF EndVarying
    <2>2. LoadedInv' /\ TradedInv' /\ WalkInv' /\ VariedInv'
        BY <2>1 DEF RunInv, LoadedInv, TradedInv, WalkInv, VariedInv
    <2>3. QED
        BY <2>1, <2>2 DEF RunInv
<1>7. CASE Return
    <2>1. /\ phase' = "idle" /\ signals' = <<>> /\ prices' = <<>> /\ trades' = <<>>
          /\ equity' = <<>> /\ metrics' = None /\ next' = 0 /\ fold' = 0
          /\ DOMAIN sensitivity' = {}
        BY <1>7 DEF Return
    <2>2. LoadedInv' /\ TradedInv' /\ WalkInv' /\ VariedInv'
        BY <2>1 DEF LoadedInv, History, TradedInv, WalkInv, VariedInv
    <2>3. QED
        BY <2>1, <2>2 DEF RunInv
<1>8. CASE UNCHANGED vars
    BY <1>8 DEF vars, RunInv, LoadedInv, TradedInv, WalkInv, VariedInv
<1>9. QED
    BY <1>1, <1>2, <1>3, <1>4, <1>5, <1>6, <1>7, <1>8 DEF Next

\* In any run of the engine, over any tables, RunInv holds.
LEMMA RunInvariant == Spec => []RunInv
<1>1. Init => RunInv
    <2> SUFFICES ASSUME Init PROVE RunInv
        OBVIOUS
    <2>1. /\ phase = "idle" /\ signals = <<>> /\ prices = <<>> /\ trades = <<>> /\ equity = <<>>
          /\ metrics = None /\ next = 0 /\ fold = 0 /\ DOMAIN sensitivity = {}
        BY DEF Init
    <2>2. LoadedInv /\ TradedInv /\ WalkInv /\ VariedInv
        BY <2>1 DEF LoadedInv, History, TradedInv, WalkInv, VariedInv
    <2>3. QED
        BY <2>1, <2>2 DEF RunInv
<1>2. QED
    BY <1>1, RunKeeps, PTL DEF Spec

\* The trades of the run are trades of signals it has loaded, at known prices.
LEMMA TradesOfRun ==
    ASSUME RunInv, NEW k \in DOMAIN trades
    PROVE  \E s \in Signal : Tradable(s, prices) /\ trades[k] = Trade(s, prices)
<1>1. trades # <<>>
    OBVIOUS
<1>2. trades = GenerateTrades(signals, prices) /\ signals \in Seq(Signal)
    BY <1>1 DEF RunInv, TradedInv, LoadedInv
<1> DEFINE taken == Kept(signals, Taken(signals, prices))
<1>3. /\ DOMAIN trades = 1..Len(trades)
      /\ trades = [l \in 1..Len(trades) |-> Trade(taken[l], prices)]
      /\ \A l \in 1..Len(trades) : taken[l] \in Signal /\ Tradable(taken[l], prices)
    BY <1>2, GeneratedFacts
<1> HIDE DEF taken
<1>4. trades[k] = Trade(taken[k], prices) /\ taken[k] \in Signal /\ Tradable(taken[k], prices)
    BY <1>3
<1>5. QED
    BY <1>4

\* Types: trades are made at known prices and kept for a day at least, the curve
\* begins with the capital, and a fold is counted from where the walk began
\* (engine.py:254, :341; walk_forward.py:65).
THEOREM BacktestTypeCorrect == Spec => []TypeOK
<1>1. ASSUME RunInv PROVE TypeOK
    <2>1. ASSUME NEW k \in DOMAIN trades
          PROVE  /\ {trades[k].entry, trades[k].exit} \subseteq Points(prices)
                 /\ trades[k].pnl \in Int
                 /\ trades[k].holding_days \in Nat \ {0}
        <3>1. PICK s \in Signal : Tradable(s, prices) /\ trades[k] = Trade(s, prices)
            BY <1>1, TradesOfRun
        <3>2. History(prices)
            BY <1>1 DEF RunInv, LoadedInv
        <3>3. QED
            BY <3>1, <3>2, TradeFacts
    <2>2. equity # <<>> => equity[1] = Capital
        <3>1. CASE trades = <<>>
            BY <1>1, <3>1 DEF RunInv, TradedInv
        <3>2. CASE trades # <<>>
            <4>1. Traded(trades)
                <5>1. DOMAIN trades = 1..Len(trades) /\ Len(trades) \in Nat
                    BY <1>1, <3>2, GeneratedFacts DEF RunInv, TradedInv, LoadedInv
                <5>2. QED
                    BY <2>1, <5>1 DEF Traded
            <4>2. QED
                BY <1>1, <3>2, <4>1, CurveFacts DEF RunInv, TradedInv
        <3>3. QED
            BY <3>1, <3>2
    <2>3. QED
        BY <1>1, <2>1, <2>2 DEF TypeOK, RunInv, WalkInv, VariedInv
<1>2. QED
    BY <1>1, RunInvariant, PTL

\* No trade of any run over any tables closes at a price from before the one it
\* opened at, and it closes outside the holding period only when the history has
\* no price within (engine.py:295, :310).
THEOREM TradesAlwaysRunForward == Spec => []TradesRunForward
<1>1. ASSUME RunInv PROVE TradesRunForward
    <2>1. ASSUME NEW k \in DOMAIN trades
          PROVE  LET t == trades[k]
                 IN  /\ t.entry <= t.exit /\ t.entry_time <= t.exit
                     /\ t.exit > t.entry_time + Holding =>
                           \A d \in Points(prices) : ~ d \in t.entry_time..(t.entry_time + Holding)
        <3>1. PICK s \in Signal : Tradable(s, prices) /\ trades[k] = Trade(s, prices)
            BY <1>1, TradesOfRun
        <3>2. s.time \in Nat /\ Points(prices) \in SUBSET Nat
            BY <1>1, PointsFacts DEF RunInv, LoadedInv, Signal
        <3>3. QED
            BY <3>1, <3>2, TradeRunsForward
    <2>2. QED
        BY <2>1 DEF TradesRunForward
<1>2. QED
    BY <1>1, RunInvariant, PTL

\* The metrics of any run agree with its curve (metrics.py:95).
THEOREM BooksAlwaysBalance == Spec => []BooksBalance
<1>1. ASSUME RunInv PROVE BooksBalance
    <2> SUFFICES ASSUME metrics # None
                 PROVE  LET last == equity[Len(equity)]
                        IN  /\ metrics.total = metrics.winning + metrics.losing
                            /\ last - Capital = metrics.gross_profit
                                                - (IF metrics.losing = 0 THEN 0 ELSE metrics.gross_loss)
                            /\ metrics.duration > 0 => metrics.losing > 0
                            /\ metrics.losing = 0 => metrics.duration = 0 /\ last > Capital
                            /\ last >= 0 => metrics.annualised =
                                  (IF last > Capital THEN "gain" ELSE IF last < Capital THEN "loss" ELSE "flat")
        BY DEF BooksBalance
    <2>1. /\ trades # <<>> /\ trades = GenerateTrades(signals, prices)
          /\ equity = EquityCurve(trades) /\ metrics = CalculateMetrics(trades, equity)
        BY <1>1 DEF RunInv, TradedInv
    <2>2. Traded(trades) /\ Len(trades) > 0
        <3>1. History(prices) /\ signals \in Seq(Signal)
            BY <1>1 DEF RunInv, LoadedInv
        <3>2. /\ DOMAIN trades = 1..Len(trades) /\ Len(trades) \in Nat
              /\ trades = [k \in 1..Len(trades) |-> Trade(Kept(signals, Taken(signals, prices))[k], prices)]
            BY <2>1, <3>1, GeneratedFacts
        <3>3. Len(trades) # 0
            <4> SUFFICES ASSUME Len(trades) = 0 PROVE FALSE
                OBVIOUS
            <4>1. trades = <<>>
                BY <3>2
            <4>2. QED
                BY <2>1, <4>1
        <3>4. \A k \in DOMAIN trades : trades[k].pnl \in Int
            <4> TAKE k \in DOMAIN trades
            <4>1. PICK s \in Signal : Tradable(s, prices) /\ trades[k] = Trade(s, prices)
                BY <1>1, TradesOfRun
            <4>2. QED
                BY <3>1, <4>1, TradeFacts
        <3>5. QED
            BY <3>2, <3>3, <3>4 DEF Traded
    <2>3. QED
        BY <2>1, <2>2, MetricsAgree
<1>2. QED
    BY <1>1, RunInvariant, PTL

-----------------------------------------------------------------------------
(* What the folds add up to                                                *)

\* What each signal adds to the number of trades, and to their profits.
Ones(ss, p) == [i \in DOMAIN ss |-> IF i \in Taken(ss, p) THEN 1 ELSE 0]
Gains(ss, p) == [i \in DOMAIN ss |-> IF i \in Taken(ss, p) THEN Trade(ss[i], p).pnl ELSE 0]

\* The profit of any signal, nothing for one that is not traded.
GainOf(p) == [x \in Signal |-> IF Tradable(x, p) THEN Trade(x, p).pnl ELSE 0]

\* They are numbers, for any history.
LEMMA OnesFacts ==
    ASSUME NEW ss \in Seq(Signal), NEW p, History(p)
    PROVE  /\ Len(ss) \in Nat /\ DOMAIN ss = 1..Len(ss)
           /\ GainOf(p) \in [Signal -> Int]
           /\ Ones(ss, p) \in [1..Len(ss) -> Int]
           /\ Gains(ss, p) \in [1..Len(ss) -> Int]
<1>1. Len(ss) \in Nat /\ DOMAIN ss = 1..Len(ss) /\ \A i \in 1..Len(ss) : ss[i] \in Signal
    OBVIOUS
<1>2. \A x \in Signal : Tradable(x, p) => Trade(x, p).pnl \in Int
    BY TradeFacts
<1>3. GainOf(p) \in [Signal -> Int]
    BY <1>2 DEF GainOf
<1>4. Ones(ss, p) \in [1..Len(ss) -> Int]
    BY <1>1 DEF Ones
<1>5. Gains(ss, p) \in [1..Len(ss) -> Int]
    <2>1. \A i \in 1..Len(ss) : i \in Taken(ss, p) => Trade(ss[i], p).pnl \in Int
        BY <1>1, <1>2 DEF Taken
    <2>2. QED
        BY <1>1, <2>1 DEF Gains
<1>6. QED
    BY <1>1, <1>3, <1>4, <1>5

\* The trades are counted, and their profits summed, signal by signal.
LEMMA GeneratedSums ==
    ASSUME NEW ss \in Seq(Signal), NEW p, History(p)
    PROVE  LET tr == GenerateTrades(ss, p)
           IN  /\ Traded(tr)
               /\ Len(tr) = Running(Ones(ss, p))[Len(ss)]
               /\ Pnl(tr, DOMAIN tr) = Running(Gains(ss, p))[Len(ss)]
<1> DEFINE tr == GenerateTrades(ss, p)
           is == Taken(ss, p)
           taken == Kept(ss, is)
           n == Len(ss)
           one == [x \in Signal |-> 1]
           gain == GainOf(p)
<1>1. /\ taken \in Seq(Signal) /\ Len(tr) \in Nat /\ DOMAIN tr = 1..Len(tr) /\ Len(tr) = Len(taken)
      /\ tr = [k \in 1..Len(tr) |-> Trade(taken[k], p)]
      /\ \A k \in 1..Len(tr) : taken[k] \in Signal /\ Tradable(taken[k], p)
    BY GeneratedFacts
<1>2. n \in Nat /\ DOMAIN ss = 1..n /\ gain \in [Signal -> Int] /\ \A i \in 1..n : ss[i] \in Signal
    BY OnesFacts
<1>3. one \in [Signal -> Int]
    OBVIOUS
<1> HIDE DEF tr, is, taken, n, one, gain
<1>4. DOMAIN taken = 1..Len(tr)
    BY <1>1
<1>5. \A k \in 1..Len(tr) : tr[k].pnl = gain[taken[k]] /\ tr[k].pnl \in Int
    <2> TAKE k \in 1..Len(tr)
    <2>1. tr[k].pnl = Trade(taken[k], p).pnl /\ taken[k] \in Signal /\ Tradable(taken[k], p)
        BY <1>1
    <2>2. gain[taken[k]] = Trade(taken[k], p).pnl /\ gain[taken[k]] \in Int
        BY <1>2, <2>1 DEF gain, GainOf
    <2>3. QED
        BY <2>1, <2>2
<1>6. Traded(tr)
    BY <1>1, <1>5 DEF Traded
<1>7. Len(tr) = Running(Ones(ss, p))[n]
    <2> DEFINE all == OverAll(one, ss, is)
               each == OverSeq(one, taken)
    <2>1. Sum(each) = Running(all)[n]
        BY <1>3, KeptSum DEF taken, n
    <2>2. all = Ones(ss, p)
        BY <1>2 DEF Ones, OverAll, is, one
    <2>3. each = [k \in 1..Len(tr) |-> IF k \in 1..Len(tr) THEN 1 ELSE 0]
        BY <1>1, <1>4 DEF OverSeq, one
    <2> HIDE DEF all, each
    <2>4. Cardinality({k \in 1..Len(tr) : k \in 1..Len(tr)}) = Sum(each)
        BY <1>1, <2>3, CountIsSum
    <2>5. Cardinality(1..Len(tr)) = Len(tr)
        BY <1>1, CountUpTo
    <2>6. {k \in 1..Len(tr) : k \in 1..Len(tr)} = 1..Len(tr)
        OBVIOUS
    <2>7. QED
        BY <2>1, <2>2, <2>4, <2>5, <2>6, Zenon
<1>8. Pnl(tr, DOMAIN tr) = Running(Gains(ss, p))[n]
    <2> DEFINE all == OverAll(gain, ss, is)
               each == OverSeq(gain, taken)
    <2>1. Sum(each) = Running(all)[n]
        BY <1>2, KeptSum DEF taken, n
    <2>2. all = Gains(ss, p)
        <3>1. \A j \in 1..n : j \in is => gain[ss[j]] = Trade(ss[j], p).pnl
            BY <1>2 DEF is, Taken, gain, GainOf
        <3>2. QED
            BY <1>2, <3>1 DEF Gains, OverAll, is
    <2>3. each = Pnls(tr, DOMAIN tr)
        BY <1>1, <1>4, <1>5 DEF Pnls, OverSeq
    <2> HIDE DEF all, each
    <2>4. QED
        BY <2>1, <2>2, <2>3 DEF Pnl
<1>9. QED
    BY <1>6, <1>7, <1>8 DEF tr, n

\* Trading a stretch of the signals adds what the stretch adds to the run.
LEMMA StretchSums ==
    ASSUME NEW ss \in Seq(Signal), NEW p, History(p), NEW a \in Nat, NEW b \in Nat,
           a <= b, b <= Len(ss)
    PROVE  LET tr == GenerateTrades(SubSeq(ss, a + 1, b), p)
           IN  /\ Traded(tr)
               /\ Running(Ones(ss, p))[b] = Running(Ones(ss, p))[a] + Len(tr)
               /\ Running(Gains(ss, p))[b] = Running(Gains(ss, p))[a] + Pnl(tr, DOMAIN tr)
<1> DEFINE sub == SubSeq(ss, a + 1, b)
           m == b - a
           n == Len(ss)
<1>1. /\ sub \in Seq(Signal) /\ Len(sub) = m /\ DOMAIN sub = 1..m /\ m \in Nat
      /\ \A i \in 1..m : sub[i] = ss[a + i]
    OBVIOUS
<1>2. /\ n \in Nat /\ DOMAIN ss = 1..n
      /\ Ones(ss, p) \in [1..n -> Int] /\ Gains(ss, p) \in [1..n -> Int]
    BY OnesFacts
<1>3. a + m <= n /\ a + m = b /\ m \in 0..m /\ \A i \in 1..m : a + i \in 1..n
    BY <1>1, <1>2
<1> HIDE DEF sub, m, n
<1>4. Ones(sub, p) \in [1..m -> Int] /\ Gains(sub, p) \in [1..m -> Int]
    BY <1>1, OnesFacts
<1>5. ASSUME NEW i \in 1..m
      PROVE  Ones(sub, p)[i] = Ones(ss, p)[a + i] /\ Gains(sub, p)[i] = Gains(ss, p)[a + i]
    <2>1. sub[i] = ss[a + i] /\ i \in DOMAIN sub /\ a + i \in DOMAIN ss
        BY <1>1, <1>2, <1>3
    <2>2. i \in Taken(sub, p) <=> a + i \in Taken(ss, p)
        BY <2>1 DEF Taken
    <2>3. Ones(sub, p)[i] = Ones(ss, p)[a + i]
        BY <2>1, <2>2 DEF Ones
    <2>4. Gains(sub, p)[i] = Gains(ss, p)[a + i]
        BY <2>1, <2>2 DEF Gains
    <2>5. QED
        BY <2>3, <2>4
<1>6. Ones(sub, p) = StretchOf(Ones(ss, p), a, m)
    <2> DEFINE o == Ones(sub, p)
    <2>1. o \in [1..m -> Int] /\ \A i \in 1..m : o[i] = Ones(ss, p)[a + i]
        BY <1>4, <1>5
    <2> HIDE DEF o
    <2>2. o = StretchOf(Ones(ss, p), a, m)
        BY <2>1 DEF StretchOf
    <2>3. QED
        BY <2>2 DEF o
<1>7. Gains(sub, p) = StretchOf(Gains(ss, p), a, m)
    <2> DEFINE o == Gains(sub, p)
    <2>1. o \in [1..m -> Int] /\ \A i \in 1..m : o[i] = Gains(ss, p)[a + i]
        BY <1>4, <1>5
    <2> HIDE DEF o
    <2>2. o = StretchOf(Gains(ss, p), a, m)
        BY <2>1 DEF StretchOf
    <2>3. QED
        BY <2>2 DEF o
<1>8. Running(Ones(ss, p))[a + m] = Running(Ones(ss, p))[a] + Running(Ones(sub, p))[m]
    <2>1. Running(Ones(ss, p))[a + m] = Running(Ones(ss, p))[a] + Running(StretchOf(Ones(ss, p), a, m))[m]
        <3>1. n \in Nat /\ m \in Nat /\ a + m <= n /\ Ones(ss, p) \in [1..n -> Int]
            BY <1>1, <1>2, <1>3
        <3>2. QED
            BY <3>1, SumOfStretch
    <2>2. QED
        BY <1>6, <2>1
<1>9. Running(Gains(ss, p))[a + m] = Running(Gains(ss, p))[a] + Running(Gains(sub, p))[m]
    <2>1. Running(Gains(ss, p))[a + m] = Running(Gains(ss, p))[a] + Running(StretchOf(Gains(ss, p), a, m))[m]
        <3>1. n \in Nat /\ m \in Nat /\ a + m <= n /\ Gains(ss, p) \in [1..n -> Int]
            BY <1>1, <1>2, <1>3
        <3>2. QED
            BY <3>1, SumOfStretch
    <2>2. QED
        BY <1>7, <2>1
<1> DEFINE tr == GenerateTrades(sub, p)
<1>10. /\ Traded(tr) /\ Len(tr) = Running(Ones(sub, p))[m]
       /\ Pnl(tr, DOMAIN tr) = Running(Gains(sub, p))[m]
    BY <1>1, GeneratedSums
<1> HIDE DEF tr
<1>11. /\ Running(Ones(ss, p))[b] = Running(Ones(ss, p))[a] + Len(tr)
       /\ Running(Gains(ss, p))[b] = Running(Gains(ss, p))[a] + Pnl(tr, DOMAIN tr)
    BY <1>3, <1>8, <1>9, <1>10
<1>12. QED
    BY <1>10, <1>11 DEF tr, sub

\* A sum that leaves the first a numbers out.
LEMMA RunningBehind ==
    ASSUME NEW n \in Nat, NEW a \in 0..n, NEW v \in [1..n -> Int], NEW w \in [1..n -> Int],
           \A i \in 1..n : w[i] = IF i <= a THEN 0 ELSE v[i]
    PROVE  Running(v)[n] = Running(v)[a] + Running(w)[n]
<1> DEFINE m == n - a
           u == StretchOf(v, a, m)
<1>1. m \in Nat /\ a \in Nat /\ a + m <= n /\ a + m = n /\ m \in 0..m /\ \A i \in 1..m : a + i \in 1..n
    OBVIOUS
<1>2. u \in [1..m -> Int]
    BY <1>1 DEF StretchOf
<1>3. u = StretchOf(w, a, m)
    BY <1>1 DEF StretchOf
<1>4. Running(v)[a + m] = Running(v)[a] + Running(u)[m]
    <2> HIDE DEF m
    <2>1. QED
        BY <1>1, SumOfStretch
<1> HIDE DEF m, u
<1>5. Running(w)[a + m] = Running(w)[a] + Running(u)[m]
    BY <1>1, <1>3, SumOfStretch
<1>6. Running(w)[a] = 0
    <2>1. \A i \in 1..a : w[i] = 0
        OBVIOUS
    <2>2. a \in 0..a
        OBVIOUS
    <2>3. QED
        BY <2>1, <2>2, RunningOfNothing
<1>7. Running(u)[m] \in Int
    BY <1>1, <1>2, RunningFacts
<1>8. Running(w)[a + m] = Running(u)[m]
    BY <1>5, <1>6, <1>7
<1>9. Running(v)[a + m] = Running(v)[a] + Running(w)[a + m]
    BY <1>4, <1>8
<1>10. QED
    BY <1>1, <1>9

\* The trades of the signals behind position a, counted and summed.
LEMMA BehindSums ==
    ASSUME NEW ss \in Seq(Signal), NEW p, History(p),
           \A i, j \in DOMAIN ss : i < j => ss[i].time < ss[j].time,
           NEW a \in Nat, a < Len(ss)
    PROVE  LET tr == GenerateTrades(ss, p)
               behind == {k \in DOMAIN tr : tr[k].entry_time >= ss[a + 1].time}
           IN  /\ Running(Ones(ss, p))[Len(ss)] = Running(Ones(ss, p))[a] + Cardinality(behind)
               /\ Running(Gains(ss, p))[Len(ss)] = Running(Gains(ss, p))[a] + Pnl(tr, behind)
<1> DEFINE tr == GenerateTrades(ss, p)
           is == Taken(ss, p)
           taken == Kept(ss, is)
           n == Len(ss)
           from == ss[a + 1].time
           behind == {k \in DOMAIN tr : tr[k].entry_time >= from}
           one == [x \in Signal |-> IF x.time >= from THEN 1 ELSE 0]
           gain == [x \in Signal |-> IF x.time >= from THEN GainOf(p)[x] ELSE 0]
<1>1. /\ Len(tr) \in Nat /\ DOMAIN tr = 1..Len(tr) /\ Len(tr) = Len(taken) /\ taken \in Seq(Signal)
      /\ tr = [k \in 1..Len(tr) |-> Trade(taken[k], p)]
      /\ \A k \in 1..Len(tr) : taken[k] \in Signal /\ Tradable(taken[k], p)
    BY GeneratedFacts
<1>2. /\ n \in Nat /\ DOMAIN ss = 1..n /\ GainOf(p) \in [Signal -> Int]
      /\ Ones(ss, p) \in [1..n -> Int] /\ Gains(ss, p) \in [1..n -> Int]
      /\ \A i \in 1..n : ss[i] \in Signal
    BY OnesFacts
<1>3. one \in [Signal -> Int] /\ gain \in [Signal -> Int]
    BY <1>2
<1>4. \A x \in Signal : /\ one[x] = IF x.time >= from THEN 1 ELSE 0
                        /\ gain[x] = IF x.time >= from THEN GainOf(p)[x] ELSE 0
    OBVIOUS
<1>5. \A x \in Signal : x.time \in Nat
    BY DEF Signal
<1>6. a + 1 \in 1..n /\ a \in 0..n /\ n \in 0..n
    BY <1>2
<1>7. \A i \in 1..n : ss[i].time >= from <=> ~(i <= a)
    <2> TAKE i \in 1..n
    <2>1. i < a + 1 => ss[i].time < from
        BY <1>2, <1>6
    <2>2. i > a + 1 => from < ss[i].time
        BY <1>2, <1>6
    <2>3. ss[i].time \in Nat /\ from \in Nat
        BY <1>2, <1>5, <1>6
    <2>4. i = a + 1 => ss[i].time = from
        OBVIOUS
    <2> HIDE DEF from
    <2>5. QED
        BY <2>1, <2>2, <2>3, <2>4
<1> HIDE DEF n, one, gain, from, is
<1>8. \A k \in 1..Len(tr) : /\ tr[k].entry_time = taken[k].time
                            /\ tr[k].pnl = GainOf(p)[taken[k]]
    <2> TAKE k \in 1..Len(tr)
    <2>1. tr[k] = Trade(taken[k], p) /\ taken[k] \in Signal /\ Tradable(taken[k], p)
        BY <1>1
    <2> HIDE DEF tr, taken
    <2>2. Trade(taken[k], p).entry_time = taken[k].time
        BY DEF Trade
    <2>3. GainOf(p)[taken[k]] = Trade(taken[k], p).pnl
        BY <2>1 DEF GainOf
    <2>4. QED
        BY <2>1, <2>2, <2>3
<1> HIDE DEF tr, taken
<1>9. DOMAIN taken = 1..Len(tr)
    BY <1>1
<1>10. \A k \in 1..Len(tr) : k \in behind <=> taken[k].time >= from
    BY <1>1, <1>8
<1> HIDE DEF behind
<1>11. Running(Ones(ss, p))[n] = Running(Ones(ss, p))[a] + Cardinality(behind)
    <2> DEFINE all == OverAll(one, ss, is)
               each == OverSeq(one, taken)
    <2>1. Sum(each) = Running(all)[n]
        BY <1>3, KeptSum DEF taken, n
    <2>2. all \in [1..n -> Int] /\ \A i \in 1..n : all[i] = IF i <= a THEN 0 ELSE Ones(ss, p)[i]
        <3>1. ASSUME NEW i \in 1..n
              PROVE  all[i] \in Int /\ all[i] = IF i <= a THEN 0 ELSE Ones(ss, p)[i]
            <4>1. all[i] = IF i \in is THEN one[ss[i]] ELSE 0
                BY <1>2 DEF OverAll
            <4>2. one[ss[i]] = IF i <= a THEN 0 ELSE 1
                BY <1>2, <1>4, <1>7
            <4>3. Ones(ss, p)[i] = IF i \in is THEN 1 ELSE 0
                BY <1>2 DEF Ones, is
            <4>4. QED
                BY <4>1, <4>2, <4>3
        <3>2. QED
            BY <1>2, <3>1 DEF OverAll
    <2>3. each = [k \in 1..Len(tr) |-> IF k \in behind THEN 1 ELSE 0]
        BY <1>1, <1>4, <1>9, <1>10 DEF OverSeq
    <2> HIDE DEF all, each
    <2>4. Running(Ones(ss, p))[n] = Running(Ones(ss, p))[a] + Running(all)[n]
        BY <1>2, <1>6, <2>2, RunningBehind
    <2>5. Cardinality({k \in 1..Len(tr) : k \in behind}) = Sum(each)
        BY <1>1, <2>3, CountIsSum
    <2>6. {k \in 1..Len(tr) : k \in behind} = behind
        BY <1>1 DEF behind
    <2>7. QED
        BY <2>1, <2>4, <2>5, <2>6, Zenon
<1>12. Running(Gains(ss, p))[n] = Running(Gains(ss, p))[a] + Pnl(tr, behind)
    <2> DEFINE all == OverAll(gain, ss, is)
               each == OverSeq(gain, taken)
    <2>1. Sum(each) = Running(all)[n]
        BY <1>3, KeptSum DEF taken, n
    <2>2. all \in [1..n -> Int] /\ \A i \in 1..n : all[i] = IF i <= a THEN 0 ELSE Gains(ss, p)[i]
        <3>1. ASSUME NEW i \in 1..n
              PROVE  all[i] \in Int /\ all[i] = IF i <= a THEN 0 ELSE Gains(ss, p)[i]
            <4>1. all[i] = IF i \in is THEN gain[ss[i]] ELSE 0
                BY <1>2 DEF OverAll
            <4>2. gain[ss[i]] = IF i <= a THEN 0 ELSE GainOf(p)[ss[i]]
                BY <1>2, <1>4, <1>7
            <4>3. GainOf(p)[ss[i]] \in Int
                BY <1>2
            <4>4. Gains(ss, p)[i] = IF i \in is THEN GainOf(p)[ss[i]] ELSE 0
                BY <1>2 DEF Gains, is, Taken, GainOf
            <4>5. QED
                BY <4>1, <4>2, <4>3, <4>4
        <3>2. QED
            BY <1>2, <3>1 DEF OverAll
    <2>3. each = Pnls(tr, behind)
        <3>1. \A k \in 1..Len(tr) : gain[taken[k]] = IF k \in behind THEN tr[k].pnl ELSE 0
            BY <1>1, <1>4, <1>8, <1>10
        <3>2. QED
            BY <1>1, <1>9, <3>1 DEF Pnls, OverSeq
    <2> HIDE DEF all, each
    <2>4. Running(Gains(ss, p))[n] = Running(Gains(ss, p))[a] + Running(all)[n]
        BY <1>2, <1>6, <2>2, RunningBehind
    <2>5. QED
        BY <2>1, <2>3, <2>4 DEF Pnl
<1>13. QED
    BY <1>11, <1>12 DEF tr, behind, n, from

-----------------------------------------------------------------------------
(* The walk                                                                *)

FoldRecord == [fold_index: Nat, train_start: Nat, train_end: Nat, test_start: Nat,
               test_end: Nat, test_trades: Nat, test_pnl: Int]

\* The signals tested so far are those from behind the first window up to here.
Here == IF next < Len(signals) THEN next ELSE Len(signals)

Tests(fs) == [k \in DOMAIN fs |-> fs[k].test_trades]
Profits(fs) == [k \in DOMAIN fs |-> fs[k].test_pnl]

\* The folds so far have tested what the run traded between the first window and
\* here: no signal twice, and none left out.
TestedInv ==
    LET counted == Running(Ones(signals, prices))
        gained == Running(Gains(signals, prices))
    IN  /\ counted[Here] = counted[Window] + Sum(Tests(folds))
        /\ gained[Here] = gained[Window] + Sum(Profits(folds))

FoldedInv ==
    /\ folds \in Seq(FoldRecord)
    /\ FoldsInOrder
    /\ phase = "folding" => /\ Window <= next
                            /\ Window + Step <= Len(signals)
                            /\ \A k \in DOMAIN folds : folds[k].test_end <= signals[Here].time
                            /\ TestedInv
    /\ phase = "varying" /\ Len(signals) >= Window + Step => Here = Len(signals) /\ TestedInv

\* No folds, no trades and no profits.
LEMMA NoFolds == Sum(Tests(<<>>)) = 0 /\ Sum(Profits(<<>>)) = 0
<1>1. /\ 0 \in Nat /\ Tests(<<>>) \in [1..0 -> Int] /\ Profits(<<>>) \in [1..0 -> Int]
    BY DEF Tests, Profits
<1>2. QED
    BY <1>1, RunningFacts DEF Sum

\* Another fold adds its trades and its profits.
LEMMA AnotherFold ==
    ASSUME NEW fs \in Seq(FoldRecord), NEW r \in FoldRecord
    PROVE  /\ Sum(Tests(Append(fs, r))) = Sum(Tests(fs)) + r.test_trades
           /\ Sum(Profits(Append(fs, r))) = Sum(Profits(fs)) + r.test_pnl
           /\ Sum(Tests(fs)) \in Int /\ Sum(Profits(fs)) \in Int
<1> DEFINE m == Len(fs)
           gs == Append(fs, r)
<1>1. /\ m \in Nat /\ DOMAIN fs = 1..m /\ DOMAIN gs = 1..(m + 1)
      /\ \A k \in 1..m : gs[k] = fs[k] /\ fs[k] \in FoldRecord
      /\ gs[m + 1] = r
    OBVIOUS
<1>2. \A k \in 1..(m + 1) : gs[k] \in FoldRecord
    BY <1>1
<1>3. \A x \in FoldRecord : x.test_trades \in Int /\ x.test_pnl \in Int
    BY DEF FoldRecord
<1> HIDE DEF m, gs
<1>4. /\ Tests(fs) \in [1..m -> Int] /\ Profits(fs) \in [1..m -> Int]
      /\ Tests(gs) \in [1..(m + 1) -> Int] /\ Profits(gs) \in [1..(m + 1) -> Int]
    BY <1>1, <1>2, <1>3 DEF Tests, Profits
<1>5. /\ \A k \in 1..m : Tests(fs)[k] = Tests(gs)[k]
      /\ Tests(gs)[m + 1] = r.test_trades
    BY <1>1 DEF Tests
<1>6. /\ \A k \in 1..m : Profits(fs)[k] = Profits(gs)[k]
      /\ Profits(gs)[m + 1] = r.test_pnl
    BY <1>1 DEF Profits
<1>7. Sum(Tests(gs)) = Sum(Tests(fs)) + r.test_trades
    BY <1>1, <1>4, <1>5, SumOfOneMore
<1>8. Sum(Profits(gs)) = Sum(Profits(fs)) + r.test_pnl
    BY <1>1, <1>4, <1>6, SumOfOneMore
<1>9. m \in 0..m
    BY <1>1
<1>10. Sum(Tests(fs)) \in Int /\ Sum(Profits(fs)) \in Int
    <2>1. Len(Tests(fs)) = m /\ Running(Tests(fs)) \in [0..m -> Int]
        BY <1>1, <1>4, RunningFacts
    <2>2. Len(Profits(fs)) = m /\ Running(Profits(fs)) \in [0..m -> Int]
        BY <1>1, <1>4, RunningFacts
    <2>3. QED
        BY <1>9, <2>1, <2>2 DEF Sum
<1>11. QED
    BY <1>7, <1>8, <1>10 DEF gs

\* One iteration tests the signals from here to the next position, behind all that
\* have been tested (walk_forward.py:65-126).
LEMMA FoldTests ==
    ASSUME RunInv, FoldsInv, FoldedInv, Fold
    PROVE  FoldedInv'
<1> DEFINE n == Len(signals)
           b == TestEnd(next)
           tested == GenerateTrades(SubSeq(signals, TestStart(next) + 1, b), prices)
           curve == EquityCurve(tested)
           r == [fold_index |-> fold,
                 train_start |-> signals[TrainStart(next) + 1].time,
                 train_end |-> signals[TestStart(next)].time,
                 test_start |-> signals[TestStart(next) + 1].time,
                 test_end |-> signals[b].time,
                 test_trades |-> Len(tested),
                 test_pnl |-> curve[Len(curve)] - Capital]
<1>1. /\ phase = "folding" /\ phase' = "folding" /\ next < n
      /\ folds' = (IF tested = <<>> THEN folds ELSE Append(folds, r))
      /\ next' = next + Step
      /\ UNCHANGED <<signals, prices>>
    BY DEF Fold
<1>2. /\ Window \in Nat \ {0} /\ Step \in Nat \ {0} /\ Capital \in Int
    BY BacktestAssumption
<1>3. /\ signals \in Seq(Signal) /\ History(prices) /\ next \in Nat /\ fold \in Nat
      /\ \A i, j \in DOMAIN signals : i < j => signals[i].time < signals[j].time
    BY DEF RunInv, LoadedInv, WalkInv
<1>4. /\ folds \in Seq(FoldRecord) /\ FoldsInOrder
      /\ Window <= next /\ Window + Step <= n
      /\ \A k \in DOMAIN folds : folds[k].test_end <= signals[Here].time
      /\ TestedInv
    BY <1>1 DEF FoldedInv
<1>5. /\ n \in Nat /\ DOMAIN signals = 1..n /\ \A i \in 1..n : signals[i].time \in Nat
    <2>1. n \in Nat /\ DOMAIN signals = 1..n /\ \A i \in 1..n : signals[i] \in Signal
        BY <1>3
    <2>2. \A x \in Signal : x.time \in Nat
        BY DEF Signal
    <2>3. QED
        BY <2>1, <2>2
<1>6. /\ b = IF next + Step < n THEN next + Step ELSE n
      /\ TestStart(next) = next
      /\ TrainStart(next) = IF next > Window THEN next - Window ELSE 0
    BY DEF TestEnd, TestStart, TrainStart
<1>7. Here = next /\ Here' = b
    BY <1>1, <1>6 DEF Here
<1>8. b \in Nat /\ next < b /\ b <= n
    BY <1>1, <1>2, <1>3, <1>5, <1>6
<1>9. /\ Traded(tested)
      /\ Running(Ones(signals, prices))[b] = Running(Ones(signals, prices))[next] + Len(tested)
      /\ Running(Gains(signals, prices))[b]
            = Running(Gains(signals, prices))[next] + Pnl(tested, DOMAIN tested)
    <2>1. next <= b
        BY <1>3, <1>8
    <2>2. QED
        BY <1>3, <1>6, <1>8, <2>1, StretchSums
<1> HIDE DEF n, b, tested, curve
<1>10. /\ Len(tested) \in Nat /\ Pnl(tested, DOMAIN tested) \in Int
       /\ curve[Len(curve)] = Capital + Pnl(tested, DOMAIN tested)
    BY <1>9, CurveFacts DEF curve, Traded
<1>11. /\ next \in 1..n /\ next + 1 \in 1..n /\ b \in 1..n /\ TrainStart(next) + 1 \in 1..n
       /\ TrainStart(next) + 1 <= next /\ next + 1 <= b
    <2>1. /\ next \in 1..n /\ next + 1 \in 1..n /\ b \in 1..n /\ next + 1 <= b
          /\ next \in Nat /\ Window \in Nat \ {0} /\ n \in Nat
        BY <1>1, <1>2, <1>3, <1>4, <1>5, <1>8
    <2>2. TrainStart(next) \in Nat /\ TrainStart(next) + 1 <= next
        BY <1>6, <2>1
    <2>3. QED
        BY <2>1, <2>2
<1>12. \A i, j \in 1..n : i <= j => signals[i].time <= signals[j].time
    BY <1>3, <1>5
<1>13. r \in FoldRecord
    <2>1. /\ signals[TrainStart(next) + 1].time \in Nat /\ signals[TestStart(next)].time \in Nat
          /\ signals[TestStart(next) + 1].time \in Nat /\ signals[b].time \in Nat
        BY <1>5, <1>6, <1>11
    <2>2. curve[Len(curve)] - Capital \in Int /\ Len(tested) \in Nat
        BY <1>2, <1>10
    <2>3. QED
        BY <1>3, <2>1, <2>2 DEF FoldRecord
<1>14. /\ r.train_start <= r.train_end
       /\ r.train_end = signals[next].time
       /\ r.train_end < r.test_start
       /\ r.test_start <= r.test_end
       /\ r.test_end = signals[b].time
       /\ r.test_trades = Len(tested)
       /\ r.test_pnl = Pnl(tested, DOMAIN tested)
    <2>1. signals[TrainStart(next) + 1].time <= signals[next].time
        BY <1>11, <1>12
    <2>2. signals[next].time < signals[next + 1].time
        BY <1>3, <1>5, <1>11
    <2>3. signals[next + 1].time <= signals[b].time
        BY <1>11, <1>12
    <2>4. curve[Len(curve)] - Capital = Pnl(tested, DOMAIN tested)
        BY <1>2, <1>10
    <2>5. QED
        BY <1>6, <2>1, <2>2, <2>3, <2>4
<1> HIDE DEF r
<1>15. signals[next].time \in Nat /\ signals[b].time \in Nat /\ signals[next].time <= signals[b].time
    <2>1. next <= b
        BY <1>3, <1>8
    <2>2. QED
        BY <1>5, <1>11, <1>12, <2>1
<1>16. \A x \in FoldRecord : x.test_end \in Nat /\ x.train_end \in Nat /\ x.test_start \in Nat
    BY DEF FoldRecord
<1>17. /\ Running(Ones(signals, prices))[next] = Running(Ones(signals, prices))[Window] + Sum(Tests(folds))
       /\ Running(Gains(signals, prices))[next]
             = Running(Gains(signals, prices))[Window] + Sum(Profits(folds))
    BY <1>4, <1>7 DEF TestedInv
<1>18. /\ Running(Ones(signals, prices))[Window] \in Int
       /\ Running(Gains(signals, prices))[Window] \in Int
    <2>1. Window \in 0..n
        BY <1>1, <1>2, <1>3, <1>4, <1>5
    <2>2. Ones(signals, prices) \in [1..n -> Int] /\ Gains(signals, prices) \in [1..n -> Int]
        BY <1>3, OnesFacts DEF n
    <2>3. QED
        BY <1>5, <2>1, <2>2, RunningFacts
<1>19. CASE tested = <<>>
    <2>1. folds' = folds
        BY <1>1, <1>19
    <2>2. Len(tested) = 0 /\ Pnl(tested, DOMAIN tested) = 0
        <3>1. Len(tested) = 0
            BY <1>19
        <3>2. Winning(tested) = {} /\ Losing(tested) = {} /\ DOMAIN tested = {}
            BY <1>19 DEF Winning, Losing
        <3>3. Pnl(tested, Losing(tested)) = 0
            BY <1>9, <3>2, WinsAndLosses
        <3>4. QED
            BY <3>1, <3>2, <3>3
    <2>3. TestedInv'
        <3>1. /\ Running(Ones(signals, prices))[b] = Running(Ones(signals, prices))[Window] + Sum(Tests(folds))
              /\ Running(Gains(signals, prices))[b]
                    = Running(Gains(signals, prices))[Window] + Sum(Profits(folds))
            <4>1. Sum(Tests(folds)) \in Int /\ Sum(Profits(folds)) \in Int
                BY <1>4, <1>13, AnotherFold
            <4>2. QED
                BY <1>9, <1>17, <1>18, <2>2, <4>1
        <3>2. QED
            BY <1>1, <1>7, <2>1, <3>1 DEF TestedInv
    <2>4. \A k \in DOMAIN folds' : folds'[k].test_end <= signals'[Here'].time
        <3> SUFFICES ASSUME NEW k \in DOMAIN folds PROVE folds[k].test_end <= signals[b].time
            BY <1>1, <1>7, <2>1
        <3>1. folds[k].test_end <= signals[next].time
            BY <1>4, <1>7
        <3>2. folds[k].test_end \in Nat
            BY <1>4, <1>16
        <3>3. QED
            BY <1>15, <3>1, <3>2
    <2>5. FoldsInOrder'
        BY <1>4, <2>1 DEF FoldsInOrder
    <2>6. Window <= next' /\ Window + Step <= Len(signals')
        BY <1>1, <1>2, <1>3, <1>4 DEF n
    <2>7. QED
        BY <1>1, <1>4, <2>1, <2>3, <2>4, <2>5, <2>6 DEF FoldedInv
<1>20. CASE tested # <<>>
    <2>1. folds' = Append(folds, r)
        BY <1>1, <1>20
    <2>2. /\ folds' \in Seq(FoldRecord) /\ Len(folds) \in Nat
          /\ DOMAIN folds = 1..Len(folds) /\ DOMAIN folds' = 1..(Len(folds) + 1)
          /\ \A k \in DOMAIN folds : folds'[k] = folds[k] /\ folds[k] \in FoldRecord
          /\ folds'[Len(folds) + 1] = r
        BY <1>4, <1>13, <2>1
    <2>3. TestedInv'
        <3>1. /\ Sum(Tests(folds')) = Sum(Tests(folds)) + Len(tested)
              /\ Sum(Profits(folds')) = Sum(Profits(folds)) + Pnl(tested, DOMAIN tested)
              /\ Sum(Tests(folds)) \in Int /\ Sum(Profits(folds)) \in Int
            BY <1>4, <1>13, <1>14, <2>1, AnotherFold
        <3>2. /\ Running(Ones(signals, prices))[b]
                    = Running(Ones(signals, prices))[Window] + Sum(Tests(folds'))
              /\ Running(Gains(signals, prices))[b]
                    = Running(Gains(signals, prices))[Window] + Sum(Profits(folds'))
            BY <1>9, <1>10, <1>17, <1>18, <3>1
        <3>3. QED
            BY <1>1, <1>7, <3>2 DEF TestedInv
    <2>4. \A k \in DOMAIN folds : folds[k].test_end <= signals[next].time /\ folds[k].test_end \in Nat
        BY <1>4, <1>7, <1>16, <2>2
    <2>5. \A k \in DOMAIN folds' : folds'[k].test_end <= signals'[Here'].time
        <3> SUFFICES ASSUME NEW k \in DOMAIN folds' PROVE folds'[k].test_end <= signals[b].time
            BY <1>1, <1>7
        <3>1. CASE k \in DOMAIN folds
            <4>1. folds'[k].test_end <= signals[next].time /\ folds'[k].test_end \in Nat
                BY <2>2, <2>4, <3>1
            <4>2. QED
                BY <1>15, <4>1
        <3>2. CASE k = Len(folds) + 1
            BY <1>14, <1>15, <2>2, <3>2
        <3>3. QED
            BY <2>2, <3>1, <3>2
    <2>6. FoldsInOrder'
        <3>1. ASSUME NEW k \in DOMAIN folds'
              PROVE  /\ folds'[k].train_start <= folds'[k].train_end
                     /\ folds'[k].train_end < folds'[k].test_start
                     /\ folds'[k].test_start <= folds'[k].test_end
                     /\ \A j \in 1..(k - 1) : folds'[j].test_end < folds'[k].test_start
            <4>1. CASE k \in DOMAIN folds
                <5>1. folds'[k] = folds[k] /\ \A j \in 1..(k - 1) : j \in DOMAIN folds /\ folds'[j] = folds[j]
                    BY <2>2, <4>1
                <5>2. QED
                    BY <1>4, <4>1, <5>1 DEF FoldsInOrder
            <4>2. CASE k = Len(folds) + 1
                <5>1. folds'[k] = r /\ \A j \in 1..(k - 1) : j \in DOMAIN folds /\ folds'[j] = folds[j]
                    BY <2>2, <4>2
                <5>2. \A j \in 1..(k - 1) : folds'[j].test_end < r.test_start
                    <6> TAKE j \in 1..(k - 1)
                    <6>1. folds'[j].test_end <= signals[next].time /\ folds'[j].test_end \in Nat
                        BY <2>4, <5>1
                    <6>2. r.test_start \in Nat /\ signals[next].time < r.test_start
                        BY <1>13, <1>14, <1>16
                    <6>3. QED
                        BY <1>15, <6>1, <6>2
                <5>3. QED
                    BY <1>14, <5>1, <5>2
            <4>3. QED
                BY <2>2, <4>1, <4>2
        <3>2. QED
            BY <3>1 DEF FoldsInOrder
    <2>7. Window <= next' /\ Window + Step <= Len(signals')
        BY <1>1, <1>2, <1>3, <1>4 DEF n
    <2>8. QED
        BY <1>1, <2>2, <2>3, <2>5, <2>6, <2>7 DEF FoldedInv
<1>21. QED
    BY <1>19, <1>20

\* The walk begins behind the first window with nothing tested.
LEMMA WalkBegins ==
    ASSUME RunInv, FoldsInv, FoldedInv, StartFolding
    PROVE  FoldedInv'
<1>1. /\ phase = "traded" /\ folds = <<>> /\ UNCHANGED <<signals, prices, folds>>
      /\ IF Len(signals) < Window + Step THEN phase' = "varying" /\ UNCHANGED next
         ELSE phase' = "folding" /\ next' = Window
    BY DEF StartFolding, FoldsInv
<1>2. Window \in Nat \ {0} /\ Step \in Nat \ {0} /\ Len(signals) \in Nat
    BY BacktestAssumption DEF RunInv, LoadedInv
<1>3. folds' \in Seq(FoldRecord) /\ FoldsInOrder' /\ DOMAIN folds' = {}
    BY <1>1 DEF FoldsInOrder
<1>4. CASE Len(signals) < Window + Step
    BY <1>1, <1>2, <1>3, <1>4 DEF FoldedInv
<1>5. CASE ~(Len(signals) < Window + Step)
    <2>1. phase' = "folding" /\ next' = Window
        BY <1>1, <1>5
    <2>2. Window <= Len(signals) /\ Window + Step <= Len(signals) /\ Window < Len(signals)
        BY <1>2, <1>5
    <2>3. Here' = Window
        BY <1>1, <2>1, <2>2 DEF Here
    <2>4. /\ Running(Ones(signals, prices))[Window] \in Int
          /\ Running(Gains(signals, prices))[Window] \in Int
        <3>1. signals \in Seq(Signal) /\ History(prices) /\ Window \in 0..Len(signals)
            BY <1>2, <2>2 DEF RunInv, LoadedInv
        <3>2. /\ Ones(signals, prices) \in [1..Len(signals) -> Int]
              /\ Gains(signals, prices) \in [1..Len(signals) -> Int]
            BY <3>1, OnesFacts
        <3>3. QED
            BY <1>2, <3>1, <3>2, RunningFacts
    <2>5. TestedInv'
        <3>1. Sum(Tests(folds')) = 0 /\ Sum(Profits(folds')) = 0
            BY <1>1, NoFolds
        <3>2. QED
            BY <1>1, <2>3, <2>4, <3>1 DEF TestedInv
    <2>6. Window <= next'
        BY <1>2, <2>1
    <2>7. QED
        BY <1>1, <1>3, <2>1, <2>2, <2>5, <2>6 DEF FoldedInv
<1>6. QED
    BY <1>4, <1>5

\* No step breaks the order of the folds or what they have tested.
LEMMA FoldedKeeps ==
    ASSUME RunInv, FoldsInv, FoldedInv, [Next]_vars
    PROVE  FoldedInv'
<1>1. CASE Fold
    BY <1>1, FoldTests
<1>2. CASE StartFolding
    BY <1>2, WalkBegins
<1>3. CASE EndFolding
    <2>1. /\ phase = "folding" /\ phase' = "varying" /\ ~(next < Len(signals))
          /\ UNCHANGED <<signals, prices, next, folds>>
        <3>1. next \in Nat /\ Len(signals) \in Nat
            BY DEF RunInv, LoadedInv, WalkInv
        <3>2. QED
            BY <1>3, <3>1 DEF EndFolding
    <2>2. Here = Len(signals) /\ Here' = Here
        BY <2>1 DEF Here
    <2>3. folds \in Seq(FoldRecord) /\ FoldsInOrder /\ TestedInv
        BY <2>1 DEF FoldedInv
    <2>4. TestedInv'
        BY <2>1, <2>2, <2>3 DEF TestedInv
    <2>5. FoldsInOrder'
        BY <2>1, <2>3 DEF FoldsInOrder
    <2>6. QED
        BY <2>1, <2>2, <2>3, <2>4, <2>5 DEF FoldedInv
<1>4. CASE Load \/ Return
    <2>1. folds' = <<>> /\ phase' \in {"loaded", "idle"}
        BY <1>4 DEF Load, Return, FoldsInv
    <2>2. folds' \in Seq(FoldRecord) /\ DOMAIN folds' = {}
        BY <2>1
    <2>3. FoldsInOrder'
        BY <2>2 DEF FoldsInOrder
    <2>4. QED
        BY <2>1, <2>2, <2>3 DEF FoldedInv
<1>5. ASSUME UNCHANGED folds, phase' \notin {"folding", "varying"} PROVE FoldedInv'
    BY <1>5 DEF FoldedInv, FoldsInOrder
<1>6. CASE NothingLoaded \/ NothingTraded \/ Replay \/ EndVarying
    BY <1>5, <1>6 DEF NothingLoaded, NothingTraded, EmptyResult, Replay, EndVarying
<1>7. ASSUME UNCHANGED <<phase, signals, prices, next, folds>> PROVE FoldedInv'
    BY <1>7 DEF FoldedInv, FoldsInOrder, TestedInv, Here
<1>8. CASE \E d \in Dims : Vary(d)
    BY <1>7, <1>8 DEF Vary
<1>9. CASE UNCHANGED vars
    BY <1>7, <1>9 DEF vars
<1>10. QED
    BY <1>1, <1>2, <1>3, <1>4, <1>6, <1>8, <1>9 DEF Next

\* In any run of the engine over any tables no signal is tested by two folds or
\* forgotten between them: once the walk is over, the trades and the profits of the
\* folds are those of the run behind the first window (walk_forward.py:65).
THEOREM FoldsAlwaysAddUp == Spec => []FoldsAddUp
<1>1. ASSUME RunInv, FoldsInv, FoldedInv PROVE FoldsAddUp
    <2>1. FoldsPlaced /\ FoldsInOrder
        BY <1>1 DEF FoldsInv, FoldedInv
    <2> DEFINE behind == {k \in DOMAIN trades : trades[k].entry_time >= signals[Window + 1].time}
    <2>2. ASSUME phase = "varying", Len(signals) >= Window + Step
          PROVE  /\ Sum(Tests(folds)) = Cardinality(behind)
                 /\ Sum(Profits(folds)) = Pnl(trades, behind)
        <3>1. /\ signals \in Seq(Signal) /\ History(prices) /\ Len(signals) \in Nat
              /\ \A i, j \in DOMAIN signals : i < j => signals[i].time < signals[j].time
              /\ trades = GenerateTrades(signals, prices)
            BY <1>1, <2>2 DEF RunInv, LoadedInv, TradedInv
        <3>2. Window \in Nat /\ Step \in Nat \ {0}
            BY BacktestAssumption
        <3>3. Window < Len(signals)
            BY <2>2, <3>1, <3>2
        <3>4. Here = Len(signals) /\ TestedInv /\ folds \in Seq(FoldRecord)
            BY <1>1, <2>2 DEF FoldedInv
        <3>5. /\ Running(Ones(signals, prices))[Len(signals)]
                    = Running(Ones(signals, prices))[Window] + Sum(Tests(folds))
              /\ Running(Gains(signals, prices))[Len(signals)]
                    = Running(Gains(signals, prices))[Window] + Sum(Profits(folds))
            BY <3>4 DEF TestedInv
        <3>6. /\ Running(Ones(signals, prices))[Len(signals)]
                    = Running(Ones(signals, prices))[Window] + Cardinality(behind)
              /\ Running(Gains(signals, prices))[Len(signals)]
                    = Running(Gains(signals, prices))[Window] + Pnl(trades, behind)
            <4> DEFINE tr == GenerateTrades(signals, prices)
                       after == {k \in DOMAIN tr : tr[k].entry_time >= signals[Window + 1].time}
            <4>1. /\ Running(Ones(signals, prices))[Len(signals)]
                        = Running(Ones(signals, prices))[Window] + Cardinality(after)
                  /\ Running(Gains(signals, prices))[Len(signals)]
                        = Running(Gains(signals, prices))[Window] + Pnl(tr, after)
                BY <3>1, <3>2, <3>3, BehindSums
            <4> HIDE DEF tr
            <4>2. tr = trades
                BY <3>1 DEF tr
            <4>3. QED
                BY <4>1, <4>2, Zenon
        <3> HIDE DEF behind
        <3>7. /\ Running(Ones(signals, prices))[Window] \in Int
              /\ Running(Gains(signals, prices))[Window] \in Int
            <4>1. Window \in 0..Len(signals)
                BY <3>1, <3>2, <3>3
            <4>2. /\ Ones(signals, prices) \in [1..Len(signals) -> Int]
                  /\ Gains(signals, prices) \in [1..Len(signals) -> Int]
                BY <3>1, OnesFacts
            <4>3. QED
                BY <3>1, <4>1, <4>2, RunningFacts
        <3>8. Sum(Tests(folds)) \in Int /\ Sum(Profits(folds)) \in Int
            <4> DEFINE r == [fold_index |-> 0, train_start |-> 0, train_end |-> 0, test_start |-> 0,
                             test_end |-> 0, test_trades |-> 0, test_pnl |-> 0]
            <4>1. r \in FoldRecord
                BY DEF FoldRecord
            <4>2. QED
                BY <3>4, <4>1, AnotherFold
        <3>9. Cardinality(behind) \in Int /\ Pnl(trades, behind) \in Int
            <4>1. Traded(trades)
                BY <3>1, GeneratedSums
            <4>2. behind = {k \in 1..Len(trades) : k \in behind} /\ Len(trades) \in Nat
                BY <4>1 DEF behind, Traded
            <4>3. IsFiniteSet(behind)
                BY <4>2, CountIsSum
            <4>4. Cardinality(behind) \in Nat
                BY <4>3, FS_CardinalityType
            <4>5. Len(trades) \in 0..Len(trades)
                BY <4>2
            <4>6. Pnl(trades, behind) \in Int
                BY <4>1, <4>2, <4>5, PnlsFacts, RunningFacts DEF Pnl, Sum
            <4>7. QED
                BY <4>4, <4>6
        <3>10. QED
            BY <3>5, <3>6, <3>7, <3>8, <3>9
    <2>3. QED
        BY <2>1, <2>2 DEF FoldsAddUp, Tests, Profits
<1>2. Init => FoldedInv
    <2> SUFFICES ASSUME Init PROVE FoldedInv
        OBVIOUS
    <2>1. folds = <<>> /\ phase = "idle"
        BY DEF Init
    <2>2. folds \in Seq(FoldRecord) /\ DOMAIN folds = {}
        BY <2>1
    <2>3. FoldsInOrder
        BY <2>2 DEF FoldsInOrder
    <2>4. QED
        BY <2>1, <2>2, <2>3 DEF FoldedInv
<1>3. RunInv /\ FoldsInv /\ FoldedInv /\ [Next]_vars => FoldedInv'
    BY FoldedKeeps
<1>4. QED
    BY <1>1, <1>2, <1>3, RunInvariant, FoldsInvariant, PTL DEF Spec
=============================================================================
