----------------------- MODULE SignalLearning_proofs -----------------------
(***************************************************************************)
(* Proofs about SignalLearning, for any alerts, scores and number of       *)
(* updates.  What learners have in hand, in memory and in the database is  *)
(* treated at once by Hands: no step brings in more than rows that were    *)
(* Learnable, and such rows never change again.                            *)
(***************************************************************************)
EXTENDS SignalLearning, WellFoundedInduction, TLAPS

-----------------------------------------------------------------------------
(* The latest evaluation exists                                            *)

Below == {p \in Nat \X Nat : p[1] < p[2]}

\* There is no endless descent in the natural numbers.
LEMMA BelowWellFounded == IsWellFoundedOn(Below, Nat)
  <1>1. Below = OpToRel(<, Nat)
    BY DEF Below, OpToRel
  <1> QED
    BY <1>1, NatLessThanWellFounded

\* A bounded set of numbers that is not empty has a maximum.
LEMMA MaxExists ==
    ASSUME NEW S \in SUBSET Nat, S # {},
           NEW n \in Nat, \A x \in S : x <= n
    PROVE  Max(S) \in S /\ \A y \in S : Max(S) >= y
  <1> DEFINE Gaps == {n - x : x \in S}
  <1>1. \A x \in S : n - x \in Nat
    OBVIOUS
  <1>2. Gaps \subseteq Nat /\ Gaps # {}
    BY <1>1
  <1>3. PICK g \in Gaps : \A h \in Gaps : ~(<<h, g>> \in Below)
    BY <1>2, BelowWellFounded, WFMin
  <1>4. PICK x \in S : g = n - x
    BY <1>3
  <1>5. ASSUME NEW y \in S PROVE x >= y
    <2>1. n - y \in Gaps /\ n - y \in Nat /\ g \in Nat
      BY <1>2
    <2>2. ~(n - y < g)
      BY <1>3, <2>1 DEF Below
    <2> QED
      BY <2>1, <2>2, <1>4
  <1> QED
    BY <1>4, <1>5 DEF Max

\* Evaluations are numbered from 1 up to some number.
Numbered == \E n \in Nat : \A a \in Alerts : checked[a] <= n

\* The latest evaluation has a number, and no alert a later one.
LEMMA LastCheckExists ==
    ASSUME checked \in [Alerts -> Nat], Numbered, NEW b \in Alerts
    PROVE  LastCheck \in Nat /\ \A a \in Alerts : checked[a] <= LastCheck
  <1> DEFINE S == {checked[a] : a \in Alerts}
  <1>1. PICK n \in Nat : \A a \in Alerts : checked[a] <= n
    BY DEF Numbered
  <1>2. S \in SUBSET Nat /\ S # {} /\ \A x \in S : x <= n
    BY <1>1
  <1>3. Max(S) \in S /\ \A y \in S : Max(S) >= y
    BY <1>1, <1>2, MaxExists
  <1>4. LastCheck = Max(S)
    BY DEF LastCheck
  <1> HIDE DEF S
  <1>5. Max(S) \in Nat
    BY <1>2, <1>3
  <1>6. \A a \in Alerts : checked[a] \in S
    BY DEF S
  <1> QED
    BY <1>2, <1>3, <1>4, <1>5, <1>6

\* Numbering some rows with the next evaluation keeps both facts.
LEMMA CheckedStep ==
    ASSUME checked \in [Alerts -> Nat], Numbered, NEW rows,
           checked' = [a \in Alerts |-> IF a \in rows THEN LastCheck + 1 ELSE checked[a]]
    PROVE  checked' \in [Alerts -> Nat] /\ Numbered'
  <1>1. CASE Alerts = {}
    <2>1. checked' \in [Alerts -> Nat]
      BY <1>1
    <2>2. \A a \in Alerts : checked'[a] <= 0
      BY <1>1
    <2> QED
      BY <2>1, <2>2 DEF Numbered
  <1>2. CASE Alerts # {}
    <2>1. LastCheck \in Nat /\ \A a \in Alerts : checked[a] <= LastCheck
      BY <1>2, LastCheckExists
    <2>2. LastCheck + 1 \in Nat
      BY <2>1
    <2>3. checked' \in [Alerts -> Nat]
      BY <2>2
    <2>4. \A a \in Alerts : checked'[a] <= LastCheck + 1
      BY <2>1
    <2>5. \E n \in Nat : \A a \in Alerts : checked'[a] <= n
      BY <2>2, <2>4
    <2> QED
      BY <2>3, <2>5 DEF Numbered
  <1> QED
    BY <1>1, <1>2

-----------------------------------------------------------------------------
(* What is learnt, stored and on its way                                   *)

\* Only rows of S are in memory, in the database, or in anybody's hands.
Hands(S) ==
    /\ adapter \in Seq(SUBSET S)
    /\ stored \in Seq(SUBSET S)
    /\ stray \in Seq(SUBSET S)
    /\ batch \in [Learners -> SUBSET S]
    /\ payload \in [Learners -> Seq(SUBSET S)]

\* A learner reads no rows but learnable ones.
LEMMA RowsAreLearnable ==
    ASSUME NEW l, NEW rows \in Rows(l)
    PROVE  rows \subseteq Learnable
  <1>1. CASE l = "job"
    BY <1>1 DEF Rows
  <1>2. CASE l # "job" /\ Learnable = {}
    BY <1>2 DEF Rows
  <1>3. CASE l # "job" /\ Learnable # {}
    BY <1>3 DEF Rows
  <1> QED
    BY <1>1, <1>2, <1>3

\* Whatever rows may be learnt belong to S: then a step leaves Hands within S.
LEMMA HandsStep ==
    ASSUME NEW S, Hands(S), Learnable \subseteq S, [Next]_vars
    PROVE  /\ adapter' \in Seq(SUBSET S)
           /\ stored' \in Seq(SUBSET S)
           /\ stray' \in Seq(SUBSET S)
           /\ batch' \in [Learners -> SUBSET S]
           /\ payload' \in [Learners -> Seq(SUBSET S)]
  <1> USE DEF Hands
  <1>1. <<>> \in Seq(SUBSET S) /\ {} \in SUBSET S
    OBVIOUS
  <1>2. CASE UNCHANGED learnVars
    BY <1>2 DEF learnVars
  <1>3. CASE UNCHANGED <<adapter, stored, batch, payload, stray>>
    BY <1>3
  <1>4. ASSUME NEW l \in Learners, RowsArrive(l)
        PROVE  /\ batch' \in [Learners -> SUBSET S]
               /\ UNCHANGED <<adapter, stored, payload, stray>>
    <2>1. PICK rows \in Rows(l) : batch' = [batch EXCEPT ![l] = rows]
      BY <1>4 DEF RowsArrive
    <2>2. rows \in SUBSET S
      BY <2>1, RowsAreLearnable
    <2> QED
      BY <1>4, <2>1, <2>2 DEF RowsArrive
  <1>5. ASSUME NEW l \in Learners, Learn(l)
        PROVE  /\ adapter' \in Seq(SUBSET S)
               /\ payload' \in [Learners -> Seq(SUBSET S)]
               /\ batch' \in [Learners -> SUBSET S]
               /\ UNCHANGED <<stored, stray>>
    <2>1. adapter' \in Seq(SUBSET S)
      BY <1>5 DEF Learn
    <2>2. payload' = [payload EXCEPT ![l] = adapter']
      BY <1>5 DEF Learn, Serialize
    <2>3. batch' = [batch EXCEPT ![l] = {}] /\ UNCHANGED <<stored, stray>>
      BY <1>5 DEF Learn
    <2> QED
      BY <1>1, <2>1, <2>2, <2>3
  <1>6. CASE LearnUnnoticed
    <2>1. "cycle" \in Learners
      BY DEF Learners
    <2>2. adapter' \in Seq(SUBSET S)
      BY <1>6, <2>1 DEF LearnUnnoticed
    <2> QED
      BY <1>1, <1>6, <2>1, <2>2 DEF LearnUnnoticed
  <1>7. ASSUME NEW l \in Learners, LearnFails(l)
        PROVE  batch' \in [Learners -> SUBSET S] /\ UNCHANGED <<adapter, stored, payload, stray>>
    BY <1>7, <1>1 DEF LearnFails
  <1>8. ASSUME NEW l \in Learners, PersistDone(l) \/ PersistFails(l)
        PROVE  /\ payload' \in [Learners -> Seq(SUBSET S)]
               /\ stored' \in Seq(SUBSET S)
               /\ stray' \in Seq(SUBSET S)
               /\ UNCHANGED <<adapter, batch>>
    <2>1. CASE PersistDone(l)
      BY <2>1, <1>1 DEF PersistDone
    <2>2. CASE PersistFails(l)
      BY <2>2, <1>1 DEF PersistFails
    <2> QED
      BY <1>8, <2>1, <2>2
  <1>9. CASE CancelCycle
    <2>1. "cycle" \in Learners
      BY DEF Learners
    <2>2. stray' \in Seq(SUBSET S)
      BY <1>9, <2>1 DEF CancelCycle
    <2>3. /\ batch' \in [Learners -> SUBSET S]
          /\ payload' \in [Learners -> Seq(SUBSET S)]
          /\ UNCHANGED <<adapter, stored>>
      BY <1>9, <1>1 DEF CancelCycle
    <2> QED
      BY <2>2, <2>3
  <1>10. CASE StrayEnds \/ Reset \/ Restart \/ RestoreFails
    BY <1>10, <1>1 DEF StrayEnds, Reset, Restart, RestoreFails
  <1>11. CASE Crash
    BY <1>11, <1>1 DEF Crash
  <1>12. ASSUME \/ \E a \in Alerts : StoreAlert(a) \/ Age(a)
                \/ NoAlert \/ EvaluateBegins \/ EvaluateStep
                \/ \E l \in Learners : LearnBegins(l) \/ NothingToLearn(l)
         PROVE  UNCHANGED <<adapter, stored, batch, payload, stray>>
    BY <1>12 DEF StoreAlert, Age, NoAlert, EvaluateBegins, EvaluateStep, PricesArrive, PricesFail,
                 EvaluateFails, LearnBegins, NothingToLearn, learnVars
  <1>13. CASE UNCHANGED vars
    BY <1>13 DEF vars, learnVars
  <1> QED
    BY <1>3, <1>4, <1>5, <1>6, <1>7, <1>8, <1>9, <1>10, <1>11, <1>12, <1>13 DEF Next, LearnStep

-----------------------------------------------------------------------------
(* Types                                                                   *)

AlertTypes ==
    /\ age \in [Alerts -> {"none", "young", "due"}]
    /\ score \in [Alerts -> Scorings \cup {NoScores}]
    /\ mock \in [Alerts -> BOOLEAN]
    /\ outcome \in [Alerts -> {"none", "profit", "loss"}]
    /\ method \in [Alerts -> {"spx_forward", "consistency_fallback"}]
    /\ checked \in [Alerts -> Nat]
    /\ Numbered
    /\ evaluating \in BOOLEAN
    /\ snapshot \subseteq Alerts
    /\ snapshot # {} <=> evaluating

Control ==
    /\ up \in BOOLEAN
    /\ excuse \in BOOLEAN
    /\ latest \in Learners \cup {"none"}
    /\ pc \in [Learners -> Phases]
    /\ \A l \in Learners : /\ batch[l] # {} => pc[l] = "read"
                           /\ payload[l] # <<>> <=> pc[l] = "persist"
    /\ ~up => ~evaluating /\ \A l \in Learners : pc[l] = "idle"

\* The types come in three parts: alerts, what learners have in hand, where they are.
LEMMA TypeParts == TypeOK /\ Numbered <=> AlertTypes /\ Hands(Alerts) /\ Control
  BY DEF TypeOK, AlertTypes, Hands, Control

\* No step breaks the types of alerts.
LEMMA AlertTypesStep ==
    ASSUME AlertTypes, [Next]_vars
    PROVE  AlertTypes'
  <1> USE DEF AlertTypes
  <1>1. CASE UNCHANGED alertVars
    BY <1>1 DEF alertVars, Numbered
  <1>2. ASSUME NEW a \in Alerts, StoreAlert(a) PROVE AlertTypes'
    <2>1. PICK s \in Scorings : score' = [score EXCEPT ![a] = s]
      BY <1>2 DEF StoreAlert
    <2>2. PICK m \in BOOLEAN : mock' = [mock EXCEPT ![a] = m]
      BY <1>2 DEF StoreAlert
    <2>3. /\ age' = [age EXCEPT ![a] = "young"]
          /\ UNCHANGED <<outcome, method, checked, evaluating, snapshot>>
      BY <1>2 DEF StoreAlert
    <2>4. age' \in [Alerts -> {"none", "young", "due"}]
      BY <2>3
    <2>5. score' \in [Alerts -> Scorings \cup {NoScores}]
      BY <2>1
    <2>6. mock' \in [Alerts -> BOOLEAN]
      BY <2>2
    <2> QED
      BY <2>3, <2>4, <2>5, <2>6 DEF Numbered
  <1>3. ASSUME NEW a \in Alerts, Age(a) PROVE AlertTypes'
    BY <1>3 DEF Age, Numbered
  <1>4. CASE EvaluateBegins
    <2>1. Due \subseteq Alerts
      BY DEF Due
    <2> QED
      BY <1>4, <2>1 DEF EvaluateBegins, Numbered
  <1>5. CASE PricesArrive
    <2>1. PICK priced \in SUBSET snapshot :
             /\ \E measured \in [priced -> {"profit", "loss"}] :
                   outcome' = [a \in Alerts |-> IF a \in priced THEN measured[a] ELSE outcome[a]]
             /\ method' = [a \in Alerts |-> IF a \in priced THEN "spx_forward" ELSE method[a]]
             /\ checked' = [a \in Alerts |-> IF a \in priced THEN LastCheck + 1 ELSE checked[a]]
      BY <1>5 DEF PricesArrive
    <2>2. PICK measured \in [priced -> {"profit", "loss"}] :
             outcome' = [a \in Alerts |-> IF a \in priced THEN measured[a] ELSE outcome[a]]
      BY <2>1
    <2>3. outcome' \in [Alerts -> {"none", "profit", "loss"}]
      BY <2>2
    <2>4. method' \in [Alerts -> {"spx_forward", "consistency_fallback"}]
      BY <2>1
    <2>5. checked' \in [Alerts -> Nat] /\ Numbered'
      BY <2>1, CheckedStep
    <2> QED
      BY <1>5, <2>3, <2>4, <2>5 DEF PricesArrive
  <1>6. CASE PricesFail
    <2>1. method' \in [Alerts -> {"spx_forward", "consistency_fallback"}] /\ UNCHANGED outcome
      BY <1>6 DEF PricesFail, Tag
    <2>2. checked' \in [Alerts -> Nat] /\ Numbered'
      BY <1>6, CheckedStep DEF PricesFail
    <2> QED
      BY <1>6, <2>1, <2>2 DEF PricesFail
  <1>7. CASE EvaluateFails
    BY <1>7 DEF EvaluateFails, Numbered
  <1>8. CASE Crash
    BY <1>8 DEF Crash, Numbered
  <1>9. ASSUME \/ NoAlert
               \/ \E l \in Learners : LearnBegins(l) \/ LearnStep(l)
               \/ LearnUnnoticed \/ CancelCycle \/ StrayEnds \/ Reset \/ Restart \/ RestoreFails
               \/ UNCHANGED vars
        PROVE  UNCHANGED alertVars
    BY <1>9 DEF NoAlert, LearnBegins, LearnStep, RowsArrive, NothingToLearn, Learn, LearnFails,
                PersistDone, PersistFails, LearnUnnoticed, CancelCycle, StrayEnds, Reset, Restart,
                RestoreFails, vars
  <1> QED
    BY <1>1, <1>2, <1>3, <1>4, <1>5, <1>6, <1>7, <1>8, <1>9 DEF Next, EvaluateStep

\* The phases by name.
LEMMA PhaseNames ==
    /\ {"idle", "query", "read", "persist", "alert"} = Phases
    /\ "cycle" \in Learners
    /\ \A l : After(l) \in {"idle", "alert"}
  BY DEF Phases, Learners, After

\* What a learner that is at work, or is not, has in hand.
LEMMA InHand ==
    ASSUME Control, NEW l \in Learners
    PROVE  /\ pc[l] \in Phases
           /\ pc[l] # "idle" => up
           /\ pc[l] # "read" => batch[l] = {}
           /\ pc[l] # "persist" => payload[l] = <<>>
           /\ pc[l] = "persist" => payload[l] # <<>>
  <1>1. pc[l] = "persist" <=> payload[l] # <<>>
    BY DEF Control
  <1>2. pc[l] \in Phases /\ (pc[l] # "idle" => up) /\ (pc[l] # "read" => batch[l] = {})
    BY DEF Control
  <1> QED
    BY <1>1, <1>2

\* No step has a learner hold rows or a payload in a phase that has none.
LEMMA ControlStep ==
    ASSUME Control, Hands(Alerts), [Next]_vars
    PROVE  Control'
  <1> USE PhaseNames DEF Control
  <1>1. CASE UNCHANGED learnVars /\ evaluating' = evaluating
    BY <1>1 DEF learnVars
  <1>2. CASE UNCHANGED learnVars /\ up
    BY <1>2 DEF learnVars
  <1>3. CASE NoAlert
    BY <1>3 DEF NoAlert, alertVars
  <1>4. ASSUME NEW a \in Alerts, StoreAlert(a) PROVE Control'
    BY <1>4 DEF StoreAlert
  <1>5. ASSUME NEW l \in Learners, LearnBegins(l) PROVE Control'
    BY <1>5 DEF LearnBegins, alertVars
  <1>6. ASSUME NEW l \in Learners, RowsArrive(l) PROVE Control'
    <2>1. /\ pc[l] = "query" /\ pc' = [pc EXCEPT ![l] = "read"]
          /\ \A k \in Learners \ {l} : batch'[k] = batch[k]
          /\ UNCHANGED <<payload, up, excuse, latest, evaluating>>
      BY <1>6 DEF RowsArrive, alertVars, Hands
    <2>2. up
      BY <2>1
    <2>3. pc' \in [Learners -> Phases]
      BY <2>1
    <2>4. payload[l] = <<>>
      BY <2>1, InHand
    <2> QED
      BY <2>1, <2>2, <2>3, <2>4
  <1>7. ASSUME NEW l \in Learners, NothingToLearn(l) PROVE Control'
    BY <1>7 DEF NothingToLearn, alertVars
  <1>8. ASSUME NEW l \in Learners, Learn(l) PROVE Control'
    <2>1. adapter' # <<>>
      BY <1>8 DEF Learn, Hands
    <2>2. /\ pc' = [pc EXCEPT ![l] = "persist"]
          /\ batch' = [batch EXCEPT ![l] = {}]
          /\ payload' = [payload EXCEPT ![l] = adapter']
          /\ latest' = l
          /\ UNCHANGED <<up, evaluating>>
      BY <1>8 DEF Learn, Serialize, alertVars
    <2>3. excuse' \in BOOLEAN
      BY <1>8 DEF Learn
    <2>4. up
      BY <1>8 DEF Learn
    <2> QED
      BY <2>1, <2>2, <2>3, <2>4 DEF Hands
  <1>9. CASE LearnUnnoticed
    <2>1. /\ pc["cycle"] = "read" /\ pc' = [pc EXCEPT !["cycle"] = "alert"]
          /\ batch' = [batch EXCEPT !["cycle"] = {}]
          /\ excuse' = TRUE
          /\ latest' = "none"
          /\ UNCHANGED <<payload, up, evaluating>>
      BY <1>9 DEF LearnUnnoticed, alertVars
    <2>2. up
      BY <2>1
    <2>3. batch'["cycle"] = {} /\ payload'["cycle"] = <<>>
      BY <2>1 DEF Hands
    <2> QED
      BY <2>1, <2>2, <2>3 DEF Hands
  <1>10. ASSUME NEW l \in Learners, LearnFails(l) PROVE Control'
    <2>1. /\ pc[l] \in {"query", "read"}
          /\ \E next \in {"idle", "alert"} : pc' = [pc EXCEPT ![l] = next]
          /\ batch' = [batch EXCEPT ![l] = {}]
          /\ UNCHANGED <<payload, up, excuse, latest, evaluating>>
      BY <1>10 DEF LearnFails, alertVars
    <2>2. up /\ payload[l] = <<>>
      BY <2>1, InHand
    <2> QED
      BY <2>1, <2>2 DEF Hands
  <1>11. ASSUME NEW l \in Learners, PersistDone(l) PROVE Control'
    <2>1. excuse' \in BOOLEAN
      BY <1>11 DEF PersistDone
    <2> QED
      BY <1>11, <2>1 DEF PersistDone, alertVars, Hands
  <1>12. ASSUME NEW l \in Learners, PersistFails(l) PROVE Control'
    BY <1>12 DEF PersistFails, alertVars, Hands
  <1>13. CASE CancelCycle
    <2>1. excuse' \in BOOLEAN
      BY <1>13 DEF CancelCycle
    <2> QED
      BY <1>13, <2>1 DEF CancelCycle, alertVars, Hands
  <1>14. CASE StrayEnds \/ Reset
    <2>1. CASE StrayEnds
      BY <1>14, <2>1 DEF StrayEnds, alertVars
    <2>2. CASE Reset
      BY <1>14, <2>2 DEF Reset, alertVars
    <2> QED
      BY <1>14, <2>1, <2>2
  <1>15. CASE Crash
    BY <1>15 DEF Crash
  <1>16. CASE Restart \/ RestoreFails
    BY <1>16 DEF Restart, RestoreFails, alertVars
  <1>17. ASSUME NEW a \in Alerts, Age(a) PROVE UNCHANGED learnVars /\ evaluating' = evaluating
    BY <1>17 DEF Age
  <1>18. ASSUME EvaluateBegins PROVE UNCHANGED learnVars /\ up
    BY <1>18 DEF EvaluateBegins
  <1>19. ASSUME evaluating, EvaluateStep PROVE UNCHANGED learnVars /\ up
    BY <1>19 DEF EvaluateStep, PricesArrive, PricesFail, EvaluateFails
  <1>20. ASSUME EvaluateStep PROVE evaluating
    BY <1>20 DEF EvaluateStep, PricesArrive, PricesFail, EvaluateFails
  <1>21. ASSUME UNCHANGED vars PROVE UNCHANGED learnVars /\ evaluating' = evaluating
    BY <1>21 DEF vars, alertVars
  <1> QED
    BY <1>1, <1>2, <1>3, <1>4, <1>5, <1>6, <1>7, <1>8, <1>9, <1>10, <1>11, <1>12, <1>13, <1>14, <1>15,
       <1>16, <1>17, <1>18, <1>19, <1>20, <1>21 DEF Next, LearnStep

\* Learnable rows are alerts.
LEMMA LearnableRows == AlertTypes => Learnable \subseteq Alerts
  BY DEF Learnable

\* The types hold at first.
LEMMA TypeInit == Init => TypeOK /\ Numbered
  <1> SUFFICES ASSUME Init PROVE TypeOK /\ Numbered
    OBVIOUS
  <1>1. <<>> \in Seq(SUBSET Alerts) /\ 0 \in Nat
    OBVIOUS
  <1>2. TypeOK
    BY <1>1 DEF Init, TypeOK, Phases
  <1>3. \A a \in Alerts : checked[a] <= 0
    BY DEF Init
  <1> QED
    BY <1>1, <1>2, <1>3 DEF Numbered

\* No step breaks the types.
LEMMA TypeStep ==
    ASSUME TypeOK, Numbered, [Next]_vars
    PROVE  TypeOK' /\ Numbered'
  <1>1. AlertTypes /\ Hands(Alerts) /\ Control
    BY TypeParts
  <1>2. AlertTypes' /\ Control'
    BY <1>1, AlertTypesStep, ControlStep
  <1>3. Hands(Alerts)'
    BY <1>1, LearnableRows, HandsStep DEF Hands
  <1> QED
    BY <1>2, <1>3, TypeParts, PTL

\* The types hold throughout.
LEMMA TypeInvariant == Spec => [](TypeOK /\ Numbered)
  <1>1. Init => TypeOK /\ Numbered
    BY TypeInit
  <1>2. TypeOK /\ Numbered /\ [Next]_vars => (TypeOK /\ Numbered)'
    BY TypeStep
  <1> QED
    BY <1>1, <1>2, PTL DEF Spec

\* Type correctness of the learning loop for any alerts, scores and updates; a
\* learner has rows or a state in hand exactly where the code has them.
THEOREM LearningTypeCorrect == Spec => []TypeOK
  BY TypeInvariant, PTL

-----------------------------------------------------------------------------
(* Only measured outcomes of real data are learnt                          *)

Measured == {a \in Alerts : outcome[a] # "none" /\ ~mock[a] /\ method[a] = "spx_forward"}

\* An outcome is only ever written for a row that is due and has none: an
\* evaluation's rows are still without one when their prices arrive.
RowsAwaitOutcomes ==
    /\ \A a \in Alerts : outcome[a] # "none" => age[a] = "due"
    /\ \A a \in snapshot : outcome[a] = "none" /\ age[a] = "due"

MeasuredInv == RowsAwaitOutcomes /\ TagsAreProvisional /\ Hands(Measured)

\* At first nothing has been learnt, so nothing that was not measured.
LEMMA MeasuredInit == Init => MeasuredInv
  <1>1. <<>> \in Seq(SUBSET Measured) /\ {} \in SUBSET Measured
    OBVIOUS
  <1>2. Init => Hands(Measured)
    BY <1>1 DEF Init, Hands
  <1>3. Init => RowsAwaitOutcomes /\ TagsAreProvisional
    BY DEF Init, RowsAwaitOutcomes, TagsAreProvisional
  <1> QED
    BY <1>2, <1>3 DEF MeasuredInv

\* What an evaluation changes: rows that had no outcome, once.
LEMMA OutcomeStep ==
    ASSUME AlertTypes, RowsAwaitOutcomes, TagsAreProvisional, [Next]_vars
    PROVE  /\ RowsAwaitOutcomes' /\ TagsAreProvisional'
           /\ \A a \in Alerts : outcome[a] # "none" =>
                /\ outcome'[a] = outcome[a] /\ checked'[a] = checked[a]
                /\ method'[a] = method[a] /\ mock'[a] = mock[a]
  <1> DEFINE Kept == \A a \in Alerts : outcome[a] # "none" =>
                        /\ outcome'[a] = outcome[a] /\ checked'[a] = checked[a]
                        /\ method'[a] = method[a] /\ mock'[a] = mock[a]
  <1> SUFFICES RowsAwaitOutcomes' /\ TagsAreProvisional' /\ Kept
    OBVIOUS
  <1> USE DEF AlertTypes, RowsAwaitOutcomes, TagsAreProvisional
  <1>1. ASSUME NEW a \in Alerts, StoreAlert(a)
        PROVE  RowsAwaitOutcomes' /\ TagsAreProvisional' /\ Kept
    <2>1. age[a] = "none" /\ age' = [age EXCEPT ![a] = "young"]
      BY <1>1 DEF StoreAlert
    <2>2. UNCHANGED <<outcome, method, checked, snapshot>>
      BY <1>1 DEF StoreAlert
    <2>3. PICK m \in BOOLEAN : mock' = [mock EXCEPT ![a] = m]
      BY <1>1 DEF StoreAlert
    <2>4. outcome[a] = "none" /\ a \notin snapshot
      BY <2>1
    <2> QED
      BY <2>1, <2>2, <2>3, <2>4
  <1>2. ASSUME NEW a \in Alerts, Age(a)
        PROVE  RowsAwaitOutcomes' /\ TagsAreProvisional' /\ Kept
    BY <1>2 DEF Age
  <1>3. CASE EvaluateBegins
    BY <1>3 DEF EvaluateBegins, Due
  <1>4. CASE PricesArrive
    <2>1. PICK priced \in SUBSET snapshot :
             /\ \E measured \in [priced -> {"profit", "loss"}] :
                   outcome' = [a \in Alerts |-> IF a \in priced THEN measured[a] ELSE outcome[a]]
             /\ method' = [a \in Alerts |-> IF a \in priced THEN "spx_forward" ELSE method[a]]
             /\ checked' = [a \in Alerts |-> IF a \in priced THEN LastCheck + 1 ELSE checked[a]]
      BY <1>4 DEF PricesArrive
    <2>2. \A a \in Alerts : a \notin priced => /\ outcome'[a] = outcome[a]
                                             /\ method'[a] = method[a] /\ checked'[a] = checked[a]
      BY <2>1
    <2>3. \A a \in Alerts : a \in priced =>
             method'[a] = "spx_forward" /\ outcome[a] = "none" /\ age[a] = "due"
      BY <2>1
    <2>4. snapshot' = {} /\ UNCHANGED <<age, mock>>
      BY <1>4 DEF PricesArrive
    <2> QED
      BY <2>2, <2>3, <2>4
  <1>5. CASE PricesFail
    <2>1. \A a \in Taggable : outcome[a] = "none"
      BY DEF Taggable, Due
    <2>2. /\ method' = [a \in Alerts |-> IF a \in Taggable THEN "consistency_fallback" ELSE method[a]]
          /\ checked' = [a \in Alerts |-> IF a \in Taggable THEN LastCheck + 1 ELSE checked[a]]
          /\ snapshot' = {} /\ UNCHANGED <<age, mock, outcome>>
      BY <1>5 DEF PricesFail, Tag
    <2> QED
      BY <2>1, <2>2
  <1>6. CASE EvaluateFails
    BY <1>6 DEF EvaluateFails
  <1>7. CASE Crash
    BY <1>7 DEF Crash
  <1>8. ASSUME \/ NoAlert
               \/ \E l \in Learners : LearnBegins(l) \/ LearnStep(l)
               \/ LearnUnnoticed \/ CancelCycle \/ StrayEnds \/ Reset \/ Restart \/ RestoreFails
               \/ UNCHANGED vars
        PROVE  UNCHANGED alertVars
    BY <1>8 DEF NoAlert, LearnBegins, LearnStep, RowsArrive, NothingToLearn, Learn, LearnFails,
                PersistDone, PersistFails, LearnUnnoticed, CancelCycle, StrayEnds, Reset, Restart,
                RestoreFails, vars
  <1>9. CASE UNCHANGED alertVars
    BY <1>9 DEF alertVars
  <1> QED
    BY <1>1, <1>2, <1>3, <1>4, <1>5, <1>6, <1>7, <1>8, <1>9 DEF Next, EvaluateStep

\* No step learns, saves or carries anything but measured rows.
LEMMA MeasuredStep ==
    ASSUME AlertTypes, MeasuredInv, [Next]_vars
    PROVE  MeasuredInv'
  <1>1. RowsAwaitOutcomes' /\ TagsAreProvisional' /\ Measured \subseteq Measured'
    <2>1. /\ RowsAwaitOutcomes' /\ TagsAreProvisional'
          /\ \A a \in Alerts : outcome[a] # "none" =>
                /\ outcome'[a] = outcome[a] /\ checked'[a] = checked[a]
                /\ method'[a] = method[a] /\ mock'[a] = mock[a]
      BY OutcomeStep DEF MeasuredInv
    <2> QED
      BY <2>1 DEF Measured
  <1>2. Learnable \subseteq Measured
    BY DEF Learnable, Measured, AlertTypes
  <1>3. PICK S : S = Measured
    OBVIOUS
  <1>4. PICK T : T = Measured'
    OBVIOUS
  <1>5. /\ adapter' \in Seq(SUBSET S)
        /\ stored' \in Seq(SUBSET S)
        /\ stray' \in Seq(SUBSET S)
        /\ batch' \in [Learners -> SUBSET S]
        /\ payload' \in [Learners -> Seq(SUBSET S)]
    BY <1>2, <1>3, HandsStep DEF MeasuredInv
  <1>6. SUBSET S \subseteq SUBSET T
    BY <1>1, <1>3, <1>4
  <1>7. Seq(SUBSET S) \subseteq Seq(SUBSET T)
    BY <1>6
  <1>8. Hands(Measured)'
    BY <1>4, <1>5, <1>6, <1>7 DEF Hands
  <1> QED
    BY <1>1, <1>8 DEF MeasuredInv

\* Only measured rows are learnt, throughout.
LEMMA MeasuredInvariant == Spec => [](TypeOK /\ Numbered /\ MeasuredInv)
  <1>1. Init => MeasuredInv
    BY MeasuredInit
  <1>2. TypeOK /\ Numbered /\ MeasuredInv /\ [Next]_vars => MeasuredInv'
    BY MeasuredStep, TypeParts
  <1> QED
    BY <1>1, <1>2, TypeInvariant, PTL DEF Spec

\* What updates made of rows of S have learnt is in S.
LEMMA LearntWithin ==
    ASSUME NEW S, NEW updates \in Seq(SUBSET S)
    PROVE  Learnt(updates) \subseteq S
  <1>1. \A i \in DOMAIN updates : updates[i] \in SUBSET S
    OBVIOUS
  <1> QED
    BY <1>1 DEF Learnt, Range

\* Whatever fails, overlaps or restarts, the weights in memory, in system_config
\* and in every write under way come from measured outcomes of real data.
THEOREM LearningIsMeasured == Spec => []LearntIsMeasured
  <1>1. MeasuredInv => LearntIsMeasured
    <2> SUFFICES ASSUME MeasuredInv
                 PROVE  Learnt(adapter) \cup Learnt(stored) \cup Learnt(stray)
                            \cup UNION {batch[l] \cup Learnt(payload[l]) : l \in Learners} \subseteq Measured
      BY DEF LearntIsMeasured, Measured
    <2> USE DEF MeasuredInv, Hands
    <2>1. /\ Learnt(adapter) \subseteq Measured
          /\ Learnt(stored) \subseteq Measured
          /\ Learnt(stray) \subseteq Measured
      BY LearntWithin
    <2>2. \A l \in Learners : batch[l] \subseteq Measured /\ Learnt(payload[l]) \subseteq Measured
      BY LearntWithin
    <2> QED
      BY <2>1, <2>2
  <1> QED
    BY <1>1, MeasuredInvariant, PTL

\* A tag of the offline fallback and an outcome exclude each other, in whatever
\* order fallback and measurement come.
THEOREM LearningTagsProvisional == Spec => []TagsAreProvisional
  <1>1. MeasuredInv => TagsAreProvisional
    BY DEF MeasuredInv
  <1> QED
    BY <1>1, MeasuredInvariant, PTL

\* An evaluation overwrites no outcome although its rows were read before it
\* awaited the prices.
THEOREM LearningOutcomesFinal == Spec => OutcomesAreFinal
  <1>1. TypeOK /\ Numbered /\ MeasuredInv /\ [Next]_vars =>
           [\A a \in Alerts : outcome[a] # "none" =>
               outcome'[a] = outcome[a] /\ checked'[a] = checked[a]]_vars
    BY OutcomeStep, TypeParts DEF MeasuredInv
  <1> QED
    BY <1>1, MeasuredInvariant, PTL DEF Spec, OutcomesAreFinal

-----------------------------------------------------------------------------
(* What is lost has a cause                                                *)

\* The writes under way: the one serialised last has the adapter's state, and a
\* write that was cancelled half-way has been recorded as a loss and dies with the
\* process.
WritesUnderWay ==
    /\ \A l \in Learners : pc[l] = "persist" /\ latest = l => payload[l] = adapter
    /\ stray # <<>> => excuse /\ up

LossInv == WritesUnderWay /\ LossHasCause

\* At first nothing is lost.
LEMMA LossInit == Init => LossInv
  BY DEF Init, LossInv, WritesUnderWay, LossHasCause

\* No step loses an update without a cause.
LEMMA LossStep ==
    ASSUME Control, Hands(Alerts), LossInv, [Next]_vars
    PROVE  LossInv'
  <1> USE PhaseNames DEF LossInv, WritesUnderWay, LossHasCause
  <1>1. pc \in [Learners -> Phases] /\ payload \in [Learners -> Seq(SUBSET Alerts)]
    BY DEF Control, Hands
  <1>2. ASSUME UNCHANGED learnVars PROVE LossInv'
    BY <1>2 DEF learnVars
  <1>3. ASSUME NEW l \in Learners, NEW p \in Phases \ {"persist"}, pc[l] # "persist",
               pc' = [pc EXCEPT ![l] = p], UNCHANGED <<adapter, stored, payload, stray, up, excuse, latest>>
        PROVE  LossInv'
    <2>1. \A k \in Learners : pc'[k] = "persist" <=> pc[k] = "persist"
      BY <1>1, <1>3
    <2> QED
      BY <1>3, <2>1
  <1>4. ASSUME NoAlert \/ \E a \in Alerts : StoreAlert(a) PROVE LossInv'
    <2>1. /\ pc["cycle"] # "persist" /\ pc' = [pc EXCEPT !["cycle"] = "idle"]
          /\ UNCHANGED <<adapter, stored, payload, stray, up, excuse, latest>>
      BY <1>4 DEF NoAlert, StoreAlert
    <2> QED
      BY <1>3, <2>1
  <1>5. ASSUME NEW l \in Learners,
               LearnBegins(l) \/ RowsArrive(l) \/ NothingToLearn(l) \/ LearnFails(l)
        PROVE  LossInv'
    <2>1. /\ pc[l] # "persist"
          /\ \E p \in Phases \ {"persist"} : pc' = [pc EXCEPT ![l] = p]
          /\ UNCHANGED <<adapter, stored, payload, stray, up, excuse, latest>>
      <3>1. CASE LearnBegins(l)
        BY <3>1 DEF LearnBegins
      <3>2. CASE RowsArrive(l)
        BY <3>2 DEF RowsArrive
      <3>3. CASE NothingToLearn(l)
        BY <3>3 DEF NothingToLearn
      <3>4. CASE LearnFails(l)
        BY <3>4 DEF LearnFails
      <3> QED
        BY <1>5, <3>1, <3>2, <3>3, <3>4
    <2> QED
      BY <1>3, <2>1
  <1>6. ASSUME NEW l \in Learners, Learn(l) PROVE LossInv'
    <2>1. /\ pc' = [pc EXCEPT ![l] = "persist"]
          /\ payload' = [payload EXCEPT ![l] = adapter']
          /\ latest' = l
          /\ excuse => excuse'
          /\ UNCHANGED <<stray, up>>
      BY <1>6 DEF Learn, Serialize
    <2>2. pc'[l] = "persist" /\ payload'[l] = adapter'
      BY <1>1, <2>1
    <2> QED
      BY <2>1, <2>2
  <1>7. ASSUME LearnUnnoticed PROVE LossInv'
    BY <1>7 DEF LearnUnnoticed, Learners
  <1>8. ASSUME NEW l \in Learners, PersistDone(l) PROVE LossInv'
    <2>1. /\ pc[l] = "persist"
          /\ stored' = payload[l] /\ stray' = <<>>
          /\ \E p \in {"idle", "alert"} : pc' = [pc EXCEPT ![l] = p]
          /\ payload' = [payload EXCEPT ![l] = <<>>]
          /\ latest' = IF latest = l THEN "none" ELSE latest
          /\ UNCHANGED <<adapter, up>>
      BY <1>8 DEF PersistDone
    <2>2. ~excuse' => latest = l
      BY <1>8 DEF PersistDone
    <2>3. ~excuse' => stored' = adapter'
      BY <2>1, <2>2
    <2>4. \A k \in Learners : pc'[k] = "persist" /\ latest' = k => payload'[k] = adapter'
      <3> SUFFICES ASSUME NEW k \in Learners, pc'[k] = "persist", latest' = k
                   PROVE  payload'[k] = adapter'
        OBVIOUS
      <3>1. k # l
        BY <1>1, <2>1
      <3>2. pc[k] = "persist" /\ latest = k /\ payload'[k] = payload[k]
        BY <1>1, <2>1, <3>1 DEF Learners
      <3> QED
        BY <2>1, <3>2
    <2> QED
      BY <2>1, <2>3, <2>4
  <1>9. ASSUME NEW l \in Learners, PersistFails(l) PROVE LossInv'
    <2>1. /\ \E p \in {"idle", "alert"} : pc' = [pc EXCEPT ![l] = p]
          /\ payload' = [payload EXCEPT ![l] = <<>>]
          /\ latest' = IF latest = l THEN "none" ELSE latest
          /\ excuse' = TRUE
          /\ UNCHANGED <<adapter, stray, up>>
      BY <1>9 DEF PersistFails
    <2>2. \A k \in Learners : pc'[k] = "persist" /\ latest' = k => payload'[k] = adapter'
      <3> SUFFICES ASSUME NEW k \in Learners, pc'[k] = "persist", latest' = k
                   PROVE  payload'[k] = adapter'
        OBVIOUS
      <3>1. k # l
        BY <1>1, <2>1
      <3>2. pc[k] = "persist" /\ latest = k /\ payload'[k] = payload[k]
        BY <1>1, <2>1, <3>1 DEF Learners
      <3> QED
        BY <2>1, <3>2
    <2> QED
      BY <2>1, <2>2
  <1>10. ASSUME CancelCycle PROVE LossInv'
    <2>1. /\ pc' = [pc EXCEPT !["cycle"] = "idle"]
          /\ payload' = [payload EXCEPT !["cycle"] = <<>>]
          /\ excuse' = (excuse \/ pc["cycle"] = "persist")
          /\ UNCHANGED <<adapter, stored, up, latest>>
          /\ stray' = stray \/ pc["cycle"] = "persist"
      BY <1>10 DEF CancelCycle
    <2>2. \A k \in Learners : pc'[k] = "persist" => pc[k] = "persist" /\ payload'[k] = payload[k]
      BY <1>1, <2>1
    <2>4. pc["cycle"] = "persist" => up
      BY InHand, <1>1
    <2>3. pc["cycle"] # "persist" => \A k \in Learners : pc[k] = "persist" => pc'[k] = "persist"
      BY <1>1, <2>1
    <2> QED
      BY <2>1, <2>2, <2>3, <2>4
  <1>11. ASSUME StrayEnds PROVE LossInv'
    BY <1>11 DEF StrayEnds
  <1>12. ASSUME Reset PROVE LossInv'
    BY <1>12 DEF Reset, Learners
  <1>13. ASSUME Crash PROVE LossInv'
    <2>1. \A l \in Learners : pc'[l] = "idle"
      BY <1>13 DEF Crash
    <2>2. stray' = <<>> /\ up' = FALSE
      BY <1>13 DEF Crash
    <2> QED
      BY <2>1, <2>2
  <1>14. ASSUME Restart \/ RestoreFails PROVE LossInv'
    <2>1. \A l \in Learners : pc[l] = "idle"
      BY <1>14 DEF Restart, RestoreFails, Control
    <2>2. CASE Restart
      BY <2>1, <2>2 DEF Restart
    <2>3. CASE RestoreFails
      BY <2>1, <2>3 DEF RestoreFails
    <2> QED
      BY <1>14, <2>2, <2>3
  <1>15. ASSUME \/ \E a \in Alerts : Age(a)
                \/ EvaluateBegins \/ EvaluateStep \/ UNCHANGED vars
         PROVE  UNCHANGED learnVars
    BY <1>15 DEF Age, EvaluateBegins, EvaluateStep, PricesArrive, PricesFail, EvaluateFails, vars
  <1> QED
    BY <1>2, <1>4, <1>5, <1>6, <1>7, <1>8, <1>9, <1>10, <1>11, <1>12, <1>13, <1>14, <1>15
       DEF Next, LearnStep

\* The stored state falls behind the learnt one only by a reset, an update that
\* changed no rounded weight, a failed or cancelled write, a failed restore, or
\* two overlapping writes.
THEOREM LearningLossHasCause == Spec => []LossHasCause
  <1>1. Init => LossInv
    BY LossInit
  <1>2. TypeOK /\ Numbered /\ LossInv /\ [Next]_vars => LossInv'
    BY LossStep, TypeParts
  <1>3. LossInv => LossHasCause
    BY DEF LossInv
  <1> QED
    BY <1>1, <1>2, <1>3, TypeInvariant, PTL DEF Spec
=============================================================================
