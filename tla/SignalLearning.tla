--------------------------- MODULE SignalLearning ---------------------------
(***************************************************************************)
(* How the dimension weights are learnt: alerts age, a daily job measures  *)
(* their outcomes (quant/signal_outcomes.py), the pipeline after each      *)
(* scoring and another daily job feed outcomes to the adapter              *)
(* (quant/bayesian_weights.py), and both store its state through           *)
(* persist_posteriors() (quant/scoring.py), from which a restart restores. *)
(*                                                                         *)
(* The posteriors are a function of the priors and of the updates since    *)
(* the last reset, so the adapter is the sequence of the batches it learnt *)
(* from.  All tasks share one event loop: an action is the code between    *)
(* two awaits.                                                             *)
(***************************************************************************)
EXTENDS Integers, Sequences, FiniteSets, SequencesExt

CONSTANTS Alerts,       \* rows of signal_alerts (a bound)
          Scorings,     \* the dimension scores an alert may be stored with
          MaxUpdates    \* bound: no update begins beyond so many

Dims == {"gex", "vix", "crypto", "darkpool"}
Learners == {"cycle", "job"}

ASSUME LearningAssumption == /\ IsFiniteSet(Alerts)
                             /\ Scorings \subseteq [Dims -> 0..100]
                             /\ MaxUpdates \in Nat

VARIABLES
    age,        \* each alert: "none", "young" or "due"
    score,      \* its dimension scores
    mock,       \* its mock_count > 0
    outcome,    \* "none", "profit" or "loss"
    method,     \* outcome_method
    checked,    \* outcome_checked_at, as the number of the evaluation
    evaluating, \* does check_outcomes() await the prices
    snapshot,   \* the rows it read before
    adapter,    \* batches learnt since the last reset
    stored,     \* what system_config holds; <<>>: nothing
    pc,         \* where each learner is, see Phases
    batch,      \* the rows a learner has read
    payload,    \* the state it has serialised
    stray,      \* payload of a cancelled write whose transaction is open, or <<>>
    up,
    excuse,     \* history: may stored differ from adapter, see LossHasCause
    latest      \* history: the learner that changed adapter last, or "none"

alertVars == <<age, score, mock, outcome, method, checked, evaluating, snapshot>>
learnVars == <<adapter, stored, pc, batch, payload, stray, up, excuse, latest>>
vars == <<alertVars, learnVars>>

Phases == {"idle",     \* "cycle": before scoring
           "query",    \* awaiting the rows
           "read",     \* rows in hand, awaiting the end of the block
           "persist",  \* in persist_posteriors()
           "alert"}    \* "cycle": scoring is over

NoScores == [d \in Dims |-> 0]

Init ==
    /\ age = [a \in Alerts |-> "none"]
    /\ score = [a \in Alerts |-> NoScores]
    /\ mock = [a \in Alerts |-> FALSE]
    /\ outcome = [a \in Alerts |-> "none"]
    /\ method = [a \in Alerts |-> "spx_forward"]
    /\ checked = [a \in Alerts |-> 0]
    /\ evaluating = FALSE
    /\ snapshot = {}
    /\ adapter = <<>>
    /\ stored = <<>>
    /\ pc = [l \in Learners |-> "idle"]
    /\ batch = [l \in Learners |-> {}]
    /\ payload = [l \in Learners |-> <<>>]
    /\ stray = <<>>
    /\ up = TRUE
    /\ excuse = FALSE
    /\ latest = "none"

-----------------------------------------------------------------------------
(* The life of an alert                                                    *)

\* write_signal_alert(), at the end of a cycle.
StoreAlert(a) ==
    /\ pc["cycle"] = "alert"
    /\ age[a] = "none"
    /\ age' = [age EXCEPT ![a] = "young"]
    /\ \E s \in Scorings : score' = [score EXCEPT ![a] = s]
    /\ \E m \in BOOLEAN : mock' = [mock EXCEPT ![a] = m]
    /\ pc' = [pc EXCEPT !["cycle"] = "idle"]
    /\ UNCHANGED <<outcome, method, checked, evaluating, snapshot,
                   adapter, stored, batch, payload, stray, up, excuse, latest>>

\* The level is NONE, or writing fails.
NoAlert ==
    /\ pc["cycle"] = "alert"
    /\ pc' = [pc EXCEPT !["cycle"] = "idle"]
    /\ UNCHANGED <<alertVars, adapter, stored, batch, payload, stray, up, excuse, latest>>

\* FORWARD_DAYS have passed since the trigger.
Age(a) ==
    /\ age[a] = "young"
    /\ age' = [age EXCEPT ![a] = "due"]
    /\ UNCHANGED <<score, mock, outcome, method, checked, evaluating, snapshot, learnVars>>

LastCheck == Max({checked[a] : a \in Alerts})

\* (mutant) Without `outcome IS NULL`.
DueAgain == {a \in Alerts : age[a] = "due"}

Due == {a \in Alerts : age[a] = "due" /\ outcome[a] = "none"}

EvaluateBegins ==
    /\ up /\ ~evaluating
    /\ Due # {}
    /\ evaluating' = TRUE
    /\ snapshot' = Due
    /\ UNCHANGED <<age, score, mock, outcome, method, checked, learnVars>>

\* Some of the rows have both prices: one transaction writes their outcomes.
PricesArrive ==
    /\ evaluating
    /\ \E priced \in SUBSET snapshot :
        /\ \E measured \in [priced -> {"profit", "loss"}] :
              outcome' = [a \in Alerts |-> IF a \in priced THEN measured[a] ELSE outcome[a]]
        /\ method' = [a \in Alerts |-> IF a \in priced THEN "spx_forward" ELSE method[a]]
        /\ checked' = [a \in Alerts |-> IF a \in priced THEN LastCheck + 1 ELSE checked[a]]
    /\ evaluating' = FALSE
    /\ snapshot' = {}
    /\ UNCHANGED <<age, score, mock, learnVars>>

\* Few or most of an alert's dimensions scored above 50.
Conclusive(a) == Cardinality({d \in Dims : score[a][d] > 50}) \in {0, 1, 3, 4}

Taggable == {a \in Due : method[a] # "consistency_fallback" /\ ~mock[a] /\ Conclusive(a)}

Tag(rows) ==
    /\ method' = [a \in Alerts |-> IF a \in rows THEN "consistency_fallback" ELSE method[a]]
    /\ UNCHANGED outcome

\* No prices: _check_consistency_fallback() tags rows; outcome stays NULL.
PricesFail ==
    /\ evaluating
    /\ Tag(Taggable)
    /\ checked' = [a \in Alerts |-> IF a \in Taggable THEN LastCheck + 1 ELSE checked[a]]
    /\ evaluating' = FALSE
    /\ snapshot' = {}
    /\ UNCHANGED <<age, score, mock, learnVars>>

\* The database raises: get_db() rolls back.
EvaluateFails ==
    /\ evaluating
    /\ evaluating' = FALSE
    /\ snapshot' = {}
    /\ UNCHANGED <<age, score, mock, outcome, method, checked, learnVars>>

-----------------------------------------------------------------------------
(* Learning                                                                *)

\* (mutant) Without the mock filter.
LearnableWithMocks == {a \in Alerts : outcome[a] # "none" /\ method[a] # "consistency_fallback"}

Learnable == {a \in Alerts : outcome[a] # "none" /\ ~mock[a] /\ method[a] # "consistency_fallback"}

\* The rows a query may return: the cycle takes one that was checked last, the
\* job all that were checked in the last 90 days, wherever these begin.
Rows(l) ==
    IF l = "job" THEN {{a \in Learnable : checked[a] > n} : n \in 0..LastCheck}
    ELSE IF Learnable = {} THEN {{}}
    ELSE {{a} : a \in {b \in Learnable : \A c \in Learnable : checked[c] <= checked[b]}}

\* After an update the cycle goes on to its alert; the job ends.
After(l) == IF l = "cycle" THEN "alert" ELSE "idle"

LearnBegins(l) ==
    /\ up
    /\ pc[l] = "idle"
    /\ Len(adapter) + Cardinality({k \in Learners : pc[k] \in {"query", "read"}}) < MaxUpdates
    /\ pc' = [pc EXCEPT ![l] = "query"]
    /\ UNCHANGED <<alertVars, adapter, stored, batch, payload, stray, up, excuse, latest>>

RowsArrive(l) ==
    /\ pc[l] = "query"
    /\ \E rows \in Rows(l) : batch' = [batch EXCEPT ![l] = rows]
    /\ pc' = [pc EXCEPT ![l] = "read"]
    /\ UNCHANGED <<alertVars, adapter, stored, payload, stray, up, excuse, latest>>

NothingToLearn(l) ==
    /\ pc[l] = "read" /\ batch[l] = {}
    /\ pc' = [pc EXCEPT ![l] = After(l)]
    /\ UNCHANGED <<alertVars, adapter, stored, batch, payload, stray, up, excuse, latest>>

\* (mutant) The state is taken before the update.
SerializeEarly(l) == payload' = [payload EXCEPT ![l] = adapter]

Serialize(l) == payload' = [payload EXCEPT ![l] = adapter']

\* update_weights() and serialize_state() run without an await in between.
Learn(l) ==
    /\ pc[l] = "read" /\ batch[l] # {}
    /\ adapter' = Append(adapter, batch[l])
    /\ Serialize(l)
    /\ pc' = [pc EXCEPT ![l] = "persist"]
    /\ batch' = [batch EXCEPT ![l] = {}]
    /\ excuse' = (excuse \/ \E k \in Learners \ {l} : pc[k] = "persist")
    /\ latest' = l
    /\ UNCHANGED <<alertVars, stored, stray, up>>

\* The cycle stores nothing when the rounded weights are what they were.
LearnUnnoticed ==
    /\ pc["cycle"] = "read" /\ batch["cycle"] # {}
    /\ adapter' = Append(adapter, batch["cycle"])
    /\ pc' = [pc EXCEPT !["cycle"] = "alert"]
    /\ batch' = [batch EXCEPT !["cycle"] = {}]
    /\ excuse' = TRUE
    /\ latest' = "none"
    /\ UNCHANGED <<alertVars, stored, payload, stray, up>>

\* The query or the end of its block raises, which both learners log.
LearnFails(l) ==
    /\ pc[l] \in {"query", "read"}
    /\ pc' = [pc EXCEPT ![l] = After(l)]
    /\ batch' = [batch EXCEPT ![l] = {}]
    /\ UNCHANGED <<alertVars, adapter, stored, payload, stray, up, excuse, latest>>

\* The row of system_config is written and committed.  A stray transaction locks
\* the others out; on its own connection it is committed together with this one.
PersistDone(l) ==
    /\ pc[l] = "persist"
    /\ stored' = payload[l]
    /\ stray' = <<>>
    /\ pc' = [pc EXCEPT ![l] = After(l)]
    /\ payload' = [payload EXCEPT ![l] = <<>>]
    /\ excuse' = (latest # l \/ \E k \in Learners \ {l} : pc[k] = "persist")
    /\ latest' = IF latest = l THEN "none" ELSE latest
    /\ UNCHANGED <<alertVars, adapter, batch, up>>

\* "Best-effort: failures are logged, never raised."
PersistFails(l) ==
    /\ pc[l] = "persist"
    /\ pc' = [pc EXCEPT ![l] = After(l)]
    /\ payload' = [payload EXCEPT ![l] = <<>>]
    /\ excuse' = TRUE
    /\ latest' = IF latest = l THEN "none" ELSE latest
    /\ UNCHANGED <<alertVars, adapter, stored, batch, stray, up>>

-----------------------------------------------------------------------------
(* Cancellation, reset and restart                                         *)

\* stop() cancels the cycle at an await; in the middle of the write its
\* transaction stays open (see ConnectionPool).
CancelCycle ==
    /\ pc["cycle"] # "idle"
    /\ pc' = [pc EXCEPT !["cycle"] = "idle"]
    /\ batch' = [batch EXCEPT !["cycle"] = {}]
    /\ payload' = [payload EXCEPT !["cycle"] = <<>>]
    /\ \/ stray' = stray
       \/ pc["cycle"] = "persist" /\ stray' = payload["cycle"]
    /\ excuse' = (excuse \/ pc["cycle"] = "persist")
    /\ UNCHANGED <<alertVars, adapter, stored, up, latest>>

\* The next borrower of that connection commits or rolls back.
StrayEnds ==
    /\ stray # <<>>
    /\ stored' \in {stray, stored}
    /\ stray' = <<>>
    /\ UNCHANGED <<alertVars, adapter, pc, batch, payload, up, excuse, latest>>

\* POST /weights/reset
Reset ==
    /\ up
    /\ adapter' = <<>>
    /\ excuse' = TRUE
    /\ latest' = "none"
    /\ UNCHANGED <<alertVars, stored, pc, batch, payload, stray, up>>

\* The process ends, orderly or not: nothing is stored on the way out.
Crash ==
    /\ up
    /\ up' = FALSE
    /\ adapter' = <<>>
    /\ pc' = [l \in Learners |-> "idle"]
    /\ batch' = [l \in Learners |-> {}]
    /\ payload' = [l \in Learners |-> <<>>]
    /\ stray' = <<>>
    /\ evaluating' = FALSE
    /\ snapshot' = {}
    /\ latest' = "none"
    /\ UNCHANGED <<age, score, mock, outcome, method, checked, stored, excuse>>

\* restore_persisted_posteriors() precedes everything else.
Restart ==
    /\ ~up
    /\ up' = TRUE
    /\ adapter' = stored
    /\ excuse' = FALSE
    /\ UNCHANGED <<alertVars, stored, pc, batch, payload, stray, latest>>

\* It cannot read the row, and goes on with the priors.
RestoreFails ==
    /\ ~up
    /\ up' = TRUE
    /\ excuse' = TRUE
    /\ UNCHANGED <<alertVars, adapter, stored, pc, batch, payload, stray, latest>>

-----------------------------------------------------------------------------
LearnStep(l) == \/ RowsArrive(l) \/ NothingToLearn(l) \/ Learn(l) \/ LearnFails(l)
                \/ PersistDone(l) \/ PersistFails(l)

EvaluateStep == PricesArrive \/ PricesFail \/ EvaluateFails

Next == \/ \E a \in Alerts : StoreAlert(a) \/ Age(a)
        \/ NoAlert
        \/ EvaluateBegins \/ EvaluateStep
        \/ \E l \in Learners : LearnBegins(l) \/ LearnStep(l)
        \/ LearnUnnoticed
        \/ CancelCycle \/ StrayEnds \/ Reset
        \/ Crash \/ Restart \/ RestoreFails

Spec == Init /\ [][Next]_vars

-----------------------------------------------------------------------------
(* Properties                                                              *)

Learnt(updates) == UNION Range(updates)

\* Every variable has its type; rows and states in hand belong to a task that
\* is at work.
TypeOK ==
    /\ age \in [Alerts -> {"none", "young", "due"}]
    /\ score \in [Alerts -> Scorings \cup {NoScores}]
    /\ mock \in [Alerts -> BOOLEAN]
    /\ outcome \in [Alerts -> {"none", "profit", "loss"}]
    /\ method \in [Alerts -> {"spx_forward", "consistency_fallback"}]
    /\ checked \in [Alerts -> Nat]
    /\ evaluating \in BOOLEAN /\ up \in BOOLEAN /\ excuse \in BOOLEAN
    /\ latest \in Learners \cup {"none"}
    /\ snapshot \subseteq Alerts /\ (snapshot # {} <=> evaluating)
    /\ {adapter, stored, stray} \subseteq Seq(SUBSET Alerts)
    /\ pc \in [Learners -> Phases]
    /\ batch \in [Learners -> SUBSET Alerts]
    /\ payload \in [Learners -> Seq(SUBSET Alerts)]
    /\ \A l \in Learners : /\ batch[l] # {} => pc[l] = "read"
                           /\ payload[l] # <<>> <=> pc[l] = "persist"
    /\ ~up => ~evaluating /\ \A l \in Learners : pc[l] = "idle"

\* Weights are learnt from measured outcomes of real data only, in memory, in
\* the database and on the way there, also after restarts and late commits.
LearntIsMeasured ==
    \A a \in Learnt(adapter) \cup Learnt(stored) \cup Learnt(stray)
            \cup UNION {batch[l] \cup Learnt(payload[l]) : l \in Learners} :
        outcome[a] # "none" /\ ~mock[a] /\ method[a] = "spx_forward"

\* "Never fabricate a real outcome": what the offline fallback has tagged has no
\* outcome until prices are back, whichever of the two ran first.
TagsAreProvisional == \A a \in Alerts : method[a] = "consistency_fallback" => outcome[a] = "none"

\* A measured outcome is never measured again, although evaluations work on rows
\* read before they awaited the prices: what was learnt stays true.
OutcomesAreFinal ==
    [][\A a \in Alerts : outcome[a] # "none" => outcome'[a] = outcome[a] /\ checked'[a] = checked[a]]_vars

\* What a restart would restore is what the adapter has learnt, unless, since
\* they last agreed, there was a reset, an update whose weights looked the same,
\* a failed or cancelled write, a failed restore, or two writes that overlapped.
LossHasCause ==
    up /\ ~excuse /\ (\A l \in Learners : pc[l] # "persist") => stored = adapter

-----------------------------------------------------------------------------
(* What the comments promise and the code does not do                      *)

\* scoring.py:106, of persist_posteriors(): "Call after any successful weight update
\* so learning survives restarts."  A write does not take back what a later update
\* has stored before it, as long as the adapter still holds that: no reset between.
LearningSurvives ==
    [][\A l \in Learners :
          PersistDone(l) /\ IsPrefix(stored, adapter) => Len(stored') >= Len(stored)]_vars

\* Twice the median of a dimension's scores over a batch.
Median2(rows, d) ==
    LET s == SetToSortSeq(rows, LAMBDA a, b : score[a][d] <= score[b][d])
        n == Len(s)
    IN  score[s[(n + 1) \div 2]][d] + score[s[n \div 2 + 1]][d]

\* The weight of an outcome, in halves.
Strength(s) == IF s >= 75 THEN 4 ELSE IF s >= 50 THEN 3 ELSE 2

\* The outcomes that count as successes of d, and what they add to its alpha.
Agreeing(rows, d) == {a \in rows : 2 * score[a][d] > Median2(rows, d) <=> outcome[a] = "profit"}
Successes(rows, d) == MapThenSumSet(LAMBDA a : Strength(score[a][d]), Agreeing(rows, d))

\* bayesian_weights.py:153: "A dimension is "successful" if its score was high AND
\* the market moved favorably".  A batch with such an outcome raises its alpha.
ProfitIsSuccess ==
    \A i \in DOMAIN adapter, d \in Dims :
        (\E a \in adapter[i] : score[a][d] >= 75 /\ outcome[a] = "profit") => Successes(adapter[i], d) > 0
=============================================================================
