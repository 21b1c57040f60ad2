------------------------------ MODULE Scoring ------------------------------
(***************************************************************************)
(* The numbers of a cycle: the analyzers' scores, the resonance score      *)
(* (quant/scoring.py through quant/pipeline_adapter.py), the alert level   *)
(* the pipeline derives from it, and the weights learnt from outcomes      *)
(* (quant/bayesian_weights.py).  CollectCycle has the order and the        *)
(* failures of a cycle, SignalLearning has who learns from what and when   *)
(* it is stored; here is what is computed.                                 *)
(*                                                                         *)
(* Units: scores in 1/100 of a point (1/10000 before rounding), posteriors *)
(* in 1/100, weights in 1/10000.                                           *)
(***************************************************************************)
EXTENDS Analyzers

CONSTANTS Payloads,     \* for each exported analyzer, the payloads it is called with
          Sampled,      \* for each registered one, the payloads a cycle may see
          Batches,      \* sequences of outcomes, what an evaluation may hand over
          MaxUpdates    \* bound: no update beyond so many

Dims == Registered

Outcomes == [score : [Dims -> 0..100], ret : Int]

\* Payloads have the fields of their source, as numbers or missing, and those of
\* vix are what its fetcher builds from two prices.
ASSUME ScoringAssumption ==
    /\ DOMAIN Payloads = Exported
    /\ DOMAIN Sampled = Dims
    /\ \A a \in Exported : Payloads[a] \subseteq Data[a]
    /\ \A a \in Dims : Sampled[a] \subseteq Data[a]
    /\ \A d \in Payloads["vix"] :
          d.spot \in Nat /\ d.vx1 \in Nat /\ d = VixPayload(d.spot, d.vx1)
    /\ Batches \subseteq Seq(Outcomes) \ {<<>>}
    /\ MaxUpdates \in Nat

VARIABLES
    phase,      \* of the cycle: "idle", "analysed" or "scored"
    results,    \* of the cycle: what phase 2 made of each source
    scoring,    \* of the cycle: what phase 3 publishes, or None
    posteriors, \* of the adapter: [alpha, beta] of each dimension
    updates,    \* its _update_count
    report      \* what a caller of an analyzer got, or None

vars == <<phase, results, scoring, posteriors, updates, report>>

DefaultWeights == [gex |-> 25000, vix |-> 15000, crypto |-> 20000, darkpool |-> 20000]
RawMax == 80000

Priors == [gex      |-> [alpha |-> 500, beta |-> 300],
           vix      |-> [alpha |-> 400, beta |-> 300],
           crypto   |-> [alpha |-> 400, beta |-> 400],
           darkpool |-> [alpha |-> 400, beta |-> 400]]

NoResults == [d \in Dims |-> DefaultResult]

Init ==
    /\ phase = "idle"
    /\ results = NoResults
    /\ scoring = None
    /\ posteriors = Priors
    /\ updates = 0
    /\ report = None

-----------------------------------------------------------------------------
(* Weights                                                                 *)

Total(f) == f["gex"] + f["vix"] + f["crypto"] + f["darkpool"]

\* The posterior mean as a share of RAW_MAX, in 1/1000, within 5% and 60%.
Bounded(p) ==
    LET w == (8000 * p.alpha) \div (p.alpha + p.beta)
    IN  IF w < 400 THEN 400 ELSE AtMostOf(4800, w)

\* (mutant) Bounded and not normalised.
LearntAsBounded == [d \in Dims |-> 10 * Bounded(posteriors[d])]

\* _posteriors_to_weights(): normalised after they were bounded.
LearntWeights ==
    LET bounded == [d \in Dims |-> Bounded(posteriors[d])]
        total == Total(bounded)
    IN  [d \in Dims |-> (bounded[d] * RawMax + total \div 2) \div total]

\* get_current_weights(): the learnt ones when they sum to RAW_MAX.
CurrentWeights ==
    IF updates > 0 /\ Distance(Total(LearntWeights), RawMax) < 100
    THEN LearntWeights
    ELSE DefaultWeights

\* The k-th smallest of the numbers in s.
Ranked(s, k) ==
    LET upTo(v) == Cardinality({i \in DOMAIN s : s[i] <= v})
        under(v) == Cardinality({i \in DOMAIN s : s[i] < v})
    IN  CHOOSE v \in {s[i] : i \in DOMAIN s} : under(v) < k /\ k <= upTo(v)

MedianTwice(s) == Ranked(s, (Len(s) + 1) \div 2) + Ranked(s, (Len(s) \div 2) + 1)

\* The outcomes of the batch that speak for d: above the median before a rise,
\* at most the median otherwise.
Agreeing(batch, d) ==
    LET scores == [i \in DOMAIN batch |-> batch[i].score[d]]
    IN  {i \in DOMAIN batch : (2 * scores[i] > MedianTwice(scores)) <=> (batch[i].ret > 0)}

\* Each of the outcomes is weighed by its score: 1, from 50 on 1.5, from 75 on 2.
Evidence(batch, d, is) ==
    LET from(score) == Cardinality({i \in is : batch[i].score[d] >= score})
    IN  100 * Cardinality(is) + 50 * from(50) + 50 * from(75)

\* _apply_decay(): what exceeds the prior loses a twentieth.
Decayed(p, prior) == prior + (95 * (p - prior)) \div 100

\* update_weights().  Nothing goes under its prior, so the floor of 0.1 never acts.
Update(batch) ==
    /\ updates < MaxUpdates
    /\ posteriors' = [d \in Dims |->
          LET agreeing == Agreeing(batch, d)
          IN  [alpha |-> Decayed(posteriors[d].alpha, Priors[d].alpha)
                         + Evidence(batch, d, agreeing),
               beta  |-> Decayed(posteriors[d].beta, Priors[d].beta)
                         + Evidence(batch, d, DOMAIN batch \ agreeing)]]
    /\ updates' = updates + 1

-----------------------------------------------------------------------------
(* The score                                                               *)

Strong(scores) == {d \in Dims : scores[d] >= 6000}

\* (mutant) The bonus is given to exactly three.
BonusOfThree(scores) == If(Cardinality(Strong(scores)) = 3, 5 * Point)

Bonus(scores) ==
    LET n == Cardinality(Strong(scores)) IN If(n >= 3, (n - 2) * 5 * Point)

\* A score cut off at 0 and 100.
ClampedScore(s) == IF s < 0 THEN 0 ELSE AtMostOf(s, 10000)

\* calculate_score() before it rounds.
Resonance(scores, weights) ==
    LET shares == [d \in Dims |-> ClampedScore(scores[d]) * weights[d]]
    IN  AtMostOf(100 * Point, Total(shares) \div 800 + Bonus(scores))

\* (mutant) A total on a threshold stays below it.
AlertLevelAbove(total) ==
    IF total <= 2500 THEN "NONE" ELSE Level(100 * total - 1)

\* _compute_alert_level(), of the rounded total.
AlertLevel(total) == IF total < 2500 THEN "NONE" ELSE Level(100 * total)

-----------------------------------------------------------------------------
(* Actions                                                                 *)

\* Phase 2: any source may be missing, and any analyzer fall back to its default.
Analyse ==
    /\ phase = "idle" /\ report = None
    /\ \E gex \in Sampled["gex"] \cup {None}, vix \in Sampled["vix"] \cup {None},
          crypto \in Sampled["crypto"] \cup {None},
          darkpool \in Sampled["darkpool"] \cup {None} :
          results' = [gex      |-> Analyze("gex", gex),
                      vix      |-> Analyze("vix", vix),
                      crypto   |-> Analyze("crypto", crypto),
                      darkpool |-> Analyze("darkpool", darkpool)]
    /\ phase' = "analysed"
    /\ UNCHANGED <<scoring, posteriors, updates, report>>

\* What phase 2 handed over, by dimension.
DimScores == [d \in Dims |-> results[d].score]

\* Phase 3, with the weights there are: an update comes after the score.
Score ==
    /\ phase = "analysed"
    /\ LET raw == Resonance(DimScores, CurrentWeights)
       IN  scoring' = [total |-> Rounded(raw),
                       level |-> Level(raw),
                       alert |-> AlertLevel(Rounded(raw))]
    /\ phase' = "scored"
    /\ UNCHANGED <<results, posteriors, updates, report>>

\* The cycle learns from the latest outcome, when there is one, and ends.
CycleLearns ==
    /\ phase = "scored"
    /\ \/ \E batch \in {b \in Batches : Len(b) = 1} : Update(batch)
       \/ UNCHANGED <<posteriors, updates>>
    /\ phase' = "idle"
    /\ results' = NoResults
    /\ scoring' = None
    /\ UNCHANGED report

\* The daily job, at any point of a cycle.
JobLearns ==
    /\ report = None
    /\ \E batch \in Batches : Update(batch)
    /\ UNCHANGED <<phase, results, scoring, report>>

\* reset_weights().
Reset ==
    /\ updates > 0
    /\ posteriors' = Priors
    /\ updates' = 0
    /\ UNCHANGED <<phase, results, scoring, report>>

\* An exported analyzer is called by itself.  It has no state: calls are made
\* only between cycles, before anything is learnt.
Call(a) ==
    /\ report = None /\ updates = 0 /\ phase = "idle"
    /\ \E d \in Payloads[a] \cup {None} :
          report' = [analyzer |-> a, payload |-> d, result |-> Analyze(a, d)]
    /\ UNCHANGED <<phase, results, scoring, posteriors, updates>>

Return ==
    /\ report # None
    /\ report' = None
    /\ UNCHANGED <<phase, results, scoring, posteriors, updates>>

Next ==
    \/ Analyse \/ Score \/ CycleLearns \/ JobLearns \/ Reset
    \/ \E a \in Exported : Call(a)
    \/ Return

Spec == Init /\ [][Next]_vars

-----------------------------------------------------------------------------
(* Properties                                                              *)

Levels == {"LEVEL_0", "LEVEL_1", "LEVEL_2", "LEVEL_3"}
Scores == 0..10000
Results == [score : Scores, level : Levels]

\* Scores stay within 0..100, and a posterior never under its prior.
TypeOK ==
    /\ phase \in {"idle", "analysed", "scored"}
    /\ results \in [Dims -> Results]
    /\ scoring # None => scoring \in [total : Scores, level : Levels,
                                      alert : (Levels \ {"LEVEL_0"}) \cup {"NONE"}]
    /\ updates \in 0..MaxUpdates
    /\ \A d \in Dims : /\ posteriors[d].alpha >= Priors[d].alpha
                       /\ posteriors[d].beta >= Priors[d].beta
    /\ report # None => report.analyzer \in Exported /\ report.result \in Results

\* A level is that of the score beside it, save for a score that rounding alone
\* has put on a threshold: its level, taken before, is the one below.
LiftedByRounding(score, level) ==
    score \in {2500, 5000, 7500} /\ level = Level(100 * score - 1)

Agree(score, level) == level = Level(100 * score) \/ LiftedByRounding(score, level)

\* The analyzers, the scorer and the pipeline each derive levels on their own,
\* from unrounded and from rounded scores (pipeline.py:357).  The alert differs
\* from the level published with it when rounding has lifted the total onto a
\* threshold, and never otherwise.
LevelsAgree ==
    /\ \A d \in Dims : Agree(results[d].score, results[d].level)
    /\ report # None => Agree(report.result.score, report.result.level)
    /\ scoring # None =>
          /\ Agree(scoring.total, scoring.level)
          /\ \/ scoring.alert = IF scoring.level = "LEVEL_0" THEN "NONE" ELSE scoring.level
             \/ LiftedByRounding(scoring.total, scoring.level)

Probes == {0, 5999, 6000, 10000} \cup {DimScores[d] : d \in Dims}
TotalOf(scores) == Rounded(Resonance(scores, CurrentWeights))

\* Raising one dimension, across the threshold of the bonus too, never lowers
\* the total; in particular a source that is missing, which counts as 0, never
\* raises it.  Whatever weights were learnt (scoring.py:263).
MoreNeverLowers ==
    phase = "analysed" =>
      \A d \in Dims, s \in Probes :
         /\ s >= DimScores[d] => TotalOf([DimScores EXCEPT ![d] = s]) >= TotalOf(DimScores)
         /\ s <= DimScores[d] => TotalOf([DimScores EXCEPT ![d] = s]) <= TotalOf(DimScores)

\* What was learnt is what is scored with: the rounded weights always pass the
\* check of their sum, which would drop them without a word (scoring.py:145).
\* And a dimension with a higher posterior mean never weighs less, through the
\* bounds, the normalisation and the rounding.
WeightsAreSound ==
    /\ updates > 0 => CurrentWeights = LearntWeights
    /\ \A d, e \in Dims :
          posteriors[d].alpha * posteriors[e].beta >= posteriors[e].alpha * posteriors[d].beta
             => LearntWeights[d] >= LearntWeights[e]

\* "At least 5% of total", "At most 60% of total" (bayesian_weights.py:38), of
\* the weights that are used, RAW_MAX being the total.
WeightsWithinBounds ==
    \A d \in Dims : RawMax <= 20 * LearntWeights[d] /\ 5 * LearntWeights[d] <= 3 * RawMax

\* Of what the VIX fetcher can deliver at one spot price, a deep contango scores
\* less than one that has just been entered, and is no LEVEL_2: calm is not a
\* signal (vix_analyzer.py:56).
CalmScoresLow ==
    \A d \in (IF report # None /\ report.analyzer = "vix" THEN {report.payload} ELSE {}) \ {None} :
       d.state = "contango" /\ Known(d.ratio) /\ d.ratio > 1000 =>
          /\ report.result.level \in {"LEVEL_0", "LEVEL_1"}
          /\ \A vx3 \in (d.spot + d.spot \div 50 + 1)..(d.spot + d.spot \div 20) :
                Analyze("vix", VixPayload(d.spot, vx3)).score > report.result.score
=============================================================================
