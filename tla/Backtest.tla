------------------------------ MODULE Backtest ------------------------------
(***************************************************************************)
(* The backtest engine (backend/backtest_engine): one run_backtest, from   *)
(* the rows it loads to the result it returns.  The alerts of the database *)
(* are replayed against the "prices" of gex_history, then again fold by    *)
(* fold, then again for every tested weight.                               *)
(*                                                                         *)
(* Time is in ticks, Day of them to a day; prices are of midnights.        *)
(* Ratios that need a square root (Sharpe, Sortino, information) and the   *)
(* texts shaped for charts are left out.                                   *)
(***************************************************************************)
EXTENDS Integers, Sequences, FiniteSets, SequencesExt

CONSTANTS None,
          Alerts,       \* the signal_alerts tables a run may find: sequences by time
          Prices,       \* the gex_history tables: functions from time to price or None
          Ranges,       \* the [start, end] of a configuration, days or None
          Capital,      \* initial_capital
          Window, Step, \* walk_forward_window and walk_forward_step
          Day, Holding, \* ticks of a day and of the holding period
          Dims          \* the dimensions that carry a weight

ASSUME BacktestAssumption == /\ Capital \in Nat \ {0}
                             /\ Window \in Nat \ {0}
                             /\ Step \in Nat \ {0}
                             /\ Day \in Nat \ {0}
                             /\ Holding \in Nat
                             /\ Alerts \subseteq Seq([time: Nat, level: 0..3, aware: BOOLEAN])
                             /\ \A a \in Alerts : \A i, j \in DOMAIN a :
                                   i < j => a[i].time < a[j].time
                             /\ \A p \in Prices : /\ DOMAIN p \subseteq Nat
                                                 /\ \A t \in DOMAIN p : p[t] \in Int \cup {None}

VARIABLES
    phase,       \* "idle", "loaded", "traded", "folding", "varying" or "done"
    signals,     \* signals_df, by trigger_time
    prices,      \* prices_df
    trades,      \* what _generate_trades made of all signals
    equity,      \* equity_curve
    metrics,     \* the PerformanceMetrics of the run, or None
    next,        \* test_start_idx of the walk-forward loop, from 0
    fold,        \* its fold counter
    folds,       \* walk_forward: one record for a fold that traded
    sensitivity  \* for each dimension done, what its five weights returned

vars == <<phase, signals, prices, trades, equity, metrics, next, fold, folds, sensitivity>>

Init ==
    /\ phase = "idle"
    /\ signals = <<>>
    /\ prices = <<>>
    /\ trades = <<>>
    /\ equity = <<>>
    /\ metrics = None
    /\ next = 0
    /\ fold = 0
    /\ folds = <<>>
    /\ sensitivity = [d \in {} |-> 0]

-----------------------------------------------------------------------------
(* Loops over a sequence                                                   *)

\* What has been appended when a loop over s that skips all but the positions is
\* has come to each position.
KeptUpTo(s, is) ==
    LET kept[n \in 0..Len(s)] ==
            IF n = 0 THEN <<>>
            ELSE IF n \in is THEN Append(kept[n - 1], s[n]) ELSE kept[n - 1]
    IN  kept

Kept(s, is) == KeptUpTo(s, is)[Len(s)]

\* What has been added up when a loop over the numbers v has come to each position.
Running(v) ==
    LET sum[n \in 0..Len(v)] == IF n = 0 THEN 0 ELSE sum[n - 1] + v[n]
    IN  sum

Sum(v) == Running(v)[Len(v)]

-----------------------------------------------------------------------------
(* Trades                                                                  *)

\* dropna: the times a price is known of.
Points(p) == {t \in DOMAIN p : p[t] # None}

Distance(a, b) == IF a < b THEN b - a ELSE a - b

\* get_indexer(method="nearest"), which prefers the later of two as near.
Nearest(p, t) ==
    CHOOSE d \in Points(p) : \A e \in Points(p) \ {d} :
        \/ Distance(d, t) < Distance(e, t)
        \/ Distance(d, t) = Distance(e, t) /\ d > e

Future(p, t) == {d \in Points(p) : d >= t}

\* (mutant) The holding period looked up in all prices.
ExitOfAll(p, t) ==
    LET held == {d \in Points(p) : d <= t + Holding}
    IN  IF held # {} THEN Max(held) ELSE Min(Points(p))

\* The last price of the holding period, or else the first one after it.
Exit(p, t) ==
    LET held == {d \in Future(p, t) : d <= t + Holding}
    IN  IF held # {} THEN Max(held) ELSE Min(Future(p, t))

\* A trigger time with a zone can be compared with no price: both look-ups
\* swallow the error and the signal is skipped.
Tradable(s, p) ==
    /\ s.level >= 2
    /\ ~s.aware
    /\ Future(p, s.time) # {}
    /\ p[Nearest(p, s.time)] > 0

\* (mutant) Without the least of one day.
HoldingDaysFromNone(from, to) == (to - from) \div Day

HoldingDays(from, to) == Max({1, (to - from) \div Day})

Trade(s, p) ==
    LET entry == Nearest(p, s.time)
        exit == Exit(p, s.time)
    IN  [entry_time |-> s.time, entry |-> entry, exit |-> exit,
         pnl |-> p[exit] - p[entry],
         holding_days |-> HoldingDays(s.time, exit)]

\* The weights are a parameter of the code that nothing there reads.
GenerateTrades(ss, p) ==
    LET taken == Kept(ss, {i \in DOMAIN ss : Tradable(ss[i], p)})
    IN  [k \in DOMAIN taken |-> Trade(taken[k], p)]

-----------------------------------------------------------------------------
(* Equity and metrics                                                      *)

Pnls(tr, ks) == [k \in DOMAIN tr |-> IF k \in ks THEN tr[k].pnl ELSE 0]
Pnl(tr, ks) == Sum(Pnls(tr, ks))

EquityCurve(tr) ==
    [k \in 1..(Len(tr) + 1) |-> Capital + Running(Pnls(tr, DOMAIN tr))[k - 1]]

Peak(eq, k) == Max({eq[j] : j \in 1..k})

\* _max_drawdown_duration: the longest stretch under the running maximum.
DrawdownDuration(eq) ==
    LET n == Len(eq)
        under == {k \in 1..n : eq[k] < Peak(eq, k)}
        stretches == {ab \in under \X under : ab[1] <= ab[2] /\ ab[1]..ab[2] \subseteq under}
    IN  Max({0} \cup {ab[2] - ab[1] + 1 : ab \in stretches})

\* The sign of annualized_return_pct: (last / first) ** (252 / n) - 1, which of
\* a negative base is a number for a whole exponent only.
Annualised(last, n) ==
    LET size == IF last < 0 THEN -last ELSE last
        sign(x) == IF x > Capital THEN "gain" ELSE IF x < Capital THEN "loss" ELSE "flat"
    IN  IF last >= 0 THEN sign(last)
        ELSE IF 252 % n # 0 THEN "nan"
        ELSE IF (252 \div n) % 2 = 0 THEN sign(size) ELSE "loss"

\* (mutant) A trade that breaks even is no trade.
LosingOnly(tr) == {k \in DOMAIN tr : tr[k].pnl < 0}

Winning(tr) == {k \in DOMAIN tr : tr[k].pnl > 0}
Losing(tr) == {k \in DOMAIN tr : tr[k].pnl <= 0}

CalculateMetrics(tr, eq) ==
    [total |-> Len(tr),
     winning |-> Cardinality(Winning(tr)),
     losing |-> Cardinality(Losing(tr)),
     gross_profit |-> Pnl(tr, Winning(tr)),
     gross_loss |-> IF Losing(tr) = {} THEN 1 ELSE -Pnl(tr, Losing(tr)),
     duration |-> DrawdownDuration(eq),
     annualised |-> Annualised(eq[Len(eq)], Len(tr))]

-----------------------------------------------------------------------------
(* run_backtest                                                            *)

\* Both ends are days, and texts are compared: a time of the end day is a longer
\* text than the day, so that day falls out.
InRange(s, r) ==
    /\ r.start # None => s.time >= r.start * Day
    /\ r.end # None => s.time < r.end * Day

\* _load_historical_data.  No signals: no prices either; a failed query: neither.
Load ==
    /\ phase = "idle"
    /\ phase' = "loaded"
    /\ \/ \E a \in Alerts, p \in Prices, r \in Ranges :
            /\ signals' = Kept(a, {i \in DOMAIN a : InRange(a[i], r)})
            /\ prices' = IF signals' = <<>> THEN <<>> ELSE p
       \/ signals' = <<>> /\ prices' = <<>>
    /\ UNCHANGED <<trades, equity, metrics, next, fold, folds, sensitivity>>

\* _empty_result.
EmptyResult ==
    /\ phase' = "done"
    /\ equity' = <<Capital>>
    /\ UNCHANGED <<signals, prices, trades, metrics, next, fold, folds, sensitivity>>

NothingLoaded ==
    /\ phase = "loaded"
    /\ signals = <<>> \/ DOMAIN prices = {}
    /\ EmptyResult

NothingTraded ==
    /\ phase = "loaded"
    /\ signals # <<>> /\ DOMAIN prices # {}
    /\ GenerateTrades(signals, prices) = <<>>
    /\ EmptyResult

Replay ==
    /\ phase = "loaded"
    /\ signals # <<>> /\ DOMAIN prices # {}
    /\ trades' = GenerateTrades(signals, prices)
    /\ trades' # <<>>
    /\ equity' = EquityCurve(trades')
    /\ metrics' = CalculateMetrics(trades', equity')
    /\ phase' = "traded"
    /\ UNCHANGED <<signals, prices, next, fold, folds, sensitivity>>

\* run_walk_forward up to its loop.
StartFolding ==
    /\ phase = "traded"
    /\ IF Len(signals) < Window + Step
       THEN phase' = "varying" /\ UNCHANGED next
       ELSE phase' = "folding" /\ next' = Window
    /\ UNCHANGED <<signals, prices, trades, equity, metrics, fold, folds, sensitivity>>

\* (mutant) A fold that begins at the last signal of the one before.
TestStartOverlapping(t) == IF t > Window THEN t - 1 ELSE t

\* The test signals of the fold are (TestStart(t), TestEnd(t)], counted from 1.
TestStart(t) == t
TestEnd(t) == IF t + Step < Len(signals) THEN t + Step ELSE Len(signals)
TrainStart(t) == IF t > Window THEN t - Window ELSE 0

\* One iteration: train is read for its dates alone, and a fold without trades
\* leaves no record but takes a number.
Fold ==
    LET test == SubSeq(signals, TestStart(next) + 1, TestEnd(next))
        tested == GenerateTrades(test, prices)
        curve == EquityCurve(tested)
    IN  /\ phase = "folding"
        /\ next < Len(signals)
        /\ folds' = IF tested = <<>> THEN folds
                    ELSE Append(folds,
                           [fold_index |-> fold,
                            train_start |-> signals[TrainStart(next) + 1].time,
                            train_end |-> signals[TestStart(next)].time,
                            test_start |-> signals[TestStart(next) + 1].time,
                            test_end |-> signals[TestEnd(next)].time,
                            test_trades |-> Len(tested),
                            test_pnl |-> curve[Len(curve)] - Capital])
        /\ fold' = fold + 1
        /\ next' = next + Step
        /\ UNCHANGED <<phase, signals, prices, trades, equity, metrics, sensitivity>>

EndFolding ==
    /\ phase = "folding"
    /\ next >= Len(signals)
    /\ phase' = "varying"
    /\ UNCHANGED <<signals, prices, trades, equity, metrics, next, fold, folds, sensitivity>>

\* run_sensitivity for one dimension: five multipliers of its weight, each with
\* the trades of all signals.  The weight reaches none of them, so argmax meets
\* five equal ratios and takes the first.
Vary(d) ==
    LET curve == EquityCurve(GenerateTrades(signals, prices))
        varied == [returns |-> [mult \in 1..5 |-> curve[Len(curve)]], optimal |-> 1]
    IN  /\ phase = "varying"
        /\ d \in Dims \ DOMAIN sensitivity
        /\ sensitivity' = [e \in DOMAIN sensitivity \cup {d} |->
                              IF e = d THEN varied ELSE sensitivity[e]]
        /\ UNCHANGED <<phase, signals, prices, trades, equity, metrics, next, fold, folds>>

EndVarying ==
    /\ phase = "varying"
    /\ DOMAIN sensitivity = Dims
    /\ phase' = "done"
    /\ UNCHANGED <<signals, prices, trades, equity, metrics, next, fold, folds, sensitivity>>

\* The result is the caller's, and the engine may be run again.
Return ==
    /\ phase = "done"
    /\ phase' = "idle"
    /\ signals' = <<>> /\ prices' = <<>> /\ trades' = <<>> /\ equity' = <<>>
    /\ metrics' = None /\ next' = 0 /\ fold' = 0 /\ folds' = <<>>
    /\ sensitivity' = [d \in {} |-> 0]

Next ==
    \/ Load \/ NothingLoaded \/ NothingTraded \/ Replay
    \/ StartFolding \/ Fold \/ EndFolding
    \/ \E d \in Dims : Vary(d)
    \/ EndVarying \/ Return

Spec == Init /\ [][Next]_vars

-----------------------------------------------------------------------------
(* Properties                                                              *)

\* Types; a fold is counted from where the walk began.
TypeOK ==
    /\ phase \in {"idle", "loaded", "traded", "folding", "varying", "done"}
    /\ \A k \in DOMAIN trades :
          /\ {trades[k].entry, trades[k].exit} \subseteq Points(prices)
          /\ trades[k].pnl \in Int
          /\ trades[k].holding_days \in Nat \ {0}
    /\ equity # <<>> => equity[1] = Capital
    /\ fold \in Nat /\ next \in Nat
    /\ fold > 0 => next = Window + fold * Step
    /\ DOMAIN sensitivity \subseteq Dims

\* No trade is closed at a price from before the one it was opened at, although
\* it may be opened at a price from after its signal (engine.py:295), and it is
\* closed within the holding period unless the history has no price there.
TradesRunForward ==
    \A k \in DOMAIN trades :
       LET t == trades[k]
       IN  /\ t.entry <= t.exit /\ t.entry_time <= t.exit
           /\ t.exit > t.entry_time + Holding =>
                 \A d \in Points(prices) : ~ d \in t.entry_time..(t.entry_time + Holding)

\* A fold tests from the position its number says, right behind its training.
FoldsPlaced ==
    \A k \in DOMAIN folds :
       LET first == Window + folds[k].fold_index * Step
       IN  /\ first < Len(signals)
           /\ folds[k].train_end = signals[first].time
           /\ folds[k].test_start = signals[first + 1].time
           /\ k > 1 => folds[k - 1].fold_index < folds[k].fold_index

FoldsInOrder ==
    \A k \in DOMAIN folds :
       /\ folds[k].train_start <= folds[k].train_end
       /\ folds[k].train_end < folds[k].test_start
       /\ folds[k].test_start <= folds[k].test_end
       /\ \A j \in 1..(k - 1) : folds[j].test_end < folds[k].test_start

\* No signal is tested by two folds or forgotten between them: they come one
\* after the other, each right behind its training window, and once the walk is over
\* their trades and profits are those of the whole run behind the first window
\* (walk_forward.py:65).
FoldsAddUp ==
    /\ FoldsPlaced
    /\ FoldsInOrder
    /\ phase = "varying" /\ Len(signals) >= Window + Step =>
          LET behind == {k \in DOMAIN trades : trades[k].entry_time >= signals[Window + 1].time}
          IN  /\ Sum([k \in DOMAIN folds |-> folds[k].test_trades]) = Cardinality(behind)
              /\ Sum([k \in DOMAIN folds |-> folds[k].test_pnl]) = Pnl(trades, behind)

\* The metrics, computed from the trades, agree with the equity curve: every
\* trade is a win or a loss, one that breaks even a loss; profits and losses
\* make up the difference of the curve's ends, where the gross loss of 1 that
\* stands for none is none; and a drawdown needs a loss (metrics.py:95).  The
\* annualised return, from the total raised to 252 by the number of trades, has
\* the sign of the total unless the equity has ended below zero.  What is
\* reported then, "nan" or the sign of a gain for a loss, is left open.
BooksBalance ==
    metrics # None =>
       LET last == equity[Len(equity)]
       IN  /\ metrics.total = metrics.winning + metrics.losing
           /\ last - Capital = metrics.gross_profit
                              - (IF metrics.losing = 0 THEN 0 ELSE metrics.gross_loss)
           /\ metrics.duration > 0 => metrics.losing > 0
           /\ metrics.losing = 0 => metrics.duration = 0 /\ last > Capital
           /\ last >= 0 => metrics.annualised =
                 (IF last > Capital THEN "gain" ELSE IF last < Capital THEN "loss" ELSE "flat")

\* "Walk-forward train window (days)" (engine.py:41): the signals that a fold
\* trains on lie within as many days.
TrainingSpansDays ==
    \A k \in DOMAIN folds : folds[k].train_end - folds[k].train_start <= Window * Day
=============================================================================
