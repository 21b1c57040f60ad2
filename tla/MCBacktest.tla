----------------------------- MODULE MCBacktest -----------------------------
(* Instances of Backtest for TLC.  Two ticks a day, so that a signal falls on *)
(* a midnight or between two.                                                 *)
EXTENDS Backtest

Times == {1, 4, 5, 9, 15, 21}

\* All tables of up to five alerts at these times; at most one of them is LEVEL_1
\* and at most one is aware of its zone.
MCAlerts ==
    LET table(T, weak, aware) ==
            LET times == SetToSortSeq(T, <)
            IN  [k \in DOMAIN times |-> [time |-> times[k],
                                         level |-> IF times[k] \in weak THEN 1 ELSE 2 + (k % 2),
                                         aware |-> times[k] \in aware]]
    IN  {table(T, weak, aware) : T \in {T \in SUBSET Times : Cardinality(T) <= 5},
                                 weak \in {{}} \cup {{t} : t \in Times},
                                 aware \in {{}, {4}, {9}, Times}}

\* No price, unknown prices, one price, prices with a gap as long as the holding
\* period, and prices that fall below nothing.
MCPrices == {<<>>,
             [t \in {2, 4} |-> None],
             [t \in {8} |-> 3],
             [t \in {0, 2, 4, 22} |-> IF t = 0 THEN 3 ELSE IF t = 2 THEN None ELSE IF t = 4 THEN 2 ELSE 5],
             [t \in {2, 4, 6, 10, 12, 14, 18, 22} |->
                 IF t \in {6, 14} THEN 4 ELSE IF t \in {10, 22} THEN -2 ELSE 1]}

MCRanges == {[start |-> None, end |-> None], [start |-> 2, end |-> 10]}
=============================================================================
