----------------------------- MODULE MCScoring -----------------------------
(* Instance of Scoring for TLC.  Each grid has values on both sides of the  *)
(* thresholds of its analyzer, and missing fields.                          *)
EXTENDS Scoring

Snapshot(net, gamma, zero, spot, callWall, putWall) ==
    [net |-> net, gamma |-> gamma, zero |-> zero, spot |-> spot, callWall |-> callWall,
     putWall |-> putWall, flipLow |-> None, flipHigh |-> None]

Option(strike, call, value) == [strike |-> strike, call |-> call, value |-> value, thin |-> FALSE]
Thin(strike) == [strike |-> strike, call |-> TRUE, value |-> 900, thin |-> TRUE]

\* 3749 of 3750 is 37.49 points: a score of 49.99.
GexGrid ==
    {<<>>}
    \cup {<<Snapshot(net, 3750, 5005, spot, 5000, put)>> :
             net \in {-10, 0, 1500, 3749, 3750}, spot \in {4000, 4800, 5000, 5010},
             put \in {None, 4900}}
    \cup {<<[Snapshot(1500, gamma, None, 5000, wall, 5000)
             EXCEPT !.flipLow = 5000, !.flipHigh = high]>> :
             gamma \in {0, 1500}, wall \in {0, None, 5100}, high \in {None, 4999, 5000}}
    \cup {<<Snapshot(3750, 3750, 5005, 5000, 5000, 5000), GexSnapshot(options, 5000)>> :
             options \in {<<>>, <<Thin(5000)>>,
                          <<Option(5000, TRUE, 800), Option(4900, FALSE, 300), Thin(4950)>>,
                          <<Option(5100, TRUE, 50), Option(5005, FALSE, 50), Option(4000, TRUE, 1)>>}}

VixGrid == {VixPayload(spot, vx3) : spot \in {1299, 1300, 1799, 1800, 3500, 3501},
                                    vx3 \in {1300, 1350, 1430, 1440, 1900, 2050, 3550, 3700, 4200}}

CryptoGrid ==
    {CryptoPayload(funding, elr, btc, eth) :
        funding \in {-11, -10, -1, 0, 10, 11, 51}, elr \in {None, 14, 15},
        btc \in {None, -80, -79, 39, 40}, eth \in {None, -39, 80}}
    \cup {[CryptoPayload(0, None, None, None)
           EXCEPT !.oiCrash = crash, !.oiChange = change, !.liquidation = TRUE] :
              crash \in BOOLEAN, change \in {-100, -101, -300, -400}}

DarkpoolGrid ==
    [dix : {None, 40, 41, 45, 46, 50, 51}, cross : {"none", "bullish_cross"},
     ema5 : {None, -5}, ema20 : {-3, 0}, reversal : BOOLEAN,
     aggregated : BOOLEAN, ma5 : {FALSE}, divergence : BOOLEAN]
    \cup [dix : {None, 51}, cross : {"bullish_cross"}, ema5 : {1}, ema20 : {-3},
          reversal : {FALSE}, aggregated : {TRUE}, ma5 : {TRUE}, divergence : {TRUE}]

PutCallGrid == [ratio : {None, 49, 50, 100, 101, 121, 151}, average : {None, 0, 77, 78, 90},
                percentile : {None, 75, 76, 91}]

MacroGrid == [inverted : BOOLEAN, y10 : {None, 400}, y2 : {400, 409, 410}, pmi : {469, 470, 500, 551},
              unemployment : {None, 50, 51, 61}, cpi : {9, 10, 51}, dxy : {94, 110, 111},
              events : {<<>>, <<TRUE, FALSE, TRUE, TRUE, TRUE, TRUE>>}]

FlowGrid == [net : {None, -11, -10, 0, 1}, ma5 : {None, 1}, ma20 : {None, 0, 1}, volume : {None, 15, 16}]

Sector(strength, defensive, falling) ==
    [strength |-> strength, defensive |-> defensive, falling |-> falling]

SectorGrid == [rotation : {"risk_on", "risk_off", "neutral"}, breadth : {None, 1, 2, 5, 6, 8},
               sectors : {<<>>,
                          <<Sector(1, FALSE, TRUE), Sector(1, FALSE, TRUE), Sector(1, FALSE, TRUE),
                            Sector(1, TRUE, TRUE), Sector(0, FALSE, FALSE)>>,
                          <<Sector(1, FALSE, TRUE), Sector(2, TRUE, TRUE)>>}]

SentimentGrid == [fearGreed : {None, 19, 20, 35, 50, 80, 81}, ratio : {None, 10, 11, 13},
                  vix : {None, 25, 26, 31}, breadth : {None, 2, 3}]

VixTermGrid == [spot : {None, 1500, 2201}, vx1 : {None, 0, 2000}, vx2 : {None, 1700, 1960, 2000, 2100},
                ratio : {None, -1001, 200, 201, 1500}, rolling : BOOLEAN,
                history : {<<>>, <<0, 0>>, <<0, 3000>>}]

MCPayloads ==
    [gex |-> GexGrid, vix |-> VixGrid, crypto |-> CryptoGrid, darkpool |-> DarkpoolGrid,
     put_call |-> PutCallGrid, macro |-> MacroGrid, flow |-> FlowGrid, sector |-> SectorGrid,
     sentiment |-> SentimentGrid, vix_term |-> VixTermGrid]

Dark(dix, cross) == [dix |-> dix, cross |-> cross, ema5 |-> 1, ema20 |-> -1, reversal |-> FALSE,
                     aggregated |-> FALSE, ma5 |-> FALSE, divergence |-> FALSE]

\* With 43.99, 60, 50 and 50 the default weights give 49.996875.
MCSampled ==
    [gex |-> {<<Snapshot(3750, 3750, 5005, 5000, 5000, 5000)>>,
              <<Snapshot(3149, 3750, None, 5000, 5000, 4000)>>},
     vix |-> {VixPayload(2000, 2080), VixPayload(1200, 1400), VixPayload(4000, 3950)},
     crypto |-> {CryptoPayload(11, None, 0, 0), CryptoPayload(-11, 12, -90, 0)},
     darkpool |-> {Dark(51, "none"), Dark(51, "bullish_cross"), Dark(42, "none")}]

Outcome(gex, other, ret) ==
    [score |-> [gex |-> gex, vix |-> other, crypto |-> other, darkpool |-> other], ret |-> ret]

\* One outcome, two that differ, and the twenty of a full evaluation in which
\* gex is always right and the others always wrong.
MCBatches ==
    {<<Outcome(80, 60, 1)>>,
     <<Outcome(40, 80, -1), Outcome(80, 20, 2)>>,
     [i \in 1..20 |-> IF i % 2 = 0 THEN Outcome(90, 80, 1) ELSE Outcome(10, 90, -1)]}
=============================================================================
