----------------------------- MODULE Analyzers -----------------------------
(***************************************************************************)
(* The analyzers of backend/quant/: functions from what a source delivered *)
(* to a score and a level.  gex, vix, crypto and darkpool are registered   *)
(* with the pipeline (pipeline_adapter.py); the other six are exported by  *)
(* quant/__init__.py and called by nobody at run time.                     *)
(*                                                                         *)
(* A payload is a record of integers, in the unit its comment names; None  *)
(* stands for a field that is missing or null.  A raw score is in 1/10000  *)
(* of a point, so that the levels are those of the unrounded score, and    *)
(* the score reported is in 1/100, as round(x, 2) leaves it.  The names of *)
(* the signals and the labels among the details are left out.              *)
(***************************************************************************)
EXTENDS Integers, Sequences, FiniteSets, FiniteSetsExt

CONSTANT None

Maybe(S) == S \cup {None}
Known(x) == x # None
Given(x) == x # None /\ x # 0     \* Python's truth of a number
If(c, n) == IF c THEN n ELSE 0
AtMostOf(x, y) == IF x < y THEN x ELSE y
Distance(x, y) == IF x < y THEN y - x ELSE x - y

\* Chains of comparisons.  bands is a set of <<threshold, points>>: the points
\* of the band that x is in, 0 when it is in none or missing.
Above(x, bands) ==
    LET hit == {b \in bands : Known(x) /\ x > b[1]}
    IN  IF hit = {} THEN 0 ELSE (CHOOSE b \in hit : \A c \in hit : c[1] <= b[1])[2]

Below(x, bands) ==
    LET hit == {b \in bands : Known(x) /\ x < b[1]}
    IN  IF hit = {} THEN 0 ELSE (CHOOSE b \in hit : \A c \in hit : b[1] <= c[1])[2]

Point == 10000

\* (mutant) No upper end.
ClampBelow(raw) == IF raw < 0 THEN 0 ELSE raw

Clamp(raw) == IF raw < 0 THEN 0 ELSE AtMostOf(raw, 100 * Point)

Level(raw) ==
    IF raw >= 75 * Point THEN "LEVEL_3"
    ELSE IF raw >= 50 * Point THEN "LEVEL_2"
    ELSE IF raw >= 25 * Point THEN "LEVEL_1" ELSE "LEVEL_0"

Rounded(raw) == (raw + 50) \div 100

Verdict(raw) == [score |-> Rounded(Clamp(raw)), level |-> Level(Clamp(raw))]

\* No data, or data the analyzer raises on.
DefaultResult == [score |-> 0, level |-> "LEVEL_0"]

-----------------------------------------------------------------------------
(* gex: what the fetcher makes of one symbol's options, and its analysis   *)

GexSnapshots == [net : Maybe(Int), gamma : Maybe(Int), zero : Maybe(Int), spot : Maybe(Int),
                 callWall : Maybe(Int), putWall : Maybe(Int),
                 flipLow : Maybe(Int), flipHigh : Maybe(Int)]

\* options: [strike, call, value, thin], value the gamma exposure and thin
\* when the open interest is below MIN_OI_FILTER.
Liquid(options) == {i \in DOMAIN options : ~options[i].thin}

\* The strike of the first largest exposure among is, spot when none exceeds 0.
Wall(options, is, spot) ==
    LET top == {i \in is : /\ options[i].value > 0
                           /\ \A j \in is : options[j].value <= options[i].value}
    IN  IF top = {} THEN spot
        ELSE options[CHOOSE i \in top : \A j \in top : i <= j].strike

\* By strike, in the order of the options within one strike (sorted() is stable).
StrikesBefore(options, i, j) ==
    \/ options[i].strike < options[j].strike
    \/ options[i].strike = options[j].strike /\ i < j

\* _find_zero_gamma_level(): of the options within 5% of spot, the one of the
\* least exposure by itself; nothing is accumulated.
ZeroGamma(options, spot) ==
    LET near == {i \in Liquid(options) : 20 * Distance(options[i].strike, spot) < spot}
        least == {i \in near : \A j \in near : options[i].value <= options[j].value}
    IN  IF least = {} THEN spot
        ELSE options[CHOOSE i \in least :
                        \A j \in least : i = j \/ StrikesBefore(options, i, j)].strike

Exposure(options, is) ==
    LET value(i) == options[i].value IN MapThenSumSet(value, is)

\* A payload of gex is the sequence of the snapshots of the symbols that could
\* be fetched.  The fetcher knows no flip zone.
GexSnapshot(options, spot) ==
    LET calls == {i \in Liquid(options) : options[i].call}
        puts  == Liquid(options) \ calls
    IN  [net      |-> Exposure(options, calls) - Exposure(options, puts),
         gamma    |-> Exposure(options, calls) + Exposure(options, puts),
         zero     |-> ZeroGamma(options, spot),
         spot     |-> spot,
         callWall |-> Wall(options, calls, spot),
         putWall  |-> Wall(options, puts, spot),
         flipLow  |-> None,
         flipHigh |-> None]

NetGexPoints(d) ==
    IF Known(d.net) /\ d.net > 0
    THEN IF Known(d.gamma) /\ d.gamma > 0
         THEN (375000 * AtMostOf(d.net, d.gamma)) \div d.gamma
         ELSE 187500
    ELSE 0

\* 12.5 points at the zero gamma level, 0 from 10% below it.
ZeroGammaPoints(d) ==
    IF Given(d.zero) /\ Given(d.spot) /\ d.spot < d.zero
    THEN LET left == d.spot - 10 * (d.zero - d.spot)
         IN  If(left > 0, (125000 * left) \div d.spot)
    ELSE 0

\* 12.5 points at the call wall, 0 from 5% off.
CallWallPoints(d) ==
    IF Given(d.callWall) /\ Given(d.spot) /\ d.spot > 0
    THEN LET left == d.spot - 20 * Distance(d.callWall, d.spot)
         IN  If(left > 0, (125000 * left) \div d.spot)
    ELSE 0

PutWallNear(d) ==
    /\ Given(d.putWall) /\ Given(d.spot) /\ d.spot > 0
    /\ 100 * Distance(d.putWall, d.spot) < 3 * d.spot

InFlipZone(d) ==
    /\ Given(d.flipLow) /\ Given(d.flipHigh) /\ Given(d.spot)
    /\ d.flipLow <= d.spot /\ d.spot <= d.flipHigh

\* The last of the snapshots speaks for all.
GexRaw(snapshots) ==
    IF snapshots = <<>> THEN 0
    ELSE LET d == snapshots[Len(snapshots)]
         IN  NetGexPoints(d) + ZeroGammaPoints(d) + CallWallPoints(d)
             + If(PutWallNear(d), 5 * Point) + If(InFlipZone(d), 125000)

-----------------------------------------------------------------------------
(* vix                                                                     *)

VixData == [spot : Maybe(Int), vx1 : Maybe(Int), vx2 : Maybe(Int), ratio : Maybe(Int),
            state : {"contango", "flat", "backwardation"}, premium : Maybe(Int)]

\* _build_payload(): spot and the 3-month index in 1/100, the ratio in 1/10000.
VixPayload(spot, vx3) ==
    LET rise == IF spot = 0 THEN 0 ELSE vx3 - spot
    IN  [spot    |-> spot,
         vx1     |-> vx3,
         vx2     |-> vx3,
         ratio   |-> IF spot = 0 THEN 0 ELSE (10000 * rise + spot \div 2) \div spot,
         state   |-> IF 50 * rise > spot THEN "contango"
                     ELSE IF 50 * rise < -spot THEN "backwardation" ELSE "flat",
         premium |-> spot - vx3]

\* (mutant) Contango is the signal.
TermPointsOfContango(d) == If(d.state = "contango", 50)

\* The way back from backwardation counts, a settled contango does not.
TermPoints(d) ==
    IF d.state = "contango"
    THEN IF ~Known(d.ratio) THEN 20
         ELSE IF d.ratio <= 500 THEN 50 ELSE IF d.ratio <= 1000 THEN 30 ELSE 10
    ELSE If(d.state = "flat", 20)

PremiumPoints(premium) ==
    IF ~Known(premium) THEN 0
    ELSE IF premium <= 0 THEN 10 ELSE Below(premium, {<<100, 35>>, <<300, 20>>})

VixRaw(d) ==
    Point * (TermPoints(d) + PremiumPoints(d.premium)
             + Below(d.spot, {<<1300, 10>>, <<1800, 5>>}) + Above(d.spot, {<<3500, 25>>}))

-----------------------------------------------------------------------------
(* crypto: funding in 1/10000, the changes and elr in tenths (of a percent) *)

CryptoData == [cleanup : BOOLEAN, funding : Maybe(Int), anomaly : BOOLEAN, oiCrash : BOOLEAN,
               oiChange : Maybe(Int), liquidation : BOOLEAN, elr : Maybe(Int),
               btc : Maybe(Int), eth : Maybe(Int)]

\* The larger of the two moves, BTC's when they are equal.
SpotMove(d) ==
    LET size(x) == IF Known(x) THEN Distance(x, 0) ELSE 0
    IN  IF size(d.btc) >= size(d.eth) THEN d.btc ELSE d.eth

FundingPoints(d) ==
    IF ~Known(d.funding) THEN 0
    ELSE IF d.funding < 0 THEN Below(d.funding, {<<-10, 25>>, <<0, 15>>})
    ELSE If(d.anomaly, 20)

OpenInterestPoints(d) ==
    IF d.oiCrash THEN 25 * Point
    ELSE If(Known(d.oiChange) /\ d.oiChange < -100,
            (20 * Point * AtMostOf(Distance(d.oiChange, 0), 300)) \div 300)

CryptoRaw(d) ==
    Point * (If(d.cleanup, 50) + FundingPoints(d) + If(d.liquidation, 10)
             + Below(d.elr, {<<15, 10>>})
             + Below(SpotMove(d), {<<-79, 20>>, <<-39, 15>>})   \* at most -8%, -4%
             + Above(SpotMove(d), {<<79, 20>>, <<39, 12>>}))    \* at least 8%, 4%
    + OpenInterestPoints(d)

\* The derivatives part of CryptoFetcher's payload: the change of the open
\* interest is computed by the writer, after the analysis.
CryptoPayload(funding, elr, btc, eth) ==
    [cleanup |-> Distance(funding, 0) > 10, funding |-> funding,
     anomaly |-> Distance(funding, 0) > 50, oiCrash |-> FALSE, oiChange |-> None,
     liquidation |-> FALSE, elr |-> elr, btc |-> btc, eth |-> eth]

-----------------------------------------------------------------------------
(* darkpool                                                                *)

DarkpoolData == [dix : Maybe(Int), cross : STRING, ema5 : Maybe(Int), ema20 : Maybe(Int),
                 reversal : BOOLEAN, aggregated : BOOLEAN, ma5 : BOOLEAN, divergence : BOOLEAN]

MomentumPoints(d) ==
    IF d.cross = "bullish_cross"
    THEN IF Known(d.ema5) /\ Known(d.ema20) /\ (d.ema5 >= 0 \/ d.ema20 >= 0)
         THEN 25 ELSE 8
    ELSE If(d.reversal, 20)

\* The short ratio is recorded and moves nothing.
DarkpoolRaw(d) ==
    Point * (Above(d.dix, {<<50, 50>>, <<45, 20>>, <<40, 10>>}) + MomentumPoints(d)
             + If(d.aggregated, 15) + If(d.ma5, 10) + If(d.divergence, 10))

-----------------------------------------------------------------------------
(* The six that are not registered                                         *)

\* ratio and average in 1/100.
PutCallData == [ratio : Maybe(Int), average : Maybe(Int), percentile : Maybe(Int)]

PutCallRaw(d) ==
    Point * If(Known(d.ratio),
               Above(d.ratio, {<<150, 60>>, <<120, 40>>, <<100, 20>>})
               + Below(d.ratio, {<<50, 5>>})
               + Above(d.percentile, {<<90, 30>>, <<75, 15>>})
               + If(/\ Given(d.average) /\ d.average > 0
                    /\ 10 * (d.ratio - d.average) > 3 * d.average, 20))

\* Yields in 1/100, pmi, unemployment and cpi in 1/10; events: is each of high impact.
MacroData == [inverted : BOOLEAN, y10 : Maybe(Int), y2 : Maybe(Int), pmi : Maybe(Int),
              unemployment : Maybe(Int), cpi : Maybe(Int), dxy : Maybe(Int),
              events : Seq(BOOLEAN)]

MacroRaw(d) ==
    LET first == {i \in DOMAIN d.events : i <= 5}
        uninverting == /\ Given(d.y10) /\ Given(d.y2)
                       /\ d.y10 - d.y2 > -10 /\ d.y10 - d.y2 < 0
    IN  Point * (If(d.inverted, 30 + If(uninverting, 20))
                 + Below(d.pmi, {<<470, 25>>, <<500, 15>>}) + Above(d.pmi, {<<550, 5>>})
                 + Above(d.unemployment, {<<60, 20>>, <<50, 10>>})
                 + Above(d.cpi, {<<50, 15>>}) + Below(d.cpi, {<<10, 20>>})
                 + 10 * Cardinality({i \in first : d.events[i]})
                 + Above(d.dxy, {<<110, 10>>}) + Below(d.dxy, {<<95, 5>>}))

\* Flows in units of 1e5, volume in 1/10.
FlowData == [net : Maybe(Int), ma5 : Maybe(Int), ma20 : Maybe(Int), volume : Maybe(Int)]

FlowRaw(d) ==
    Point * (Above(d.net, {<<0, 30>>}) + Below(d.net, {<<-10, 15>>})
             + If(Known(d.ma5) /\ Known(d.ma20) /\ d.ma5 > d.ma20, 25)
             + Above(d.volume, {<<15, 15>>}))

\* breadth in 1/10.
SectorData == [rotation : STRING, breadth : Maybe(Int),
               sectors : Seq([strength : Int, defensive : BOOLEAN, falling : BOOLEAN])]

Leading(sectors) ==
    LET ahead(j, i) == \/ sectors[j].strength > sectors[i].strength
                       \/ sectors[j].strength = sectors[i].strength /\ j < i
    IN  {i \in DOMAIN sectors : Cardinality({j \in DOMAIN sectors : ahead(j, i)}) < 3}

SectorRaw(d) ==
    LET falling == {i \in DOMAIN d.sectors : d.sectors[i].falling}
    IN  Point * (If(d.rotation = "risk_on", 30) + If(d.rotation = "risk_off", 15)
                   + Above(d.breadth, {<<7, 20>>, <<5, 10>>}) + Below(d.breadth, {<<2, 15>>})
                   + If(\E i \in Leading(d.sectors) : d.sectors[i].defensive, 10)
                   + If(5 * Cardinality(falling) > 4 * Len(d.sectors), 15))

\* ratio in 1/10, breadth in 1/10.
SentimentData == [fearGreed : Maybe(Int), ratio : Maybe(Int), vix : Maybe(Int), breadth : Maybe(Int)]

SentimentRaw(d) ==
    Point * (Below(d.fearGreed, {<<20, 50>>, <<35, 30>>, <<50, 15>>})
             + Above(d.fearGreed, {<<80, 5>>})
             + Above(d.ratio, {<<12, 25>>, <<10, 15>>})
             + Above(d.vix, {<<30, 20>>, <<25, 10>>})
             + Below(d.breadth, {<<3, 15>>}))

\* Prices in 1/100, ratios in 1/10000.
VixTermData == [spot : Maybe(Int), vx1 : Maybe(Int), vx2 : Maybe(Int), ratio : Maybe(Int),
                rolling : BOOLEAN, history : Seq(Int)]

VixTermRaw(d) ==
    LET curve == Known(d.vx1) /\ Known(d.vx2) /\ d.vx1 > 0
        ratio == IF curve /\ ~Known(d.ratio) THEN ((10000 * d.vx2) \div d.vx1) - 10000 ELSE d.ratio
        shape == IF ~curve THEN 0
                 ELSE IF ratio > 200 THEN 400 * AtMostOf(ratio, 1000)
                 ELSE IF ratio < -1000 THEN 30 * Point
                 ELSE IF ratio < -200 THEN 10 * Point ELSE 15 * Point
        spread == IF Known(d.spot) /\ Known(d.vx1) THEN d.spot - d.vx1 ELSE None
        lower == {i \in DOMAIN d.history : Known(ratio) /\ d.history[i] < ratio}
    IN  shape
        + Point * (Above(spread, {<<200, 15>>}) + Below(spread, {<<-200, 20>>})
                   + If(d.rolling, 20)
                   + If(Known(ratio) /\ 10 * Cardinality(lower) > 9 * Len(d.history), 15))

-----------------------------------------------------------------------------
Registered == {"gex", "vix", "crypto", "darkpool"}
Exported == Registered \cup
            {"put_call", "macro", "flow", "sector", "sentiment", "vix_term"}

RawScore(a, d) ==
    CASE a = "gex"       -> GexRaw(d)
      [] a = "vix"       -> VixRaw(d)
      [] a = "crypto"    -> CryptoRaw(d)
      [] a = "darkpool"  -> DarkpoolRaw(d)
      [] a = "put_call"  -> PutCallRaw(d)
      [] a = "macro"     -> MacroRaw(d)
      [] a = "flow"      -> FlowRaw(d)
      [] a = "sector"    -> SectorRaw(d)
      [] a = "sentiment" -> SentimentRaw(d)
      [] OTHER           -> VixTermRaw(d)

\* The payloads an analyzer makes a score of; it raises on others.
Data == [gex |-> Seq(GexSnapshots), vix |-> VixData, crypto |-> CryptoData,
         darkpool |-> DarkpoolData, put_call |-> PutCallData, macro |-> MacroData,
         flow |-> FlowData, sector |-> SectorData, sentiment |-> SentimentData,
         vix_term |-> VixTermData]

\* A missing field is no number, and missing data no payload.
ASSUME NoneAssumption == None \notin Int /\ \A a \in Exported : None \notin Data[a]

\* analyze(data).
Analyze(a, d) == IF d = None THEN DefaultResult ELSE Verdict(RawScore(a, d))
=============================================================================
