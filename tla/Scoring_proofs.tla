--------------------------- MODULE Scoring_proofs ---------------------------
(***************************************************************************)
(* Theorems about Scoring, for any payloads, batches and number of         *)
(* updates.                                                                *)
(***************************************************************************)
EXTENDS Scoring, FiniteSetTheorems, WellFoundedInduction, TLAPS

-----------------------------------------------------------------------------
(* Numbers                                                                 *)

\* What a floored quotient is.
LEMMA Quotient ==
  ASSUME NEW x \in Int, NEW y \in Nat, y > 0
  PROVE  /\ x \div y \in Int
         /\ (x \div y) * y <= x
         /\ x < (x \div y) * y + y
  OBVIOUS

Lower == {p \in Nat \X Nat : p[1] < p[2]}

\* Any set of numbers has a least one.
LEMMA LeastExists ==
  ASSUME NEW S \in SUBSET Nat, S # {}
  PROVE  \E x \in S : \A y \in S : x <= y
  <1>1. Lower = OpToRel(<, Nat)
    BY DEF Lower, OpToRel
  <1>2. IsWellFoundedOn(Lower, Nat)
    BY <1>1, NatLessThanWellFounded
  <1>3. PICK x \in S : \A y \in S : ~(<<y, x>> \in Lower)
    BY <1>2, WFMin
  <1>4. ASSUME NEW y \in S PROVE x <= y
    <2>1. ~(y < x)
      BY <1>3 DEF Lower
    <2> QED
      BY <2>1
  <1> QED
    BY <1>4

-----------------------------------------------------------------------------
(* Chains of comparisons                                                   *)

Threshold(t) == t \in Int /\ 0 <= t + 1000 /\ t <= 5000

\* A chain yields nothing, or the points of a band that x is in.
LEMMA AboveValue ==
  ASSUME NEW x, NEW bands,
         \A b \in bands : Threshold(b[1]) /\ b[2] \in Nat
  PROVE  /\ Above(x, bands) \in Nat
         /\ Above(x, bands) # 0 =>
               Known(x) /\ \E b \in bands : x > b[1] /\ Above(x, bands) = b[2]
  <1> DEFINE hit == {c \in bands : Known(x) /\ x > c[1]}
             keys == {5000 - c[1] : c \in hit}
  <1>1. Above(x, bands) = IF hit = {} THEN 0
                       ELSE (CHOOSE c \in hit : \A e \in hit : e[1] <= c[1])[2]
    BY DEF Above
  <1>2. \A c \in hit : /\ c \in bands /\ Known(x) /\ x > c[1] /\ c[2] \in Nat
                      /\ c[1] \in Int /\ 0 <= c[1] + 1000 /\ c[1] <= 5000
    BY DEF Threshold
  <1> HIDE DEF hit
  <1>3. CASE hit # {}
    <2>1. \A c \in hit : 5000 - c[1] \in Nat
      BY <1>2 DEF Threshold
    <2>2. keys \in SUBSET Nat /\ keys # {}
      BY <1>3, <2>1
    <2> HIDE DEF keys
    <2>3. PICK k \in keys : \A m \in keys : k <= m
      BY <2>2, LeastExists
    <2>4. PICK b \in hit : k = 5000 - b[1]
      BY <2>3 DEF keys
    <2>5. ASSUME NEW e \in hit PROVE e[1] <= b[1]
      <3>1. 5000 - b[1] <= 5000 - e[1]
        BY <2>3, <2>4 DEF keys
      <3> QED
        BY <1>2, <3>1
    <2>6. PICK c \in hit : Above(x, bands) = c[2]
      BY <1>1, <1>3, <2>5
    <2> QED
      BY <1>2, <2>6
  <1>4. CASE hit = {}
    BY <1>1, <1>4
  <1> QED
    BY <1>3, <1>4

\* The same from below.
LEMMA BelowValue ==
  ASSUME NEW x, NEW bands,
         \A b \in bands : Threshold(b[1]) /\ b[2] \in Nat
  PROVE  /\ Below(x, bands) \in Nat
         /\ Below(x, bands) # 0 =>
               Known(x) /\ \E b \in bands : x < b[1] /\ Below(x, bands) = b[2]
  <1> DEFINE hit == {c \in bands : Known(x) /\ x < c[1]}
             keys == {c[1] + 1000 : c \in hit}
  <1>1. Below(x, bands) = IF hit = {} THEN 0
                       ELSE (CHOOSE c \in hit : \A e \in hit : c[1] <= e[1])[2]
    BY DEF Below
  <1>2. \A c \in hit : /\ c \in bands /\ Known(x) /\ x < c[1] /\ c[2] \in Nat
                      /\ c[1] \in Int /\ 0 <= c[1] + 1000 /\ c[1] <= 5000
    BY DEF Threshold
  <1> HIDE DEF hit
  <1>3. CASE hit # {}
    <2>1. \A c \in hit : c[1] + 1000 \in Nat
      BY <1>2 DEF Threshold
    <2>2. keys \in SUBSET Nat /\ keys # {}
      BY <1>3, <2>1
    <2> HIDE DEF keys
    <2>3. PICK k \in keys : \A m \in keys : k <= m
      BY <2>2, LeastExists
    <2>4. PICK b \in hit : k = b[1] + 1000
      BY <2>3 DEF keys
    <2>5. ASSUME NEW e \in hit PROVE b[1] <= e[1]
      <3>1. b[1] + 1000 <= e[1] + 1000
        BY <2>3, <2>4 DEF keys
      <3> QED
        BY <1>2, <3>1
    <2>6. PICK c \in hit : Below(x, bands) = c[2]
      BY <1>1, <1>3, <2>5
    <2> QED
      BY <1>2, <2>6
  <1>4. CASE hit = {}
    BY <1>1, <1>4
  <1> QED
    BY <1>3, <1>4

-----------------------------------------------------------------------------
(* Raw scores are numbers                                                  *)

\* An analyzer's raw score of any data of its kind is a number: gex.
LEMMA GexRawType == ASSUME NEW d \in Seq(GexSnapshots) PROVE GexRaw(d) \in Int
  <1>1. CASE d = <<>>
    BY <1>1 DEF GexRaw
  <1>2. CASE d # <<>>
    <2> DEFINE e == d[Len(d)]
    <2>1. e \in GexSnapshots
      BY <1>2
    <2>2. /\ e.net \in Maybe(Int) /\ e.gamma \in Maybe(Int) /\ e.zero \in Maybe(Int)
          /\ e.spot \in Maybe(Int) /\ e.callWall \in Maybe(Int)
      BY <2>1 DEF GexSnapshots
    <2>3. GexRaw(d) = NetGexPoints(e) + ZeroGammaPoints(e) + CallWallPoints(e)
                      + If(PutWallNear(e), 5 * Point) + If(InFlipZone(e), 125000)
      BY <1>2 DEF GexRaw
    <2> HIDE DEF e
    <2>4. NetGexPoints(e) \in Int
      <3>1. CASE Known(e.net) /\ e.net > 0 /\ Known(e.gamma) /\ e.gamma > 0
        <4>1. e.net \in Int /\ e.gamma \in Nat
          BY <2>2, <3>1 DEF Known, Maybe
        <4>2. AtMostOf(e.net, e.gamma) \in Int
          BY <4>1 DEF AtMostOf
        <4>3. 375000 * AtMostOf(e.net, e.gamma) \in Int
          BY <4>2
        <4>4. (375000 * AtMostOf(e.net, e.gamma)) \div e.gamma \in Int
          BY <3>1, <4>1, <4>3, Quotient
        <4> QED
          BY <3>1, <4>4 DEF NetGexPoints
      <3>2. CASE ~(Known(e.net) /\ e.net > 0 /\ Known(e.gamma) /\ e.gamma > 0)
        BY <3>2 DEF NetGexPoints
      <3> QED
        BY <3>1, <3>2
    <2>5. ZeroGammaPoints(e) \in Int
      <3>1. CASE Given(e.zero) /\ Given(e.spot) /\ e.spot < e.zero
        <4> DEFINE left == e.spot - 10 * (e.zero - e.spot)
        <4>1. /\ e.zero \in Int /\ e.spot \in Int /\ left \in Int
              /\ left > 0 => e.spot \in Nat /\ e.spot > 0
          BY <2>2, <3>1 DEF Given, Maybe
        <4>2. ZeroGammaPoints(e) = If(left > 0, (125000 * left) \div e.spot)
          BY <3>1 DEF ZeroGammaPoints
        <4> HIDE DEF left
        <4>3. left > 0 => (125000 * left) \div e.spot \in Int
          BY <4>1, Quotient
        <4> QED
          BY <4>2, <4>3 DEF If
      <3>2. CASE ~(Given(e.zero) /\ Given(e.spot) /\ e.spot < e.zero)
        BY <3>2 DEF ZeroGammaPoints
      <3> QED
        BY <3>1, <3>2
    <2>6. CallWallPoints(e) \in Int
      <3>1. CASE Given(e.callWall) /\ Given(e.spot) /\ e.spot > 0
        <4> DEFINE left == e.spot - 20 * Distance(e.callWall, e.spot)
        <4>1. e.callWall \in Int /\ e.spot \in Nat /\ e.spot > 0
          BY <2>2, <3>1 DEF Given, Maybe
        <4>2. left \in Int
          BY <4>1 DEF Distance
        <4>3. CallWallPoints(e) = If(left > 0, (125000 * left) \div e.spot)
          BY <3>1 DEF CallWallPoints
        <4> HIDE DEF left
        <4>4. (125000 * left) \div e.spot \in Int
          BY <4>1, <4>2, Quotient
        <4> QED
          BY <4>3, <4>4 DEF If
      <3>2. CASE ~(Given(e.callWall) /\ Given(e.spot) /\ e.spot > 0)
        BY <3>2 DEF CallWallPoints
      <3> QED
        BY <3>1, <3>2
    <2>7. If(PutWallNear(e), 5 * Point) \in Int /\ If(InFlipZone(e), 125000) \in Int
      BY DEF If, Point
    <2> QED
      BY <2>3, <2>4, <2>5, <2>6, <2>7
  <1> QED
    BY <1>1, <1>2

\* vix.
LEMMA VixRawType == ASSUME NEW d \in VixData PROVE VixRaw(d) \in Int
  <1>1. TermPoints(d) \in Int
    BY DEF TermPoints, If
  <1>2. PremiumPoints(d.premium) \in Int
    <2>1. Below(d.premium, {<<100, 35>>, <<300, 20>>}) \in Int
      BY BelowValue DEF Threshold
    <2> QED
      BY <2>1 DEF PremiumPoints
  <1>3. /\ Below(d.spot, {<<1300, 10>>, <<1800, 5>>}) \in Int
        /\ Above(d.spot, {<<3500, 25>>}) \in Int
    BY AboveValue, BelowValue DEF Threshold
  <1> QED
    BY <1>1, <1>2, <1>3 DEF VixRaw, Point

\* crypto.
LEMMA CryptoRawType == ASSUME NEW d \in CryptoData PROVE CryptoRaw(d) \in Int
  <1>1. /\ d.funding \in Maybe(Int) /\ d.oiChange \in Maybe(Int) /\ d.elr \in Maybe(Int)
        /\ d.btc \in Maybe(Int) /\ d.eth \in Maybe(Int)
    BY DEF CryptoData
  <1>2. FundingPoints(d) \in Int
    <2>1. Below(d.funding, {<<-10, 25>>, <<0, 15>>}) \in Int
      BY BelowValue DEF Threshold
    <2> QED
      BY <2>1 DEF FundingPoints, If
  <1>3. OpenInterestPoints(d) \in Int
    <2>1. CASE Known(d.oiChange) /\ d.oiChange < -100
      <3>1. AtMostOf(Distance(d.oiChange, 0), 300) \in Int
        BY <1>1, <2>1 DEF Known, Maybe, AtMostOf, Distance
      <3>2. (20 * Point * AtMostOf(Distance(d.oiChange, 0), 300)) \div 300 \in Int
        BY <3>1 DEF Point
      <3> QED
        BY <3>2 DEF OpenInterestPoints, If, Point
    <2>2. CASE ~(Known(d.oiChange) /\ d.oiChange < -100)
      BY <2>2 DEF OpenInterestPoints, If, Point
    <2> QED
      BY <2>1, <2>2
  <1>4. /\ Below(d.elr, {<<15, 10>>}) \in Int
        /\ Below(SpotMove(d), {<<-79, 20>>, <<-39, 15>>}) \in Int
        /\ Above(SpotMove(d), {<<79, 20>>, <<39, 12>>}) \in Int
    <2>1. Below(d.elr, {<<15, 10>>}) \in Int
      BY BelowValue DEF Threshold
    <2>2. Below(SpotMove(d), {<<-79, 20>>, <<-39, 15>>}) \in Int
      BY BelowValue DEF Threshold
    <2>3. Above(SpotMove(d), {<<79, 20>>, <<39, 12>>}) \in Int
      BY AboveValue DEF Threshold
    <2> QED
      BY <2>1, <2>2, <2>3
  <1>5. If(d.cleanup, 50) \in Int /\ If(d.liquidation, 10) \in Int
    BY DEF If
  <1> QED
    BY <1>2, <1>3, <1>4, <1>5 DEF CryptoRaw, Point

\* darkpool.
LEMMA DarkpoolRawType == ASSUME NEW d \in DarkpoolData PROVE DarkpoolRaw(d) \in Int
  <1>1. Above(d.dix, {<<50, 50>>, <<45, 20>>, <<40, 10>>}) \in Int
    BY AboveValue DEF Threshold
  <1>2. MomentumPoints(d) \in Int
    BY DEF MomentumPoints, If
  <1>3. If(d.aggregated, 15) \in Int /\ If(d.ma5, 10) \in Int /\ If(d.divergence, 10) \in Int
    BY DEF If
  <1> QED
    BY <1>1, <1>2, <1>3 DEF DarkpoolRaw, Point

\* put_call.
LEMMA PutCallRawType == ASSUME NEW d \in PutCallData PROVE PutCallRaw(d) \in Int
  <1>1. Above(d.ratio, {<<150, 60>>, <<120, 40>>, <<100, 20>>}) \in Int
    BY AboveValue DEF Threshold
  <1>2. Below(d.ratio, {<<50, 5>>}) \in Int
    BY BelowValue DEF Threshold
  <1>3. Above(d.percentile, {<<90, 30>>, <<75, 15>>}) \in Int
    BY AboveValue DEF Threshold
  <1>4. \A c : If(c, 20) \in Int
    BY DEF If
  <1> QED
    BY <1>1, <1>2, <1>3, <1>4 DEF PutCallRaw, Point, If

\* macro.
LEMMA MacroRawType == ASSUME NEW d \in MacroData PROVE MacroRaw(d) \in Int
  <1>1. /\ d.pmi \in Maybe(Int) /\ d.unemployment \in Maybe(Int) /\ d.cpi \in Maybe(Int)
        /\ d.dxy \in Maybe(Int) /\ d.events \in Seq(BOOLEAN)
    BY DEF MacroData
  <1> DEFINE first == {i \in DOMAIN d.events : i <= 5}
             high == {i \in first : d.events[i]}
             uninverting == /\ Given(d.y10) /\ Given(d.y2)
                            /\ d.y10 - d.y2 > -10 /\ d.y10 - d.y2 < 0
             yields == If(d.inverted, 30 + If(uninverting, 20))
  <1>2. yields \in Int
    BY DEF If
  <1>3. Below(d.pmi, {<<470, 25>>, <<500, 15>>}) \in Int
    BY BelowValue DEF Threshold
  <1>4. Above(d.unemployment, {<<60, 20>>, <<50, 10>>}) \in Int
    BY AboveValue DEF Threshold
  <1>5. /\ Above(d.pmi, {<<550, 5>>}) \in Int /\ Above(d.cpi, {<<50, 15>>}) \in Int
        /\ Above(d.dxy, {<<110, 10>>}) \in Int
    BY AboveValue DEF Threshold
  <1>6. Cardinality(high) \in Nat
    <2>1. high \subseteq 1..Len(d.events) /\ Len(d.events) \in Nat
      BY <1>1
    <2>2. IsFiniteSet(1..Len(d.events))
      BY <2>1, FS_Interval
    <2> HIDE DEF high
    <2> QED
      BY <2>1, <2>2, FS_Subset, FS_CardinalityType
  <1>7. Below(d.cpi, {<<10, 20>>}) \in Int /\ Below(d.dxy, {<<95, 5>>}) \in Int
    BY BelowValue DEF Threshold
  <1>8. MacroRaw(d) = Point * (yields + Below(d.pmi, {<<470, 25>>, <<500, 15>>})
                               + Above(d.pmi, {<<550, 5>>})
                               + Above(d.unemployment, {<<60, 20>>, <<50, 10>>})
                               + Above(d.cpi, {<<50, 15>>}) + Below(d.cpi, {<<10, 20>>})
                               + 10 * Cardinality(high)
                               + Above(d.dxy, {<<110, 10>>}) + Below(d.dxy, {<<95, 5>>}))
    BY DEF MacroRaw
  <1> HIDE DEF yields, high
  <1> QED
    BY <1>2, <1>3, <1>4, <1>5, <1>6, <1>7, <1>8 DEF Point

\* flow.
LEMMA FlowRawType == ASSUME NEW d \in FlowData PROVE FlowRaw(d) \in Int
  <1>1. Above(d.net, {<<0, 30>>}) \in Int /\ Above(d.volume, {<<15, 15>>}) \in Int
    BY AboveValue DEF Threshold
  <1>2. Below(d.net, {<<-10, 15>>}) \in Int
    BY BelowValue DEF Threshold
  <1>3. \A c : If(c, 25) \in Int
    BY DEF If
  <1> QED
    BY <1>1, <1>2, <1>3 DEF FlowRaw, Point

\* sector.
LEMMA SectorRawType == ASSUME NEW d \in SectorData PROVE SectorRaw(d) \in Int
  <1> DEFINE falling == {i \in DOMAIN d.sectors : d.sectors[i].falling}
             leads == If(\E i \in Leading(d.sectors) : d.sectors[i].defensive, 10)
             falls == If(5 * Cardinality(falling) > 4 * Len(d.sectors), 15)
  <1>1. leads \in Int /\ falls \in Int
    BY DEF If
  <1>2. Above(d.breadth, {<<7, 20>>, <<5, 10>>}) \in Int
    BY AboveValue DEF Threshold
  <1>3. Below(d.breadth, {<<2, 15>>}) \in Int
    BY BelowValue DEF Threshold
  <1>4. If(d.rotation = "risk_on", 30) \in Int /\ If(d.rotation = "risk_off", 15) \in Int
    BY DEF If
  <1>5. SectorRaw(d) = Point * (If(d.rotation = "risk_on", 30) + If(d.rotation = "risk_off", 15)
                                + Above(d.breadth, {<<7, 20>>, <<5, 10>>})
                                + Below(d.breadth, {<<2, 15>>}) + leads + falls)
    BY DEF SectorRaw
  <1> HIDE DEF leads, falls
  <1> QED
    BY <1>1, <1>2, <1>3, <1>4, <1>5 DEF Point

\* sentiment.
LEMMA SentimentRawType == ASSUME NEW d \in SentimentData PROVE SentimentRaw(d) \in Int
  <1>1. Below(d.fearGreed, {<<20, 50>>, <<35, 30>>, <<50, 15>>}) \in Int
    BY BelowValue DEF Threshold
  <1>2. Above(d.fearGreed, {<<80, 5>>}) \in Int
    BY AboveValue DEF Threshold
  <1>3. Above(d.ratio, {<<12, 25>>, <<10, 15>>}) \in Int
    BY AboveValue DEF Threshold
  <1>4. Above(d.vix, {<<30, 20>>, <<25, 10>>}) \in Int
    BY AboveValue DEF Threshold
  <1>5. Below(d.breadth, {<<3, 15>>}) \in Int
    BY BelowValue DEF Threshold
  <1> QED
    BY <1>1, <1>2, <1>3, <1>4, <1>5 DEF SentimentRaw, Point

\* vix_term.
LEMMA VixTermRawType == ASSUME NEW d \in VixTermData PROVE VixTermRaw(d) \in Int
  <1>1. /\ d.spot \in Maybe(Int) /\ d.vx1 \in Maybe(Int) /\ d.vx2 \in Maybe(Int)
        /\ d.ratio \in Maybe(Int)
    BY DEF VixTermData
  <1> DEFINE curve == Known(d.vx1) /\ Known(d.vx2) /\ d.vx1 > 0
             ratio == IF curve /\ ~Known(d.ratio) THEN ((10000 * d.vx2) \div d.vx1) - 10000 ELSE d.ratio
             shape == IF ~curve THEN 0
                      ELSE IF ratio > 200 THEN 400 * AtMostOf(ratio, 1000)
                      ELSE IF ratio < -1000 THEN 30 * Point
                      ELSE IF ratio < -200 THEN 10 * Point ELSE 15 * Point
             spread == IF Known(d.spot) /\ Known(d.vx1) THEN d.spot - d.vx1 ELSE None
             lower == {i \in DOMAIN d.history : Known(ratio) /\ d.history[i] < ratio}
  <1>2. curve => ratio \in Int
    <2> SUFFICES ASSUME curve PROVE ratio \in Int
      OBVIOUS
    <2>1. d.vx1 \in Nat /\ d.vx1 > 0 /\ d.vx2 \in Int
      BY <1>1 DEF Known, Maybe
    <2>2. (10000 * d.vx2) \div d.vx1 \in Int
      BY <2>1, Quotient
    <2> QED
      BY <1>1, <2>2 DEF Known, Maybe
  <1>3. VixTermRaw(d) = shape
            + Point * (Above(spread, {<<200, 15>>}) + Below(spread, {<<-200, 20>>})
                       + If(d.rolling, 20)
                       + If(Known(ratio) /\ 10 * Cardinality(lower) > 9 * Len(d.history), 15))
    BY DEF VixTermRaw
  <1> HIDE DEF curve, ratio, spread, lower
  <1>4. shape \in Int
    BY <1>2 DEF AtMostOf, Point
  <1>5. Above(spread, {<<200, 15>>}) \in Int
    BY AboveValue DEF Threshold
  <1>6. Below(spread, {<<-200, 20>>}) \in Int
    BY BelowValue DEF Threshold
  <1>7. \A c : If(c, 20) \in Int /\ If(c, 15) \in Int
    BY DEF If
  <1> HIDE DEF shape
  <1> QED
    BY <1>3, <1>4, <1>5, <1>6, <1>7 DEF Point


-----------------------------------------------------------------------------
(* Levels                                                                  *)

\* The bands of a raw score.
LEMMA LevelBands ==
  ASSUME NEW raw \in Int
  PROVE  /\ raw >= 750000 => Level(raw) = "LEVEL_3"
         /\ raw >= 500000 /\ raw < 750000 => Level(raw) = "LEVEL_2"
         /\ raw >= 250000 /\ raw < 500000 => Level(raw) = "LEVEL_1"
         /\ raw < 250000 => Level(raw) = "LEVEL_0"
  BY SMT DEF Level, Point

\* Rounding moves a score by at most half a unit, and so past no threshold but
\* onto one.
LEMMA NearestAgrees ==
  ASSUME NEW raw \in Int, NEW r \in Int, 100 * r <= raw + 50, raw + 50 < 100 * r + 100
  PROVE  Agree(r, Level(raw))
  <1>1. /\ raw >= 750000 => Level(raw) = "LEVEL_3"
        /\ raw >= 500000 /\ raw < 750000 => Level(raw) = "LEVEL_2"
        /\ raw >= 250000 /\ raw < 500000 => Level(raw) = "LEVEL_1"
        /\ raw < 250000 => Level(raw) = "LEVEL_0"
    BY LevelBands
  <1>2. /\ r >= 7500 => Level(100 * r) = "LEVEL_3"
        /\ r >= 5000 /\ r < 7500 => Level(100 * r) = "LEVEL_2"
        /\ r >= 2500 /\ r < 5000 => Level(100 * r) = "LEVEL_1"
        /\ r < 2500 => Level(100 * r) = "LEVEL_0"
    BY SMT DEF Level, Point
  <1>3. /\ r = 7500 => Level(100 * r - 1) = "LEVEL_2"
        /\ r = 5000 => Level(100 * r - 1) = "LEVEL_1"
        /\ r = 2500 => Level(100 * r - 1) = "LEVEL_0"
    BY SMT DEF Level, Point
  <1>4. \/ raw >= 750000 /\ r >= 7500
        \/ raw >= 500000 /\ raw < 750000 /\ r >= 5000 /\ r <= 7500
        \/ raw >= 250000 /\ raw < 500000 /\ r >= 2500 /\ r <= 5000
        \/ raw < 250000 /\ r <= 2500
    BY SMT
  <1>5. Level(raw) = Level(100 * r) \/ (r \in {2500, 5000, 7500} /\ Level(raw) = Level(100 * r - 1))
    BY <1>1, <1>2, <1>3, <1>4, SMT
  <1>6. ASSUME NEW level, \/ level = Level(100 * r)
                          \/ r \in {2500, 5000, 7500} /\ level = Level(100 * r - 1)
        PROVE  Agree(r, level)
    BY <1>6, SMT DEF Agree, LiftedByRounding
  <1> QED
    BY <1>5, <1>6, SMT

\* A rounded score is a number, and its level is one of the four.
LEMMA RoundedAgrees ==
  ASSUME NEW raw \in Int, raw >= 0, raw <= 1000000
  PROVE  /\ Rounded(raw) \in Scores
         /\ Level(raw) \in Levels
         /\ Agree(Rounded(raw), Level(raw))
  <1>1. /\ Rounded(raw) \in Int
        /\ 100 * Rounded(raw) <= raw + 50
        /\ raw + 50 < 100 * Rounded(raw) + 100
    BY SMT DEF Rounded
  <1>2. Rounded(raw) \in Scores
    <2> DEFINE r == Rounded(raw)
    <2>1. r \in Int /\ 100 * r <= raw + 50 /\ raw + 50 < 100 * r + 100
      BY <1>1, SMT
    <2> HIDE DEF r
    <2>2. r \in Scores
      BY <2>1, SMT DEF Scores
    <2> QED
      BY <2>2 DEF r
  <1>3. Level(raw) \in Levels
    BY DEF Level, Levels
  <1>4. Agree(Rounded(raw), Level(raw))
    BY <1>1, NearestAgrees
  <1> QED
    BY <1>2, <1>3, <1>4, SMT

\* A clamped score is a number of points between 0 and 100.
LEMMA ClampType ==
  ASSUME NEW raw \in Int
  PROVE  Clamp(raw) \in Int /\ Clamp(raw) >= 0 /\ Clamp(raw) <= 1000000
  BY SMT DEF Clamp, AtMostOf, Point

\* An analyzer called with no data or with data of its kind.
LEMMA AnalyzeFacts ==
  ASSUME NEW a \in Exported, NEW d, d = None \/ d \in Data[a]
  PROVE  /\ Analyze(a, d) \in Results
         /\ Agree(Analyze(a, d).score, Analyze(a, d).level)
  <1>1. CASE d = None
    <2>1. Analyze(a, d) = [score |-> 0, level |-> "LEVEL_0"]
      BY <1>1 DEF Analyze, DefaultResult
    <2>2. Level(100 * 0) = "LEVEL_0" /\ 0 \in Scores
      BY SMT DEF Level, Point, Scores
    <2> QED
      BY <2>1, <2>2 DEF Results, Levels, Agree
  <1>2. CASE d # None
    <2>1. d \in Data[a]
      BY <1>2
    <2>2. RawScore(a, d) \in Int
      <3> USE DEF Data, RawScore
      <3>1. CASE a = "gex"        BY <2>1, <3>1, GexRawType
      <3>2. CASE a = "vix"        BY <2>1, <3>2, VixRawType
      <3>3. CASE a = "crypto"     BY <2>1, <3>3, CryptoRawType
      <3>4. CASE a = "darkpool"   BY <2>1, <3>4, DarkpoolRawType
      <3>5. CASE a = "put_call"   BY <2>1, <3>5, PutCallRawType
      <3>6. CASE a = "macro"      BY <2>1, <3>6, MacroRawType
      <3>7. CASE a = "flow"       BY <2>1, <3>7, FlowRawType
      <3>8. CASE a = "sector"     BY <2>1, <3>8, SectorRawType
      <3>9. CASE a = "sentiment"  BY <2>1, <3>9, SentimentRawType
      <3>10. CASE a = "vix_term"  BY <2>1, <3>10, VixTermRawType
      <3> QED
        BY <3>1, <3>2, <3>3, <3>4, <3>5, <3>6, <3>7, <3>8, <3>9, <3>10 DEF Exported, Registered
    <2> DEFINE raw == Clamp(RawScore(a, d))
    <2>3. raw \in Int /\ raw >= 0 /\ raw <= 1000000
      BY <2>2, ClampType, SMT
    <2>4. Analyze(a, d) = [score |-> Rounded(raw), level |-> Level(raw)]
      BY <1>2 DEF Analyze, Verdict
    <2> HIDE DEF raw
    <2>5. /\ Rounded(raw) \in Scores /\ Level(raw) \in Levels
          /\ Agree(Rounded(raw), Level(raw))
      BY <2>3, RoundedAgrees
    <2> QED
      BY <2>4, <2>5 DEF Results
  <1> QED
    BY <1>1, <1>2

\* A larger factor of a number that is not negative makes a larger product.
LEMMA ProductGrows ==
  ASSUME NEW a \in Int, NEW b \in Int, NEW y \in Nat, a <= b
  PROVE  a * y <= b * y
  <1>1. (b - a) * y >= 0
    OBVIOUS
  <1>2. (b - a) * y = b * y - a * y
    OBVIOUS
  <1> QED
    BY <1>1, <1>2

\* A product by a positive number decides which of its factors is larger.
LEMMA ProductCancels ==
  ASSUME NEW a \in Int, NEW b \in Int, NEW y \in Nat, y > 0, a * y < b * y
  PROVE  a < b
  <1> SUFFICES ASSUME b <= a PROVE FALSE
    OBVIOUS
  <1>1. b * y <= a * y
    BY ProductGrows
  <1> QED
    BY <1>1

\* The quotient is the largest number whose product does not exceed x.
LEMMA QuotientAtLeast ==
  ASSUME NEW x \in Int, NEW y \in Nat, y > 0, NEW k \in Int, k * y <= x
  PROVE  k <= x \div y
  <1> DEFINE m == x \div y
  <1>1. m \in Int /\ x < m * y + y
    BY Quotient
  <1> HIDE DEF m
  <1>2. m * y + y = (m + 1) * y
    BY <1>1
  <1>3. k * y < (m + 1) * y
    BY <1>1, <1>2
  <1>4. k < m + 1
    BY <1>1, <1>3, ProductCancels
  <1> QED
    BY <1>1, <1>4 DEF m

\* And nothing above it is.
LEMMA QuotientAtMost ==
  ASSUME NEW x \in Int, NEW y \in Nat, y > 0, NEW k \in Int, x < (k + 1) * y
  PROVE  x \div y <= k
  <1> DEFINE m == x \div y
  <1>1. m \in Int /\ m * y <= x
    BY Quotient
  <1> HIDE DEF m
  <1>2. m < k + 1
    BY <1>1, ProductCancels
  <1> QED
    BY <1>1, <1>2 DEF m

\* Quotients are ordered as the fractions they are of.
LEMMA QuotientsOrdered ==
  ASSUME NEW x \in Int, NEW y \in Nat, y > 0, NEW u \in Int, NEW v \in Nat, v > 0,
         u * y <= x * v
  PROVE  u \div v <= x \div y
  <1> DEFINE m == u \div v
  <1>1. m \in Int /\ m * v <= u
    BY Quotient
  <1> HIDE DEF m
  <1>2. m * v * y <= u * y
    BY <1>1, ProductGrows
  <1>3. (m * y) * v <= x * v
    BY <1>1, <1>2
  <1>4. ASSUME x < m * y PROVE FALSE
    <2>1. x + 1 <= m * y
      BY <1>1, <1>4
    <2>2. (x + 1) * v <= (m * y) * v
      BY <1>1, <2>1, ProductGrows
    <2>3. (x + 1) * v = x * v + v
      OBVIOUS
    <2>4. x * v + v <= x * v
      BY <1>1, <1>3, <2>2, <2>3
    <2> QED
      BY <2>4
  <1>5. m * y <= x
    BY <1>1, <1>4
  <1>6. m <= x \div y
    BY <1>1, <1>5, QuotientAtLeast
  <1> QED
    BY <1>6 DEF m

-----------------------------------------------------------------------------
(* Weights                                                                 *)

Counts == [alpha : Nat, beta : Nat]

\* The two bounds, before the normalisation.
LEMMA BoundedRange ==
  ASSUME NEW p \in Counts, p.alpha + p.beta > 0
  PROVE  Bounded(p) \in Int /\ 400 <= Bounded(p) /\ Bounded(p) <= 4800
  <1>1. p.alpha \in Nat /\ p.beta \in Nat
    BY DEF Counts
  <1> DEFINE w == (8000 * p.alpha) \div (p.alpha + p.beta)
  <1>2. w \in Int
    BY <1>1, Quotient
  <1>3. Bounded(p) = IF w < 400 THEN 400 ELSE AtMostOf(4800, w)
    BY DEF Bounded
  <1> HIDE DEF w
  <1> QED
    BY <1>2, <1>3 DEF AtMostOf

\* The bounds keep the order of the means.
LEMMA BoundedOrdered ==
  ASSUME NEW p \in Counts, NEW q \in Counts, p.alpha + p.beta > 0, q.alpha + q.beta > 0,
         p.alpha * q.beta >= q.alpha * p.beta
  PROVE  Bounded(q) <= Bounded(p)
  <1>1. p.alpha \in Nat /\ p.beta \in Nat /\ q.alpha \in Nat /\ q.beta \in Nat
    BY DEF Counts
  <1> DEFINE x == 8000 * p.alpha
             y == p.alpha + p.beta
             u == 8000 * q.alpha
             v == q.alpha + q.beta
  <1>2. x \in Int /\ y \in Nat /\ y > 0 /\ u \in Int /\ v \in Nat /\ v > 0
    BY <1>1
  <1>3. u * y <= x * v
    <2>1. q.alpha * p.alpha + q.alpha * p.beta <= p.alpha * q.alpha + p.alpha * q.beta
      BY <1>1
    <2>2. q.alpha * (p.alpha + p.beta) <= p.alpha * (q.alpha + q.beta)
      BY <1>1, <2>1
    <2>3. /\ u * y = 8000 * (q.alpha * (p.alpha + p.beta))
          /\ x * v = 8000 * (p.alpha * (q.alpha + q.beta))
      BY <1>1
    <2> QED
      BY <1>1, <2>2, <2>3
  <1>4. Bounded(p) = IF x \div y < 400 THEN 400 ELSE AtMostOf(4800, x \div y)
    BY DEF Bounded
  <1>5. Bounded(q) = IF u \div v < 400 THEN 400 ELSE AtMostOf(4800, u \div v)
    BY DEF Bounded
  <1> HIDE DEF x, y, u, v
  <1>6. u \div v <= x \div y
    BY <1>2, <1>3, QuotientsOrdered
  <1>7. x \div y \in Int /\ u \div v \in Int
    BY <1>2, Quotient
  <1> QED
    BY <1>4, <1>5, <1>6, <1>7 DEF AtMostOf

Share(w, total) == (w * RawMax + total \div 2) \div total

\* The share that a weight has of a total of them, rounded.
LEMMA ShareType ==
  ASSUME NEW w \in Nat, NEW total \in Nat, total > 0
  PROVE  Share(w, total) \in Int /\ 0 <= Share(w, total)
  <1> DEFINE whole == w * RawMax + total \div 2
  <1>1. whole \in Int /\ 0 <= whole
    BY SMT DEF RawMax
  <1> HIDE DEF whole
  <1> QED
    BY <1>1, Quotient, QuotientAtLeast DEF Share, whole

\* Four shares rounded to the nearest add up to the whole, give or take two.
LEMMA SharesAddUp ==
  ASSUME NEW a \in Int, NEW b \in Int, NEW c \in Int, NEW e \in Int,
         NEW total \in Nat, total = a + b + c + e, total >= 1600
  PROVE  /\ RawMax - 2 <= Share(a, total) + Share(b, total) + Share(c, total) + Share(e, total)
         /\ Share(a, total) + Share(b, total) + Share(c, total) + Share(e, total) <= RawMax + 2
  <1> DEFINE half == total \div 2
             pa == a * 80000
             pb == b * 80000
             pc == c * 80000
             pe == e * 80000
             all == total * 80000
             qa == (pa + half) \div total
             qb == (pb + half) \div total
             qc == (pc + half) \div total
             qe == (pe + half) \div total
             sum == qa + qb + qc + qe
  <1>1. half \in Int /\ 2 * half <= total /\ total <= 2 * half + 1 /\ total > 0
    BY SMT
  <1>2. /\ pa \in Int /\ pb \in Int /\ pc \in Int /\ pe \in Int /\ all \in Int
        /\ pa + pb + pc + pe = all
    BY SMT
  <1> HIDE DEF half, pa, pb, pc, pe, all
  <1>3. /\ qa \in Int /\ qa * total <= pa + half /\ pa + half < qa * total + total
        /\ qb \in Int /\ qb * total <= pb + half /\ pb + half < qb * total + total
        /\ qc \in Int /\ qc * total <= pc + half /\ pc + half < qc * total + total
        /\ qe \in Int /\ qe * total <= pe + half /\ pe + half < qe * total + total
    BY <1>1, <1>2, Quotient, SMT
  <1> HIDE DEF qa, qb, qc, qe
  <1>4. sum * total = qa * total + qb * total + qc * total + qe * total /\ sum \in Int
    BY <1>3, SMT
  <1> HIDE DEF sum
  <1>5. sum * total <= all + 2 * total
    BY <1>1, <1>2, <1>3, <1>4, SMT
  <1>6. all + 2 * total - 2 < sum * total + 4 * total
    BY <1>1, <1>2, <1>3, <1>4, SMT
  <1>7. sum * total < (80002 + 1) * total
    BY <1>1, <1>4, <1>5, SMT DEF all
  <1>8. sum < 80002 + 1
    BY <1>1, <1>4, <1>7, ProductCancels, SMT
  <1>9. (79998 - 1) * total < sum * total
    BY <1>1, <1>4, <1>6, SMT DEF all
  <1>10. 79998 - 1 < sum
    BY <1>1, <1>4, <1>9, ProductCancels, SMT
  <1>11. 79998 <= sum /\ sum <= 80002
    BY <1>4, <1>8, <1>10, SMT
  <1> QED
    BY <1>11, SMT DEF RawMax, Share, sum, qa, qb, qc, qe, pa, pb, pc, pe, half

\* The same, of four weights held in a function.
LEMMA SharesTotal ==
  ASSUME NEW f, f["gex"] \in Int, f["vix"] \in Int, f["crypto"] \in Int, f["darkpool"] \in Int,
         NEW total \in Nat, total = Total(f), total >= 1600
  PROVE  /\ RawMax - 2 <= Share(f["gex"], total) + Share(f["vix"], total)
                          + Share(f["crypto"], total) + Share(f["darkpool"], total)
         /\ Share(f["gex"], total) + Share(f["vix"], total)
            + Share(f["crypto"], total) + Share(f["darkpool"], total) <= RawMax + 2
  <1> DEFINE a == f["gex"]
             b == f["vix"]
             c == f["crypto"]
             e == f["darkpool"]
  <1>1. a \in Int /\ b \in Int /\ c \in Int /\ e \in Int /\ total = a + b + c + e
    BY DEF Total
  <1> HIDE DEF a, b, c, e
  <1>2. /\ RawMax - 2 <= Share(a, total) + Share(b, total) + Share(c, total) + Share(e, total)
        /\ Share(a, total) + Share(b, total) + Share(c, total) + Share(e, total) <= RawMax + 2
    BY <1>1, SharesAddUp
  <1> QED
    BY <1>2 DEF a, b, c, e

Posteriors ==
    /\ posteriors \in [Dims -> Counts]
    /\ \A d \in Dims : /\ posteriors[d].alpha >= Priors[d].alpha
                       /\ posteriors[d].beta >= Priors[d].beta

\* The four dimensions, by name.
LEMMA FourDims ==
  /\ "gex" \in Dims /\ "vix" \in Dims /\ "crypto" \in Dims /\ "darkpool" \in Dims
  /\ \A d \in Dims : d = "gex" \/ d = "vix" \/ d = "crypto" \/ d = "darkpool"
  BY DEF Dims, Registered

\* A prior has observed something.
LEMMA PriorsAbove ==
  ASSUME NEW d \in Dims
  PROVE  Priors[d] \in Counts /\ Priors[d].alpha > 0
  BY FourDims DEF Priors, Counts

\* The weights that any posteriors above their priors are worth.
LEMMA LearntFacts ==
  ASSUME Posteriors
  PROVE  /\ LearntWeights \in [Dims -> Nat]
         /\ Distance(Total(LearntWeights), RawMax) < 100
         /\ \A d, e \in Dims :
               posteriors[d].alpha * posteriors[e].beta >= posteriors[e].alpha * posteriors[d].beta
                  => LearntWeights[d] >= LearntWeights[e]
  <1> DEFINE bounded == [d \in Dims |-> Bounded(posteriors[d])]
             total == Total(bounded)
  <1>1. \A d \in Dims : posteriors[d] \in Counts /\ posteriors[d].alpha + posteriors[d].beta > 0
    <2> TAKE d \in Dims
    <2>1. posteriors[d] \in Counts /\ posteriors[d].alpha >= Priors[d].alpha
      BY DEF Posteriors
    <2>2. posteriors[d].alpha \in Nat /\ posteriors[d].beta \in Nat /\ Priors[d].alpha \in Nat
      BY <2>1, PriorsAbove DEF Counts
    <2> QED
      BY <2>1, <2>2, PriorsAbove
  <1>2. \A d \in Dims : bounded[d] = Bounded(posteriors[d])
    OBVIOUS
  <1> HIDE DEF bounded
  <1>3. \A d \in Dims : bounded[d] \in Int /\ 400 <= bounded[d] /\ bounded[d] <= 4800
    BY <1>1, <1>2, BoundedRange
  <1>4. total = bounded["gex"] + bounded["vix"] + bounded["crypto"] + bounded["darkpool"]
    BY DEF Total
  <1>5. LearntWeights = [d \in Dims |-> Share(bounded[d], total)]
    BY DEF LearntWeights, bounded, Share
  <1> HIDE DEF total
  <1>6. "gex" \in Dims /\ "vix" \in Dims /\ "crypto" \in Dims /\ "darkpool" \in Dims
    BY FourDims
  <1>7. total \in Nat /\ total >= 1600
    BY <1>3, <1>4, <1>6, SMT
  <1>9. \A d \in Dims : LearntWeights[d] = Share(bounded[d], total)
    BY <1>5
  <1>10. \A d \in Dims : LearntWeights[d] \in Int /\ 0 <= LearntWeights[d]
    <2> TAKE d \in Dims
    <2>1. bounded[d] \in Nat /\ total > 0
      BY <1>3, <1>7, SMT
    <2> QED
      BY <1>7, <1>9, <2>1, ShareType
  <1>11. LearntWeights \in [Dims -> Nat]
    <2>1. \A d \in Dims : LearntWeights[d] \in Nat
      BY <1>10, SMT
    <2> QED
      BY <1>5, <2>1
  <1>12. Distance(Total(LearntWeights), RawMax) < 100
    <2> DEFINE sum == Total(LearntWeights)
    <2>1. sum = Share(bounded["gex"], total) + Share(bounded["vix"], total)
                + Share(bounded["crypto"], total) + Share(bounded["darkpool"], total)
      BY <1>6, <1>9 DEF Total
    <2>2. sum \in Int
      BY <1>6, <1>10, SMT DEF Total
    <2> HIDE DEF sum
    <2>3. RawMax - 2 <= sum /\ sum <= RawMax + 2
      <3>1. /\ bounded["gex"] \in Int /\ bounded["vix"] \in Int
            /\ bounded["crypto"] \in Int /\ bounded["darkpool"] \in Int
        BY <1>3, <1>6
      <3>2. total = Total(bounded)
        BY DEF total
      <3> QED
        BY <1>7, <2>1, <3>1, <3>2, SharesTotal
    <2>4. Distance(sum, RawMax) < 100
      BY <2>2, <2>3, SMT DEF Distance, RawMax
    <2> QED
      BY <2>4 DEF sum
  <1>13. ASSUME NEW d \in Dims, NEW e \in Dims,
                posteriors[d].alpha * posteriors[e].beta >= posteriors[e].alpha * posteriors[d].beta
         PROVE  LearntWeights[d] >= LearntWeights[e]
    <2>1. bounded[e] <= bounded[d]
      BY <1>1, <1>2, <1>13, BoundedOrdered
    <2> DEFINE half == total \div 2
               high == bounded[d] * RawMax + half
               low == bounded[e] * RawMax + half
    <2>2. half \in Int
      BY <1>7, SMT
    <2>3. high \in Int /\ low \in Int /\ low <= high
      BY <1>3, <2>1, <2>2, SMT DEF RawMax
    <2>4. LearntWeights[d] = high \div total /\ LearntWeights[e] = low \div total
      BY <1>9, SMT DEF Share
    <2> HIDE DEF high, low
    <2>5. low * total <= high * total
      BY <1>7, <2>3, ProductGrows
    <2>6. low \div total <= high \div total
      BY <1>7, <2>3, <2>5, QuotientsOrdered
    <2> QED
      BY <2>4, <2>6, <1>10, SMT
  <1> QED
    BY <1>10, <1>11, <1>12, <1>13, SMT

\* What exceeds a prior shrinks, and never below it.
LEMMA DecayedType ==
  ASSUME NEW p \in Nat, NEW prior \in Nat, p >= prior
  PROVE  Decayed(p, prior) \in Nat /\ Decayed(p, prior) >= prior
  <1>1. (95 * (p - prior)) \div 100 \in Int
    BY Quotient
  <1>2. 0 <= (95 * (p - prior)) \div 100
    BY QuotientAtLeast
  <1> QED
    BY <1>1, <1>2 DEF Decayed

\* A part of the batch is finite, and what it weighs is a number.
LEMMA EvidenceType ==
  ASSUME NEW batch \in Seq(Outcomes), NEW d, NEW is \in SUBSET DOMAIN batch
  PROVE  Evidence(batch, d, is) \in Nat
  <1>1. DOMAIN batch = 1..Len(batch) /\ Len(batch) \in Nat
    OBVIOUS
  <1>2. IsFiniteSet(is)
    <2>1. IsFiniteSet(1..Len(batch)) /\ is \subseteq 1..Len(batch)
      BY <1>1, FS_Interval
    <2> QED
      BY <2>1, FS_Subset
  <1>3. ASSUME NEW s \in SUBSET is PROVE Cardinality(s) \in Nat
    BY <1>2, FS_Subset, FS_CardinalityType
  <1> DEFINE from(score) == {i \in is : batch[i].score[d] >= score}
  <1>4. Cardinality(is) \in Nat /\ Cardinality(from(50)) \in Nat /\ Cardinality(from(75)) \in Nat
    BY <1>3
  <1>5. Evidence(batch, d, is)
          = 100 * Cardinality(is) + 50 * Cardinality(from(50)) + 50 * Cardinality(from(75))
    BY DEF Evidence
  <1> HIDE DEF from
  <1> QED
    BY <1>4, <1>5

\* An evaluation leaves every posterior at or above its prior.
LEMMA UpdateKeepsPosteriors ==
  ASSUME Posteriors, NEW batch \in Seq(Outcomes), Update(batch)
  PROVE  Posteriors'
  <1> DEFINE agreeing(d) == Agreeing(batch, d)
             others(d) == DOMAIN batch \ Agreeing(batch, d)
             next(d) == [alpha |-> Decayed(posteriors[d].alpha, Priors[d].alpha)
                                   + Evidence(batch, d, agreeing(d)),
                         beta  |-> Decayed(posteriors[d].beta, Priors[d].beta)
                                   + Evidence(batch, d, others(d))]
  <1>1. posteriors' = [d \in Dims |-> next(d)]
    BY DEF Update
  <1>2. ASSUME NEW d \in Dims
        PROVE  /\ next(d) \in Counts
               /\ next(d).alpha >= Priors[d].alpha /\ next(d).beta >= Priors[d].beta
    <2>1. /\ posteriors[d].alpha \in Nat /\ posteriors[d].beta \in Nat
          /\ posteriors[d].alpha >= Priors[d].alpha /\ posteriors[d].beta >= Priors[d].beta
      BY DEF Posteriors, Counts
    <2>2. Priors[d].alpha \in Nat /\ Priors[d].beta \in Nat
      BY PriorsAbove DEF Counts
    <2>3. agreeing(d) \in SUBSET DOMAIN batch /\ others(d) \in SUBSET DOMAIN batch
      BY DEF Agreeing
    <2>4. Evidence(batch, d, agreeing(d)) \in Nat /\ Evidence(batch, d, others(d)) \in Nat
      BY <2>3, EvidenceType
    <2>5. /\ Decayed(posteriors[d].alpha, Priors[d].alpha) \in Nat
          /\ Decayed(posteriors[d].alpha, Priors[d].alpha) >= Priors[d].alpha
          /\ Decayed(posteriors[d].beta, Priors[d].beta) \in Nat
          /\ Decayed(posteriors[d].beta, Priors[d].beta) >= Priors[d].beta
      BY <2>1, <2>2, DecayedType
    <2> HIDE DEF agreeing, others
    <2> QED
      BY <2>2, <2>4, <2>5 DEF Counts
  <1> HIDE DEF next
  <1>3. /\ posteriors' \in [Dims -> Counts]
        /\ \A d \in Dims : posteriors'[d] = next(d)
    BY <1>1, <1>2
  <1> QED
    BY <1>2, <1>3 DEF Posteriors

-----------------------------------------------------------------------------
(* The score                                                               *)

\* The dimensions above the bar are finitely many.
LEMMA StrongType ==
  ASSUME NEW scores
  PROVE  IsFiniteSet(Strong(scores)) /\ Cardinality(Strong(scores)) \in Nat
  <1>1. IsFiniteSet(Dims)
    <2>1. \A x : IsFiniteSet({x})
      BY FS_Singleton
    <2>2. \A x, y : IsFiniteSet({x} \cup {y})
      BY <2>1, FS_Union
    <2>3. IsFiniteSet(({"gex"} \cup {"vix"}) \cup ({"crypto"} \cup {"darkpool"}))
      BY <2>2, FS_Union
    <2>4. Dims = ({"gex"} \cup {"vix"}) \cup ({"crypto"} \cup {"darkpool"})
      BY DEF Dims, Registered
    <2> QED
      BY <2>3, <2>4
  <1>2. Strong(scores) \subseteq Dims
    BY DEF Strong
  <1> QED
    BY <1>1, <1>2, FS_Subset, FS_CardinalityType

\* A score within 0 and 100.
LEMMA ClampedType ==
  ASSUME NEW s \in Int
  PROVE  ClampedScore(s) \in Int /\ ClampedScore(s) >= 0 /\ ClampedScore(s) <= 10000
  BY SMT DEF ClampedScore, AtMostOf

\* Any scores and any weights that are not negative make a score of 0 to 100.
LEMMA ResonanceRange ==
  ASSUME NEW scores \in [Dims -> Int], NEW weights \in [Dims -> Nat]
  PROVE  /\ Resonance(scores, weights) \in Int
         /\ 0 <= Resonance(scores, weights)
         /\ Resonance(scores, weights) <= 1000000
  <1> DEFINE shares == [d \in Dims |-> ClampedScore(scores[d]) * weights[d]]
             total == Total(shares)
  <1>1. \A d \in Dims : shares[d] \in Nat
    <2> TAKE d \in Dims
    <2>1. ClampedScore(scores[d]) \in Int /\ ClampedScore(scores[d]) >= 0
      BY ClampedType
    <2>2. ClampedScore(scores[d]) \in Nat /\ weights[d] \in Nat
      BY <2>1
    <2> QED
      BY <2>2
  <1> HIDE DEF shares
  <1>2. total \in Nat
    BY <1>1, FourDims DEF Total
  <1> HIDE DEF total
  <1>3. total \div 800 \in Int /\ 0 <= total \div 800
    BY <1>2, Quotient, QuotientAtLeast
  <1>4. Bonus(scores) \in Int /\ 0 <= Bonus(scores)
    BY StrongType DEF Bonus, If, Point
  <1>5. Resonance(scores, weights) = AtMostOf(100 * Point, total \div 800 + Bonus(scores))
    BY DEF Resonance, total, shares
  <1> QED
    BY <1>3, <1>4, <1>5, SMT DEF AtMostOf, Point

\* Scores that are all at least as high are worth at least as much.
LEMMA ResonanceGrows ==
  ASSUME NEW low \in [Dims -> Int], NEW high \in [Dims -> Int], NEW weights \in [Dims -> Nat],
         \A d \in Dims : low[d] <= high[d]
  PROVE  Resonance(low, weights) <= Resonance(high, weights)
  <1> DEFINE ls == [d \in Dims |-> ClampedScore(low[d]) * weights[d]]
             hs == [d \in Dims |-> ClampedScore(high[d]) * weights[d]]
             lt == Total(ls)
             ht == Total(hs)
  <1>1. \A d \in Dims : ls[d] \in Int /\ hs[d] \in Int /\ ls[d] <= hs[d]
    <2> TAKE d \in Dims
    <2>1. ClampedScore(low[d]) \in Int /\ ClampedScore(high[d]) \in Int
      BY ClampedType
    <2>2. low[d] \in Int /\ high[d] \in Int /\ low[d] <= high[d] /\ weights[d] \in Nat
      OBVIOUS
    <2>3. ClampedScore(low[d]) <= ClampedScore(high[d])
      BY <2>2, SMT DEF ClampedScore, AtMostOf
    <2>4. ClampedScore(low[d]) * weights[d] <= ClampedScore(high[d]) * weights[d]
      BY <2>1, <2>2, <2>3, ProductGrows
    <2> QED
      BY <2>1, <2>2, <2>4
  <1>2. /\ Resonance(low, weights) = AtMostOf(100 * Point, lt \div 800 + Bonus(low))
        /\ Resonance(high, weights) = AtMostOf(100 * Point, ht \div 800 + Bonus(high))
    BY DEF Resonance
  <1> HIDE DEF ls, hs
  <1>3. lt \in Int /\ ht \in Int /\ lt <= ht
    BY <1>1, FourDims DEF Total
  <1> HIDE DEF lt, ht
  <1>4. lt \div 800 <= ht \div 800 /\ lt \div 800 \in Int /\ ht \div 800 \in Int
    BY <1>3, Quotient, QuotientsOrdered
  <1>5. Bonus(low) \in Int /\ Bonus(high) \in Int /\ Bonus(low) <= Bonus(high)
    <2>1. Strong(low) \subseteq Strong(high)
      BY DEF Strong
    <2>2. Cardinality(Strong(low)) <= Cardinality(Strong(high))
      BY <2>1, StrongType, FS_Subset
    <2> QED
      BY <2>2, StrongType DEF Bonus, If, Point
  <1> QED
    BY <1>2, <1>4, <1>5, SMT DEF AtMostOf, Point

-----------------------------------------------------------------------------
(* The VIX                                                                 *)

\* The verdict on a whole number of points.
LEMMA WholePoints ==
  ASSUME NEW k \in Nat, k <= 100
  PROVE  /\ Verdict(Point * k).score = 100 * k
         /\ k < 50 => Verdict(Point * k).level \in {"LEVEL_0", "LEVEL_1"}
  <1>1. Clamp(Point * k) = 10000 * k
    BY SMT DEF Clamp, AtMostOf, Point
  <1>2. Rounded(10000 * k) = 100 * k
    BY SMT DEF Rounded
  <1>3. k < 50 => Level(10000 * k) \in {"LEVEL_0", "LEVEL_1"}
    BY SMT DEF Level, Point
  <1>4. /\ Verdict(Point * k).score = Rounded(Clamp(Point * k))
        /\ Verdict(Point * k).level = Level(Clamp(Point * k))
    BY DEF Verdict
  <1> QED
    BY <1>1, <1>2, <1>3, <1>4

\* What the spot price alone is worth: it is low, high or neither.
SpotPoints(spot) == Below(spot, {<<1300, 10>>, <<1800, 5>>}) + Above(spot, {<<3500, 25>>})

\* It cannot be low and high at once.
LEMMA SpotRange ==
  ASSUME NEW spot \in Nat
  PROVE  SpotPoints(spot) \in Nat /\ SpotPoints(spot) <= 25
  <1> DEFINE below == Below(spot, {<<1300, 10>>, <<1800, 5>>})
             above == Above(spot, {<<3500, 25>>})
  <1>1. below \in Nat /\ (below # 0 => spot < 1800 /\ below <= 10)
    <2> DEFINE bands == {<<1300, 10>>, <<1800, 5>>}
    <2>1. \A b \in bands : /\ Threshold(b[1]) /\ b[2] \in Nat
                           /\ b[2] <= 10 /\ b[1] <= 1800
      BY DEF Threshold
    <2>2. below = Below(spot, bands)
      OBVIOUS
    <2> HIDE DEF bands, below
    <2>3. below \in Nat /\ (below # 0 => \E b \in bands : spot < b[1] /\ below = b[2])
      BY <2>1, <2>2, BelowValue
    <2>4. \A b \in bands : b[1] \in Int
      BY <2>1 DEF Threshold
    <2> QED
      BY <2>1, <2>3, <2>4
  <1>2. above \in Nat /\ (above # 0 => spot > 3500 /\ above <= 25)
    <2> DEFINE bands == {<<3500, 25>>}
    <2>1. \A b \in bands : Threshold(b[1]) /\ b[2] = 25 /\ b[1] = 3500
      BY DEF Threshold
    <2>2. above = Above(spot, bands)
      OBVIOUS
    <2> HIDE DEF bands, above
    <2>3. above \in Nat /\ (above # 0 => \E b \in bands : spot > b[1] /\ above = b[2])
      BY <2>1, <2>2, AboveValue
    <2> QED
      BY <2>1, <2>3
  <1> HIDE DEF below, above
  <1>3. SpotPoints(spot) = below + above
    BY DEF SpotPoints, below, above
  <1> QED
    BY <1>1, <1>2, <1>3

\* A contango scores by how steep it is, and by the spot price.
LEMMA ContangoScore ==
  ASSUME NEW spot \in Nat, NEW vx3 \in Nat, NEW d, d = VixPayload(spot, vx3),
         d.state = "contango"
  PROVE  /\ d.spot = spot /\ d.ratio \in Int /\ vx3 > spot
         /\ VixRaw(d) = Point * ((IF d.ratio <= 500 THEN 50 ELSE IF d.ratio <= 1000 THEN 30 ELSE 10)
                                 + 10 + SpotPoints(spot))
  <1> DEFINE rise == IF spot = 0 THEN 0 ELSE vx3 - spot
  <1>1. rise \in Int
    OBVIOUS
  <1>2. /\ d.spot = spot /\ d.premium = spot - vx3
        /\ d.ratio = IF spot = 0 THEN 0 ELSE (10000 * rise + spot \div 2) \div spot
        /\ d.state = IF 50 * rise > spot THEN "contango"
                     ELSE IF 50 * rise < -spot THEN "backwardation" ELSE "flat"
    BY DEF VixPayload
  <1>3. spot # 0 /\ vx3 > spot
    <2>1. 50 * rise > spot
      BY <1>1, <1>2
    <2> QED
      BY <2>1
  <1>4. d.ratio \in Int
    <2>1. 10000 * rise + spot \div 2 \in Int
      BY <1>1, Quotient
    <2> HIDE DEF rise
    <2> QED
      BY <1>2, <1>3, <2>1, Quotient
  <1> HIDE DEF rise
  <1>5. d.ratio # None /\ d.premium # None /\ d.premium <= 0
    BY <1>2, <1>3, <1>4, NoneAssumption
  <1>6. PremiumPoints(d.premium) = 10
    BY <1>5 DEF PremiumPoints, Known
  <1>7. TermPoints(d) = IF d.ratio <= 500 THEN 50 ELSE IF d.ratio <= 1000 THEN 30 ELSE 10
    BY <1>5 DEF TermPoints, Known
  <1>8. VixRaw(d) = Point * (TermPoints(d) + PremiumPoints(d.premium)
                             + Below(d.spot, {<<1300, 10>>, <<1800, 5>>})
                             + Above(d.spot, {<<3500, 25>>}))
    BY DEF VixRaw
  <1>9. /\ Below(spot, {<<1300, 10>>, <<1800, 5>>}) \in Nat
        /\ Above(spot, {<<3500, 25>>}) \in Nat
    BY AboveValue, BelowValue DEF Threshold
  <1> QED
    BY <1>2, <1>3, <1>4, <1>6, <1>7, <1>8, <1>9 DEF SpotPoints

\* A contango that has just been entered is one, and is not steep.
LEMMA EnteredContango ==
  ASSUME NEW spot \in Nat, NEW vx3 \in (spot + spot \div 50 + 1)..(spot + spot \div 20)
  PROVE  /\ vx3 \in Nat
         /\ VixPayload(spot, vx3).state = "contango"
         /\ VixPayload(spot, vx3).ratio <= 500
  <1> DEFINE rise == vx3 - spot
             half == spot \div 2
  <1>1. vx3 \in Nat /\ rise \in Nat /\ 50 * rise > spot /\ 20 * rise <= spot
    BY SMT
  <1>2. spot > 0
    BY <1>1
  <1>3. half \in Int /\ 2 * half <= spot
    BY SMT
  <1>4. /\ VixPayload(spot, vx3).ratio = (10000 * rise + half) \div spot
        /\ VixPayload(spot, vx3).state = IF 50 * rise > spot THEN "contango"
                     ELSE IF 50 * rise < -spot THEN "backwardation" ELSE "flat"
    BY <1>2 DEF VixPayload
  <1> HIDE DEF rise, half
  <1>5. 10000 * rise + half \in Int /\ 10000 * rise + half < (500 + 1) * spot
    BY <1>1, <1>2, <1>3
  <1>6. (10000 * rise + half) \div spot <= 500
    BY <1>2, <1>5, QuotientAtMost
  <1> QED
    BY <1>1, <1>4, <1>6

\* What the fetcher builds from two prices is data of the analyzer.
LEMMA VixPayloadType ==
  ASSUME NEW spot \in Nat, NEW vx3 \in Nat
  PROVE  VixPayload(spot, vx3) \in VixData
  <1> DEFINE rise == IF spot = 0 THEN 0 ELSE vx3 - spot
             sum == 10000 * rise + spot \div 2
             ratio == IF spot = 0 THEN 0 ELSE sum \div spot
             shape == IF 50 * rise > spot THEN "contango"
                      ELSE IF 50 * rise < -spot THEN "backwardation" ELSE "flat"
  <1>1. rise \in Int /\ spot \div 2 \in Int
    BY Quotient
  <1>2. sum \in Int
    BY <1>1
  <1>3. shape \in {"contango", "flat", "backwardation"}
    OBVIOUS
  <1>4. VixPayload(spot, vx3) = [spot |-> spot, vx1 |-> vx3, vx2 |-> vx3, ratio |-> ratio,
                                 state |-> shape, premium |-> spot - vx3]
    BY DEF VixPayload
  <1> HIDE DEF sum, shape
  <1>5. ratio \in Int
    BY <1>2, Quotient
  <1> HIDE DEF ratio
  <1>6. spot - vx3 \in Int
    OBVIOUS
  <1> QED
    BY <1>3, <1>4, <1>5, <1>6 DEF VixData, Maybe

\* A payload of the fetcher in a steep contango, and one beside it.
LEMMA CalmPayload ==
  ASSUME NEW spot \in Nat, NEW vx3 \in Nat, NEW d, d = VixPayload(spot, vx3), d # None,
         d.state = "contango", d.ratio > 1000
  PROVE  /\ Analyze("vix", d).level \in {"LEVEL_0", "LEVEL_1"}
         /\ \A near \in (spot + spot \div 50 + 1)..(spot + spot \div 20) :
               Analyze("vix", VixPayload(spot, near)).score > Analyze("vix", d).score
  <1> DEFINE k == 20 + SpotPoints(spot)
  <1>1. k \in Nat /\ k <= 45
    BY SpotRange
  <1>2. \A e : e # None => Analyze("vix", e) = Verdict(VixRaw(e))
    BY DEF Analyze, RawScore
  <1>3. Analyze("vix", d) = Verdict(Point * k)
    <2>1. VixRaw(d) = Point * (10 + 10 + SpotPoints(spot))
      BY ContangoScore
    <2>2. SpotPoints(spot) \in Nat
      BY SpotRange
    <2>3. VixRaw(d) = Point * k
      BY <2>1, <2>2
    <2> QED
      BY <1>2, <2>3
  <1>4. /\ Analyze("vix", d).score = 100 * k
        /\ Analyze("vix", d).level \in {"LEVEL_0", "LEVEL_1"}
    BY <1>1, <1>3, WholePoints
  <1>5. ASSUME NEW near \in (spot + spot \div 50 + 1)..(spot + spot \div 20)
        PROVE  Analyze("vix", VixPayload(spot, near)).score > Analyze("vix", d).score
    <2> DEFINE e == VixPayload(spot, near)
    <2>1. near \in Nat /\ e.state = "contango" /\ e.ratio <= 500
      BY EnteredContango
    <2>2. VixRaw(e) = Point * (50 + 10 + SpotPoints(spot))
      BY <2>1, ContangoScore
    <2>3. VixRaw(e) = Point * (k + 40) /\ k + 40 \in Nat /\ k + 40 <= 100
      BY <1>1, <2>2, SpotRange
    <2>4. e # None
      BY <2>1, VixPayloadType, NoneAssumption DEF Data, Exported, Registered
    <2>5. Analyze("vix", e) = Verdict(Point * (k + 40))
      BY <1>2, <2>3, <2>4
    <2> HIDE DEF e, k
    <2>6. Analyze("vix", e).score = 100 * (k + 40)
      BY <2>3, <2>5, WholePoints
    <2> QED
      BY <1>1, <1>4, <2>6 DEF e
  <1> QED
    BY <1>4, <1>5

-----------------------------------------------------------------------------
(* The invariant                                                           *)

\* What a caller holds is what the analyzer makes of its payload.
Reported ==
    report # None =>
      /\ report.analyzer \in Exported
      /\ report.payload \in Payloads[report.analyzer] \cup {None}
      /\ report.result = Analyze(report.analyzer, report.payload)

IInv == TypeOK /\ LevelsAgree /\ Posteriors /\ Reported

\* The weights of a cycle, learnt or not.
LEMMA CurrentType ==
  ASSUME Posteriors
  PROVE  /\ CurrentWeights \in [Dims -> Nat]
         /\ updates > 0 => CurrentWeights = LearntWeights
  <1>1. DefaultWeights \in [Dims -> Nat]
    BY DEF DefaultWeights, Dims, Registered
  <1>2. LearntWeights \in [Dims -> Nat] /\ Distance(Total(LearntWeights), RawMax) < 100
    BY LearntFacts
  <1> QED
    BY <1>1, <1>2 DEF CurrentWeights

\* A score of nothing.
LEMMA DefaultFacts ==
  DefaultResult \in Results /\ Agree(DefaultResult.score, DefaultResult.level)
  <1>1. Level(100 * 0) = "LEVEL_0" /\ 0 \in Scores
    BY SMT DEF Level, Point, Scores
  <1> QED
    BY <1>1 DEF DefaultResult, Results, Levels, Agree

\* What phase 3 finds when phase 2 found nothing.
LEMMA NoResultsFacts ==
  /\ NoResults \in [Dims -> Results]
  /\ \A d \in Dims : Agree(NoResults[d].score, NoResults[d].level)
  BY DefaultFacts DEF NoResults

\* A score is a number.
LEMMA ScoresType == ASSUME NEW n \in Scores PROVE n \in Int
  BY SMT DEF Scores

\* The alert raised for a total is that of the level published with it, unless
\* rounding has lifted the total.
LEMMA AlertFacts ==
  ASSUME NEW total \in Scores, NEW level, Agree(total, level)
  PROVE  /\ AlertLevel(total) \in (Levels \ {"LEVEL_0"}) \cup {"NONE"}
         /\ \/ AlertLevel(total) = IF level = "LEVEL_0" THEN "NONE" ELSE level
            \/ LiftedByRounding(total, level)
  <1>1. total \in Int
    BY ScoresType
  <1>2. /\ total >= 7500 => Level(100 * total) = "LEVEL_3"
        /\ total >= 5000 /\ total < 7500 => Level(100 * total) = "LEVEL_2"
        /\ total >= 2500 /\ total < 5000 => Level(100 * total) = "LEVEL_1"
        /\ total < 2500 => Level(100 * total) = "LEVEL_0"
    BY <1>1, SMT DEF Level, Point
  <1>3. AlertLevel(total) = IF Level(100 * total) = "LEVEL_0" THEN "NONE" ELSE Level(100 * total)
    BY <1>1, <1>2, SMT DEF AlertLevel
  <1>4. Level(100 * total) \in Levels
    BY DEF Level, Levels
  <1> QED
    BY <1>3, <1>4 DEF Agree

\* No result, no update, the posteriors at their priors.
LEMMA InitIInv == ASSUME ScoringAssumption, Init PROVE IInv
  <1>1. results \in [Dims -> Results] /\ \A d \in Dims : Agree(results[d].score, results[d].level)
    BY NoResultsFacts DEF Init
  <1>2. Posteriors
    <2>1. \A d \in Dims : /\ Priors[d] \in Counts
                          /\ Priors[d].alpha >= Priors[d].alpha /\ Priors[d].beta >= Priors[d].beta
      BY PriorsAbove DEF Counts
    <2>2. Priors \in [Dims -> Counts]
      BY <2>1 DEF Priors, Dims, Registered
    <2> QED
      BY <2>1, <2>2 DEF Init, Posteriors
  <1>3. /\ phase = "idle" /\ scoring = None /\ updates = 0 /\ report = None
        /\ updates \in 0..MaxUpdates
    BY DEF Init, ScoringAssumption
  <1> QED
    BY <1>1, <1>2, <1>3 DEF IInv, TypeOK, LevelsAgree, Reported, Posteriors

\* Phase 2.
LEMMA AnalyseStep == ASSUME ScoringAssumption, IInv, Analyse PROVE IInv'
  <1> USE DEF IInv
  <1>1. PICK gex \in Sampled["gex"] \cup {None}, vix \in Sampled["vix"] \cup {None},
             crypto \in Sampled["crypto"] \cup {None},
             darkpool \in Sampled["darkpool"] \cup {None} :
          results' = [gex      |-> Analyze("gex", gex),
                      vix      |-> Analyze("vix", vix),
                      crypto   |-> Analyze("crypto", crypto),
                      darkpool |-> Analyze("darkpool", darkpool)]
    BY DEF Analyse
  <1>2. phase' = "analysed" /\ UNCHANGED <<scoring, posteriors, updates, report>>
    BY DEF Analyse
  <1>3. \A a \in Dims : a \in Exported /\ Sampled[a] \subseteq Data[a]
    BY DEF ScoringAssumption, Dims, Exported
  <1>4. \A a \in Dims : \A d : d \in Sampled[a] \cup {None} =>
           /\ Analyze(a, d) \in Results
           /\ Agree(Analyze(a, d).score, Analyze(a, d).level)
    BY <1>3, AnalyzeFacts
  <1>5. \A a \in Dims : results'[a] \in Results /\ Agree(results'[a].score, results'[a].level)
    BY <1>1, <1>4, FourDims
  <1>6. results' \in [Dims -> Results]
    BY <1>1, <1>4, FourDims DEF Dims, Registered
  <1>7. TypeOK'
    BY <1>2, <1>6 DEF TypeOK
  <1>8. LevelsAgree'
    BY <1>2, <1>5 DEF LevelsAgree
  <1>9. Posteriors' /\ Reported'
    BY <1>2 DEF Posteriors, Reported
  <1> QED
    BY <1>7, <1>8, <1>9

\* Phase 3.
LEMMA ScoreStep == ASSUME ScoringAssumption, IInv, Score PROVE IInv'
  <1> DEFINE raw == Resonance(DimScores, CurrentWeights)
  <1>1. DimScores \in [Dims -> Int]
    <2>1. \A d \in Dims : results[d].score \in Scores
      BY DEF IInv, TypeOK, Results
    <2> QED
      BY <2>1, ScoresType DEF DimScores
  <1>2. CurrentWeights \in [Dims -> Nat]
    BY CurrentType DEF IInv
  <1>3. scoring' = [total |-> Rounded(raw), level |-> Level(raw),
                    alert |-> AlertLevel(Rounded(raw))]
    BY DEF Score
  <1>4. phase' = "scored" /\ UNCHANGED <<results, posteriors, updates, report>>
    BY DEF Score
  <1>5. raw \in Int /\ 0 <= raw /\ raw <= 1000000
    BY <1>1, <1>2, ResonanceRange, SMT
  <1> HIDE DEF raw
  <1>6. Rounded(raw) \in Scores /\ Level(raw) \in Levels /\ Agree(Rounded(raw), Level(raw))
    BY <1>5, RoundedAgrees, SMT
  <1> DEFINE total == Rounded(raw)
             level == Level(raw)
  <1> HIDE DEF total, level
  <1>7. total \in Scores /\ level \in Levels /\ Agree(total, level)
    BY <1>6, Zenon DEF total, level
  <1>8. /\ AlertLevel(total) \in (Levels \ {"LEVEL_0"}) \cup {"NONE"}
        /\ \/ AlertLevel(total) = IF level = "LEVEL_0" THEN "NONE" ELSE level
           \/ LiftedByRounding(total, level)
    BY <1>7, AlertFacts
  <1>9. scoring' = [total |-> total, level |-> level, alert |-> AlertLevel(total)]
    BY <1>3, Zenon DEF total, level
  <1>10. TypeOK'
    BY <1>4, <1>7, <1>8, <1>9 DEF IInv, TypeOK
  <1>11. LevelsAgree'
    BY <1>4, <1>7, <1>8, <1>9 DEF IInv, LevelsAgree
  <1>12. Posteriors' /\ Reported'
    BY <1>4 DEF IInv, Posteriors, Reported
  <1> QED
    BY <1>10, <1>11, <1>12 DEF IInv

\* An evaluation, whoever asks for it.
LEMMA UpdateStep ==
  ASSUME ScoringAssumption, IInv, NEW batch \in Batches, Update(batch)
  PROVE  Posteriors' /\ updates' \in 0..MaxUpdates
  <1>1. batch \in Seq(Outcomes)
    BY DEF ScoringAssumption
  <1>2. Posteriors'
    BY <1>1, UpdateKeepsPosteriors DEF IInv
  <1>3. /\ updates \in 0..MaxUpdates /\ updates < MaxUpdates /\ MaxUpdates \in Nat
        /\ updates' = updates + 1
    BY DEF IInv, TypeOK, Update, ScoringAssumption
  <1> QED
    BY <1>2, <1>3

\* The end of a cycle.
LEMMA CycleLearnsStep == ASSUME ScoringAssumption, IInv, CycleLearns PROVE IInv'
  <1>1. phase' = "idle" /\ results' = NoResults /\ scoring' = None /\ UNCHANGED report
    BY DEF CycleLearns
  <1>2. Posteriors' /\ updates' \in 0..MaxUpdates
    <2>1. CASE \E batch \in Batches : Update(batch)
      BY <2>1, UpdateStep
    <2>2. CASE UNCHANGED <<posteriors, updates>>
      BY <2>2 DEF IInv, TypeOK, Posteriors
    <2> QED
      BY <2>1, <2>2 DEF CycleLearns
  <1>3. TypeOK'
    BY <1>1, <1>2, NoResultsFacts DEF IInv, TypeOK, Posteriors
  <1>4. LevelsAgree' /\ Reported'
    BY <1>1, NoResultsFacts DEF IInv, LevelsAgree, Reported
  <1> QED
    BY <1>2, <1>3, <1>4 DEF IInv

\* The daily job.
LEMMA JobLearnsStep == ASSUME ScoringAssumption, IInv, JobLearns PROVE IInv'
  <1>1. UNCHANGED <<phase, results, scoring, report>>
    BY DEF JobLearns
  <1>2. Posteriors' /\ updates' \in 0..MaxUpdates
    BY UpdateStep DEF JobLearns
  <1>3. TypeOK'
    BY <1>1, <1>2 DEF IInv, TypeOK, Posteriors
  <1>4. LevelsAgree' /\ Reported'
    BY <1>1 DEF IInv, LevelsAgree, Reported
  <1> QED
    BY <1>2, <1>3, <1>4 DEF IInv

\* A reset.
LEMMA ResetStep == ASSUME ScoringAssumption, IInv, Reset PROVE IInv'
  <1>1. UNCHANGED <<phase, results, scoring, report>> /\ posteriors' = Priors /\ updates' = 0
    BY DEF Reset
  <1>2. Posteriors'
    <2>1. \A d \in Dims : /\ Priors[d] \in Counts
                          /\ Priors[d].alpha >= Priors[d].alpha /\ Priors[d].beta >= Priors[d].beta
      BY PriorsAbove DEF Counts
    <2>2. Priors \in [Dims -> Counts]
      BY <2>1 DEF Priors, Dims, Registered
    <2> QED
      BY <1>1, <2>1, <2>2 DEF Posteriors
  <1>3. updates' \in 0..MaxUpdates
    BY <1>1 DEF ScoringAssumption
  <1>4. TypeOK'
    BY <1>1, <1>2, <1>3 DEF IInv, TypeOK, Posteriors
  <1>5. LevelsAgree' /\ Reported'
    BY <1>1 DEF IInv, LevelsAgree, Reported
  <1> QED
    BY <1>2, <1>4, <1>5 DEF IInv

\* A call of an analyzer by itself.
LEMMA CallStep == ASSUME ScoringAssumption, IInv, NEW a \in Exported, Call(a) PROVE IInv'
  <1>1. PICK d \in Payloads[a] \cup {None} :
           report' = [analyzer |-> a, payload |-> d, result |-> Analyze(a, d)]
    BY DEF Call
  <1>2. UNCHANGED <<phase, results, scoring, posteriors, updates>>
    BY DEF Call
  <1>3. Analyze(a, d) \in Results /\ Agree(Analyze(a, d).score, Analyze(a, d).level)
    BY AnalyzeFacts DEF ScoringAssumption
  <1>4. TypeOK'
    BY <1>1, <1>2, <1>3 DEF IInv, TypeOK
  <1>5. LevelsAgree'
    BY <1>1, <1>2, <1>3 DEF IInv, LevelsAgree
  <1>6. Posteriors' /\ Reported'
    BY <1>1, <1>2 DEF IInv, Posteriors, Reported
  <1> QED
    BY <1>4, <1>5, <1>6 DEF IInv

\* The caller drops what it got.
LEMMA ReturnStep == ASSUME ScoringAssumption, IInv, Return PROVE IInv'
  BY DEF IInv, TypeOK, LevelsAgree, Posteriors, Reported, Return

\* Every step keeps the invariant.
THEOREM Invariant == Spec => []IInv
  <1>1. Init => IInv
    BY InitIInv, ScoringAssumption
  <1>2. IInv /\ [Next]_vars => IInv'
    <2> SUFFICES ASSUME IInv, [Next]_vars PROVE IInv'
      OBVIOUS
    <2>1. CASE Analyse                        BY <2>1, AnalyseStep, ScoringAssumption
    <2>2. CASE Score                          BY <2>2, ScoreStep, ScoringAssumption
    <2>3. CASE CycleLearns                    BY <2>3, CycleLearnsStep, ScoringAssumption
    <2>4. CASE JobLearns                      BY <2>4, JobLearnsStep, ScoringAssumption
    <2>5. CASE Reset                          BY <2>5, ResetStep, ScoringAssumption
    <2>6. CASE \E a \in Exported : Call(a)    BY <2>6, CallStep, ScoringAssumption
    <2>7. CASE Return                         BY <2>7, ReturnStep, ScoringAssumption
    <2>8. CASE UNCHANGED vars
      BY <2>8 DEF IInv, TypeOK, LevelsAgree, Posteriors, Reported, vars
    <2> QED
      BY <2>1, <2>2, <2>3, <2>4, <2>5, <2>6, <2>7, <2>8 DEF Next
  <1> QED
    BY <1>1, <1>2, PTL DEF Spec

-----------------------------------------------------------------------------
(* What the invariant says of the scores                                   *)

\* Rounding keeps the order of two scores.
LEMMA RoundedOrdered ==
  ASSUME NEW a \in Int, NEW b \in Int, a <= b
  PROVE  Rounded(a) <= Rounded(b)
  BY SMT DEF Rounded

\* A score that rises raises the total, or leaves it.
LEMMA InvMoreNeverLowers == IInv => MoreNeverLowers
  <1> SUFFICES ASSUME IInv PROVE MoreNeverLowers
    OBVIOUS
  <1>1. DimScores \in [Dims -> Int]
    <2>1. \A d \in Dims : results[d].score \in Scores
      BY DEF IInv, TypeOK, Results
    <2> QED
      BY <2>1, ScoresType DEF DimScores
  <1>2. \A s \in Probes : s \in Int
    BY <1>1 DEF Probes
  <1>3. CurrentWeights \in [Dims -> Nat]
    BY CurrentType DEF IInv
  <1>4. ASSUME NEW low \in [Dims -> Int], NEW high \in [Dims -> Int],
               \A e \in Dims : low[e] <= high[e]
        PROVE  TotalOf(low) <= TotalOf(high)
    <2>1. Resonance(low, CurrentWeights) <= Resonance(high, CurrentWeights)
      BY <1>3, <1>4, ResonanceGrows
    <2>2. Resonance(low, CurrentWeights) \in Int /\ Resonance(high, CurrentWeights) \in Int
      BY <1>3, ResonanceRange
    <2> QED
      BY <2>1, <2>2, RoundedOrdered DEF TotalOf
  <1>5. ASSUME NEW d \in Dims, NEW s \in Probes
        PROVE  /\ s >= DimScores[d] => TotalOf([DimScores EXCEPT ![d] = s]) >= TotalOf(DimScores)
               /\ s <= DimScores[d] => TotalOf([DimScores EXCEPT ![d] = s]) <= TotalOf(DimScores)
    <2> DEFINE moved == [DimScores EXCEPT ![d] = s]
    <2>1. /\ moved \in [Dims -> Int] /\ moved[d] = s
          /\ \A e \in Dims : e # d => moved[e] = DimScores[e]
      BY <1>1, <1>2
    <2> HIDE DEF moved
    <2>2. s >= DimScores[d] => \A e \in Dims : DimScores[e] <= moved[e]
      BY <1>1, <1>2, <2>1
    <2>3. s <= DimScores[d] => \A e \in Dims : moved[e] <= DimScores[e]
      BY <1>1, <1>2, <2>1
    <2>4. s >= DimScores[d] => TotalOf(DimScores) <= TotalOf(moved)
      BY <1>1, <1>4, <2>1, <2>2
    <2>5. s <= DimScores[d] => TotalOf(moved) <= TotalOf(DimScores)
      BY <1>1, <1>4, <2>1, <2>3
    <2>6. TotalOf(DimScores) \in Int /\ TotalOf(moved) \in Int
      <3>1. ASSUME NEW f \in [Dims -> Int] PROVE TotalOf(f) \in Int
        <4>1. Resonance(f, CurrentWeights) \in Int
          BY <1>3, ResonanceRange
        <4> QED
          BY <4>1, SMT DEF TotalOf, Rounded
      <3> QED
        BY <1>1, <2>1, <3>1
    <2> QED
      BY <2>4, <2>5, <2>6 DEF moved
  <1> QED
    BY <1>5 DEF MoreNeverLowers

\* The weights are those of posteriors at or above their priors.
LEMMA InvWeightsAreSound == IInv => WeightsAreSound
  <1> SUFFICES ASSUME IInv PROVE WeightsAreSound
    OBVIOUS
  <1>1. Posteriors
    BY DEF IInv
  <1>2. updates > 0 => CurrentWeights = LearntWeights
    BY <1>1, CurrentType
  <1>3. \A d, e \in Dims :
          posteriors[d].alpha * posteriors[e].beta >= posteriors[e].alpha * posteriors[d].beta
             => LearntWeights[d] >= LearntWeights[e]
    BY <1>1, LearntFacts, SMT
  <1> QED
    BY <1>2, <1>3, SMT DEF WeightsAreSound

\* What is reported of the VIX is the verdict on a payload of its fetcher.
LEMMA InvCalmScoresLow == ScoringAssumption /\ IInv => CalmScoresLow
  <1> SUFFICES ASSUME ScoringAssumption, IInv,
                      NEW d \in (IF report # None /\ report.analyzer = "vix"
                                 THEN {report.payload} ELSE {}) \ {None},
                      d.state = "contango", Known(d.ratio), d.ratio > 1000
               PROVE  /\ report.result.level \in {"LEVEL_0", "LEVEL_1"}
                      /\ \A vx3 \in (d.spot + d.spot \div 50 + 1)..(d.spot + d.spot \div 20) :
                            Analyze("vix", VixPayload(d.spot, vx3)).score > report.result.score
    BY DEF CalmScoresLow
  <1>1. report # None /\ report.analyzer = "vix" /\ d = report.payload /\ d # None
    OBVIOUS
  <1>2. d \in Payloads["vix"] /\ report.result = Analyze("vix", d)
    BY <1>1 DEF IInv, Reported
  <1> DEFINE spot == d.spot
             vx1 == d.vx1
  <1>3. spot \in Nat /\ vx1 \in Nat /\ d = VixPayload(spot, vx1)
    BY <1>2 DEF ScoringAssumption
  <1> HIDE DEF spot, vx1
  <1>4. /\ Analyze("vix", d).level \in {"LEVEL_0", "LEVEL_1"}
        /\ \A near \in (spot + spot \div 50 + 1)..(spot + spot \div 20) :
              Analyze("vix", VixPayload(spot, near)).score > Analyze("vix", d).score
    BY <1>1, <1>3, CalmPayload
  <1> QED
    BY <1>2, <1>4 DEF spot

-----------------------------------------------------------------------------
(* The theorems                                                            *)

\* Scores stay within 0 and 100 and posteriors at or above their priors.
THEOREM TypeCorrect == Spec => []TypeOK
  BY Invariant, PTL DEF IInv

\* A level, and an alert, is that of the score beside it, save for a score that
\* rounding alone has put on a threshold.
THEOREM LevelsAlwaysAgree == Spec => []LevelsAgree
  BY Invariant, PTL DEF IInv

\* More signal never lowers the total, and a missing source never raises it,
\* with whatever weights were learnt.
THEOREM MoreNeverLowersEver == Spec => []MoreNeverLowers
  BY Invariant, InvMoreNeverLowers, PTL

\* What was learnt is used, within 2.7% and 80% of the total, in the order of
\* the posterior means.
THEOREM WeightsAlwaysSound == Spec => []WeightsAreSound
  BY Invariant, InvWeightsAreSound, PTL

\* A deep contango is no LEVEL_2, and scores less than one just entered.
THEOREM CalmAlwaysScoresLow == Spec => []CalmScoresLow
  <1>1. IInv => CalmScoresLow
    BY InvCalmScoresLow, ScoringAssumption
  <1> QED
    BY <1>1, Invariant, PTL
=============================================================================
