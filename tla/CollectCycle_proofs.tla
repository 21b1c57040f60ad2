------------------------ MODULE CollectCycle_proofs ------------------------
(* Theorems about CollectCycle, for any set-ups, number of attempts, cycles   *)
(* and faults: what is generated or failed stays apart from what was fetched, *)
(* from each fetcher's return to the stored alerts; the counters of a report  *)
(* agree with it; and an alert has its trail.                                 *)
EXTENDS CollectCycle, FiniteSetTheorems, TLAPS

-----------------------------------------------------------------------------
(* The fetchers                                                            *)

HollowMock == [content |-> "hollow", internal |-> TRUE]

\* What fetch() of source s may hand over.
Returns(s) ==
    IF s \in SilentFallbacks THEN {Real, Hollow, Unmarked}
    ELSE IF s = "sector_rotation" THEN {Real, Hollow}
    ELSE IF s = "options_greeks" THEN {Real, HollowMock}
    ELSE {Real, Hollow, Mock, Raised}

\* Every fetch() of backend/fetchers/ gives one of these, whatever its upstreams
\* answer, its keys are and its cache holds.
LEMMA FetchReturns ==
    ASSUME NEW s \in Sources, NEW a \in [Upstreams[s] -> Answers], NEW keys, NEW cached
    PROVE  Fetch(s, a, keys, cached) \in Returns(s)
<1> USE DEF Returns, SilentFallbacks, Answers, Upstreams
<1>1. CASE s = "GEXMetrix"
    BY <1>1 DEF Fetch, GEXMetrixFetch
<1>2. CASE s = "AXLFI"
    BY <1>2 DEF Fetch, AXLFIFetch
<1>3. CASE s = "CBOE"
    BY <1>3 DEF Fetch, CBOEFetch
<1>4. CASE s = "VIX"
    BY <1>4 DEF Fetch, VIXFetch
<1>5. CASE s = "yfinance"
    BY <1>5 DEF Fetch, YFinanceFetch
<1>6. CASE s = "crypto_derivatives"
    BY <1>6 DEF Fetch, CryptoFetch
<1>7. CASE s = "dark_pool_metrics"
    BY <1>7 DEF Fetch, DarkpoolFetch
<1>8. CASE s = "money_flow"
    BY <1>8 DEF Fetch, FlowFetch
<1>9. CASE s = "llm_inference"
    BY <1>9 DEF Fetch, LLMFetch
<1>10. CASE s = "macro_data"
    BY <1>10 DEF Fetch, MacroFetch
<1>11. CASE s = "put_call_ratio"
    BY <1>11 DEF Fetch, PutCallFetch
<1>12. CASE s = "sector_rotation"
    BY <1>12 DEF Fetch, SectorFetch
<1>13. CASE s = "market_sentiment"
    BY <1>13 DEF Fetch, SentimentFetch
<1>14. CASE s = "vix_term_structure"
    BY <1>14 DEF Fetch, VIXTermFetch
<1>15. CASE s = "squeezemetrics"
    BY <1>15 DEF Fetch, SqueezeMetricsFetch
<1>16. CASE s = "finra"
    BY <1>16 DEF Fetch, FinraFetch
<1>17. CASE s = "ccdata"
    BY <1>17 DEF Fetch, CCDataFetch
<1>18. CASE s = "stockgrid"
    BY <1>18 DEF Fetch, StockGridFetch
<1>19. CASE s = "coinglass"
    BY <1>19 DEF Fetch, CoinglassFetch
<1>20. CASE s = "tradier"
    BY <1>20 DEF Fetch, TradierFetch
<1>21. CASE s = "dbmf"
    BY <1>21 DEF Fetch, DBMFFetch
<1>22. CASE s = "options_greeks"
    BY <1>22 DEF Fetch, OptionsGreeksFetch, MockContent, HollowMock
<1>23. QED
    BY <1>1, <1>2, <1>3, <1>4, <1>5, <1>6, <1>7, <1>8, <1>9, <1>10, <1>11,
       <1>12, <1>13, <1>14, <1>15, <1>16, <1>17, <1>18, <1>19, <1>20, <1>21, <1>22
    DEF Sources

\* The sources with a table that has an is_mock column.
MarkedSources == {"GEXMetrix", "VIX", "CBOE", "vix_term_structure", "dark_pool_metrics",
                  "crypto_derivatives"}

\* No other source writes to such a table, and the tables written are known.
LEMMA TablesWritten ==
    ASSUME NEW s \in Sources, NEW content, NEW t \in TablesOf(s, content)
    PROVE  /\ t \in MarkedTables \cup UnmarkedTables
           /\ t \in MarkedTables => s \in MarkedSources
<1> USE DEF MarkedTables, UnmarkedTables, MarkedSources
<1>1. CASE s \in {"GEXMetrix", "CBOE", "dark_pool_metrics"}
    BY <1>1 DEF TablesOf
<1>2. CASE s \in {"VIX", "vix_term_structure"}
    BY <1>2 DEF TablesOf
<1>3. CASE s = "crypto_derivatives"
    BY <1>3 DEF TablesOf
<1>4. CASE s = "sector_rotation"
    BY <1>4 DEF TablesOf
<1>5. CASE s = "options_greeks"
    BY <1>5 DEF TablesOf
<1>6. CASE s \notin {"GEXMetrix", "CBOE", "dark_pool_metrics", "VIX", "vix_term_structure",
                     "crypto_derivatives", "sector_rotation", "options_greeks"}
    BY <1>6 DEF TablesOf
<1>7. QED
    BY <1>1, <1>2, <1>3, <1>4, <1>5, <1>6

\* What a reader may conclude from content and mark of source s.
Honest(s, content, mock) ==
    /\ content = "generated" => mock \/ s \in SilentFallbacks
    /\ content = "real" => ~mock
    /\ s \in MarkedSources => (mock <=> content = "generated")

\* Whatever its upstream answers, a fetcher's result claims what it is.
LEMMA FetchIsHonest ==
    ASSUME NEW s \in Sources, NEW out \in Returns(s), out # Raised
    PROVE  /\ out.content \in Contents
           /\ out.internal \in BOOLEAN
           /\ Honest(s, out.content, out.internal)
           /\ s = "sector_rotation" => out.content # "generated"
<1>1. /\ Real.content = "real" /\ Real.internal = FALSE
      /\ Hollow.content = "hollow" /\ Hollow.internal = FALSE
      /\ Mock.content = "generated" /\ Mock.internal = TRUE
      /\ Unmarked.content = "generated" /\ Unmarked.internal = FALSE
      /\ HollowMock.content = "hollow" /\ HollowMock.internal = TRUE
    BY DEF Real, Hollow, Mock, Unmarked, HollowMock
<1>2. "real" \in Contents /\ "hollow" \in Contents /\ "generated" \in Contents
    BY DEF Contents
<1>3. CASE s \in SilentFallbacks
    <2>1. out \in {Real, Hollow, Unmarked}
        BY <1>3 DEF Returns
    <2>2. s \notin MarkedSources /\ s # "sector_rotation"
        BY <1>3 DEF SilentFallbacks, MarkedSources
    <2>3. QED
        BY <1>1, <1>2, <1>3, <2>1, <2>2 DEF Honest
<1>4. CASE s = "sector_rotation"
    <2>1. out \in {Real, Hollow}
        BY <1>4 DEF Returns, SilentFallbacks
    <2>2. QED
        BY <1>1, <1>2, <1>4, <2>1 DEF Honest
<1>5. CASE s = "options_greeks"
    <2>1. out \in {Real, HollowMock}
        BY <1>5 DEF Returns, SilentFallbacks
    <2>2. s \notin MarkedSources
        BY <1>5 DEF MarkedSources
    <2>3. QED
        BY <1>1, <1>2, <1>5, <2>1, <2>2 DEF Honest
<1>6. CASE s \notin SilentFallbacks /\ s \notin {"sector_rotation", "options_greeks"}
    <2>1. out \in {Real, Hollow, Mock}
        BY <1>6 DEF Returns
    <2>2. QED
        BY <1>1, <1>2, <1>6, <2>1 DEF Honest
<1>7. QED
    BY <1>3, <1>4, <1>5, <1>6
-----------------------------------------------------------------------------
(* The invariant                                                           *)

\* Tiers 1 and 2 of cycle c are over: what it works on no longer changes.
Over(c) == c < cycle \/ (c = cycle /\ phase \notin {"tier1", "tier2"})

Running == setup.cycles \in Nat /\ (phase \notin {"idle", "down"} => cycle >= 1)

\* No task of a later cycle is under way, and none of tier 3 before it is left
\* to the background.
Deferred ==
    \A c \in Cycles, s \in Fetching :
        attempt[c][s] > 0 => c <= cycle /\ (s \in Tier3 => Over(c))

\* A result that is no failure carries a value.
HonestResult(s, r) ==
    /\ Honest(s, r.content, r.isMock)
    /\ r.content = "none" => r = Missing \/ r.error

Reports == \A c \in Cycles, s \in Fetching : HonestResult(s, report[c][s])

Counting ==
    /\ counts = [c \in Cycles |-> counts[c]]
    /\ \A c \in Cycles :
           /\ Over(c) => counts[c] = Count(report[c])
           /\ ~Over(c) => counts[c] = NoCounts
           /\ c > cycle => report[c] = NoReport

Scored ==
    phase \in {"results", "audit", "alert"} =>
        \A d \in ScoringDims :
            /\ signal.used[d] # "none" => d \in Collected
            /\ signal.used[d] = "generated" => d \in signal.mocks

Trail ==
    phase = "alert" => cycle \in snapshots /\ \A s \in Collected : <<cycle, s>> \in audited

RowStored(r) ==
    /\ Over(r.cycle)
    /\ ~report[r.cycle][r.source].error
    /\ r.table \in MarkedTables => (r.marked <=> r.content = "generated")

AlertStored(a) ==
    /\ a.cycle \in Cycles /\ Over(a.cycle) /\ a.cycle \in snapshots
    /\ \A d \in ScoringDims :
           /\ a.used[d] # "none" => /\ d \in Fetching
                                    /\ ~report[a.cycle][d].error
                                    /\ <<a.cycle, d>> \in audited
           /\ a.used[d] = "generated" => d \in a.mocks

Stored == (\A r \in rows : RowStored(r)) /\ (\A a \in alerts : AlertStored(a))

IInv == TypeOK /\ Running /\ Deferred /\ Reports /\ Counting /\ Scored /\ Trail /\ Stored

-----------------------------------------------------------------------------
(* What a fetch may do                                                     *)

\* Attempts end in one result, and the others' are left alone.
LEMMA LandFacts ==
    ASSUME TypeOK, NEW c \in Cycles, NEW s \in Fetching, NEW r \in Results,
           Land(c, s, r), UNCHANGED setup
    PROVE  /\ attempt' \in [Cycles -> [Fetching -> 0 .. MaxRetries]]
           /\ report' \in [Cycles -> [Fetching -> Results]]
           /\ \A x \in Cycles, t \in Fetching :
                  /\ attempt'[x][t] = IF x = c /\ t = s THEN 0 ELSE attempt[x][t]
                  /\ report'[x][t] = IF x = c /\ t = s THEN r ELSE report[x][t]
           /\ \A x \in Cycles : x # c => report'[x] = report[x]
<1>1. /\ attempt \in [Cycles -> [Fetching -> 0 .. MaxRetries]]
      /\ report \in [Cycles -> [Fetching -> Results]]
    BY DEF TypeOK
<1>2. /\ attempt' = [attempt EXCEPT ![c][s] = 0]
      /\ report' = [report EXCEPT ![c][s] = r]
    BY DEF Land
<1>3. MaxRetries \in Nat /\ 0 \in 0 .. MaxRetries
    BY RetriesAssumption
<1>4. /\ attempt' \in [Cycles -> [Fetching -> 0 .. MaxRetries]]
      /\ \A x \in Cycles, t \in Fetching :
             attempt'[x][t] = IF x = c /\ t = s THEN 0 ELSE attempt[x][t]
    BY <1>1, <1>2, <1>3
<1>5. /\ report' \in [Cycles -> [Fetching -> Results]]
      /\ \A x \in Cycles, t \in Fetching :
             report'[x][t] = IF x = c /\ t = s THEN r ELSE report[x][t]
      /\ \A x \in Cycles : x # c => report'[x] = report[x]
    BY <1>1, <1>2
<1>6. QED
    BY <1>4, <1>5

Retries(c, s) ==
    /\ attempt[c][s] < MaxRetries
    /\ attempt' = [attempt EXCEPT ![c][s] = @ + 1]
    /\ UNCHANGED <<report, counts>>

\* MockContent() is what the fallbacks and the last attempt hand over.
LEMMA MockIsHonest ==
    ASSUME NEW s \in Sources, NEW e \in BOOLEAN
    PROVE  LET r == [content |-> MockContent(s), isMock |-> TRUE, error |-> e]
           IN  r \in Results /\ HonestResult(s, r)
<1>1. MockContent(s) \in {"hollow", "generated"} /\ (s \in MarkedSources => MockContent(s) = "generated")
    BY DEF MockContent, MarkedSources
<1>2. QED
    BY <1>1 DEF Results, Contents, HonestResult, Honest

\* Each of the four steps of a fetch is another attempt, or lands one result that
\* is honest; nothing else changes but the cache.
LEMMA FetchFacts ==
    ASSUME TypeOK, NEW c \in Cycles, NEW s \in Fetching, FetchStep(c, s)
    PROVE  /\ attempt[c][s] > 0
           /\ UNCHANGED <<setup, phase, cycle, signal, database, faults>>
           /\ cache' \in [Cached -> {"none", "real", "hollow"}]
           /\ \/ Retries(c, s)
              \/ \E r \in Results : HonestResult(s, r) /\ Land(c, s, r)
<1>1. s \in Sources /\ cache \in [Cached -> {"none", "real", "hollow"}]
    BY DEF TypeOK, Fetching
<1>2. CASE MockAtOnce(c, s)
    <2> DEFINE r == [content |-> MockContent(s), isMock |-> TRUE, error |-> FALSE]
    <2>1. r \in Results /\ HonestResult(s, r)
        BY <1>1, MockIsHonest
    <2>2. /\ attempt[c][s] = 1 /\ Land(c, s, r)
          /\ UNCHANGED <<setup, phase, cycle, cache, signal, database, faults>>
        BY <1>2 DEF MockAtOnce
    <2> HIDE DEF r
    <2>3. QED
        BY <1>1, <2>1, <2>2
<1>3. CASE FetchTimesOut(c, s)
    <2>1. Timeout \in Results /\ HonestResult(s, Timeout)
        BY DEF Timeout, Results, HonestResult, Honest
    <2>2. QED
        BY <1>1, <1>3, <2>1 DEF FetchTimesOut, Asked
<1>4. CASE FetchRaises(c, s)
    BY <1>1, <1>4, MockIsHonest DEF FetchRaises, Asked, Retries
<1>5. CASE Fetched(c, s)
    <2>1. PICK a \in [Upstreams[s] -> Answers] :
              /\ Fetch(s, a, setup.keys, CachedFor(s)) # Raised
              /\ Land(c, s, [content |-> Fetch(s, a, setup.keys, CachedFor(s)).content,
                             isMock |-> Fetch(s, a, setup.keys, CachedFor(s)).internal,
                             error |-> FALSE])
              /\ cache' = Keep(s, Fetch(s, a, setup.keys, CachedFor(s)).content)
        BY <1>5 DEF Fetched
    <2> DEFINE out == Fetch(s, a, setup.keys, CachedFor(s))
               r == [content |-> out.content, isMock |-> out.internal, error |-> FALSE]
    <2>2. out \in Returns(s)
        BY <1>1, <2>1, FetchReturns
    <2> HIDE DEF out
    <2>3. /\ out.content \in Contents /\ out.internal \in BOOLEAN
          /\ Honest(s, out.content, out.internal)
          /\ s = "sector_rotation" => out.content # "generated"
        BY <1>1, <2>1, <2>2, FetchIsHonest DEF out
    <2>4. r \in Results
        BY <2>3 DEF Results
    <2>5. HonestResult(s, r)
        BY <2>3 DEF HonestResult, Contents
    <2>6. cache' \in [Cached -> {"none", "real", "hollow"}]
        <3>1. cache' = Keep(s, out.content)
            BY <2>1 DEF out
        <3>2. CASE s = "sector_rotation"
            BY <1>1, <2>3, <3>1, <3>2 DEF Keep, Contents
        <3>3. CASE s # "sector_rotation"
            BY <1>1, <3>1, <3>3 DEF Keep
        <3>4. QED
            BY <3>2, <3>3
    <2>7. Land(c, s, r)
        BY <2>1 DEF out
    <2>8. attempt[c][s] > 0 /\ UNCHANGED <<setup, phase, cycle, signal, database, faults>>
        BY <1>5 DEF Fetched, Asked
    <2>9. QED
        BY <2>4, <2>5, <2>6, <2>7, <2>8
<1>6. QED
    BY <1>2, <1>3, <1>4, <1>5 DEF FetchStep

-----------------------------------------------------------------------------
(* Steps by what they do to the reports                                    *)

\* The steps that leave tasks, reports and counters alone neither enter nor leave
\* the phases in which tiers 1 and 2 are collected.
QuietStep ==
    /\ UNCHANGED <<cycle, attempt, report, counts>>
    /\ \/ phase' = phase
       \/ phase \notin {"tier1", "tier2"} /\ phase' \notin {"tier1", "tier2"}

\* Every step either moves the cycle between its phases, is part of a fetch, or is quiet.
LEMMA NextCases ==
    ASSUME [Next]_vars
    PROVE  \/ StartCycle \/ Tier1Ends \/ Tier2Ends \/ Cancel \/ Crash \/ QuietStep
           \/ \E c \in Cycles, s \in Fetching : FetchStep(c, s)
<1> USE DEF QuietStep
<1>1. ASSUME UNCHANGED vars PROVE QuietStep
    BY <1>1 DEF vars
<1>2. ASSUME Analyse PROVE QuietStep
    BY <1>2 DEF Analyse
<1>3. ASSUME WriteResults PROVE QuietStep
    BY <1>3 DEF WriteResults
<1>4. ASSUME NEW s \in Fetching, WriteAudit(s) PROVE QuietStep
    BY <1>4 DEF WriteAudit
<1>5. ASSUME WriteSnapshot PROVE QuietStep
    BY <1>5 DEF WriteSnapshot
<1>6. ASSUME WriteAlert PROVE QuietStep
    BY <1>6 DEF WriteAlert
<1>7. ASSUME NoAlert PROVE QuietStep
    BY <1>7 DEF NoAlert
<1>8. ASSUME PersistFails PROVE QuietStep
    BY <1>8 DEF PersistFails
<1>9. ASSUME NEW s \in Cached, CacheExpires(s) PROVE QuietStep
    BY <1>9 DEF CacheExpires
<1>10. ASSUME Restart PROVE QuietStep
    BY <1>10 DEF Restart
<1> HIDE DEF QuietStep
<1>11. QED
    BY <1>1, <1>2, <1>3, <1>4, <1>5, <1>6, <1>7, <1>8, <1>9, <1>10 DEF Next, CycleStep

\* The set-up is fixed, and so is what is made of it.
LEMMA SetupKept ==
    ASSUME TypeOK, [Next]_vars
    PROVE  /\ setup' = setup /\ Cycles' = Cycles /\ Fetching' = Fetching
           /\ NoReport' = NoReport /\ NoTasks' = NoTasks
<1>1. setup' = setup
    <2>1. ASSUME NEW c \in Cycles, NEW s \in Fetching, FetchStep(c, s) PROVE setup' = setup
        BY <2>1, FetchFacts
    <2>2. QED
        BY <2>1 DEF Next, CycleStep, StartCycle, Tier1Ends, Tier2Ends, Cancel, Crash, Restart, Analyse,
            WriteResults, WriteAudit, WriteSnapshot, WriteAlert, NoAlert, PersistFails, CacheExpires, vars
<1>2. QED
    BY <1>1 DEF Cycles, Fetching, NoReport, NoTasks

\* A cycle in progress is one of the run's.
LEMMA CycleInCycles ==
    ASSUME TypeOK, Running, phase \notin {"idle", "down"}
    PROVE  cycle \in Cycles
BY DEF TypeOK, Running, Cycles

\* Launching a tier begins the first attempt of its fetches and leaves the others.
LEMMA LaunchFacts ==
    ASSUME TypeOK, NEW c \in Cycles, NEW tier, attempt' = Launch(c, tier)
    PROVE  /\ attempt' \in [Cycles -> [Fetching -> 0 .. MaxRetries]]
           /\ \A x \in Cycles, t \in Fetching :
                  attempt'[x][t] = IF x = c /\ t \in tier THEN 1 ELSE attempt[x][t]
<1>1. attempt \in [Cycles -> [Fetching -> 0 .. MaxRetries]]
    BY DEF TypeOK
<1>2. 1 \in 0 .. MaxRetries
    BY RetriesAssumption
<1>3. attempt' = [attempt EXCEPT ![c] = [s \in Fetching |-> IF s \in tier THEN 1 ELSE attempt[c][s]]]
    BY DEF Launch
<1>4. QED
    BY <1>1, <1>2, <1>3

\* A retry begins no fetch that was not under way.
LEMMA RetryFacts ==
    ASSUME TypeOK, NEW c \in Cycles, NEW s \in Fetching, Retries(c, s), attempt[c][s] > 0
    PROVE  /\ attempt' \in [Cycles -> [Fetching -> 0 .. MaxRetries]]
           /\ \A x \in Cycles, t \in Fetching : attempt'[x][t] > 0 => attempt[x][t] > 0
<1>1. attempt \in [Cycles -> [Fetching -> 0 .. MaxRetries]] /\ MaxRetries \in Nat
    BY RetriesAssumption DEF TypeOK
<1>2. attempt' = [attempt EXCEPT ![c][s] = attempt[c][s] + 1] /\ attempt[c][s] < MaxRetries
    BY DEF Retries
<1>3. attempt[c][s] \in 0 .. MaxRetries
    BY <1>1
<1>4. attempt[c][s] + 1 \in 0 .. MaxRetries
    BY <1>1, <1>2, <1>3
<1>5. attempt' \in [Cycles -> [Fetching -> 0 .. MaxRetries]]
    BY <1>1, <1>2, <1>4
<1>6. \A x \in Cycles, t \in Fetching : (x = c /\ t = s) \/ attempt'[x][t] = attempt[x][t]
    BY <1>1, <1>2
<1>7. QED
    BY <1>5, <1>6

\* stop() ends the tasks of the running cycle's tier.
LEMMA CancelFacts ==
    ASSUME TypeOK, Running, Cancel
    PROVE  /\ attempt' \in [Cycles -> [Fetching -> 0 .. MaxRetries]]
           /\ report' \in [Cycles -> [Fetching -> Results]]
           /\ \A x \in Cycles, t \in Fetching :
                  attempt'[x][t] = IF x = cycle /\ t \notin Tier3 THEN 0 ELSE attempt[x][t]
           /\ \A x \in Cycles : report'[x] = IF x = cycle /\ ~Over(x) THEN NoReport ELSE report[x]
           /\ phase' = "idle" /\ UNCHANGED <<setup, cycle, counts>>
<1>1. /\ attempt \in [Cycles -> [Fetching -> 0 .. MaxRetries]] /\ 0 \in 0 .. MaxRetries
      /\ report \in [Cycles -> [Fetching -> Results]] /\ cycle \in Nat
    BY RetriesAssumption DEF TypeOK
<1>2. cycle \in Cycles
    BY CycleInCycles DEF Cancel
<1>3. NoReport \in [Fetching -> Results]
    BY DEF NoReport, Missing, Results
<1>4. attempt' = [attempt EXCEPT ![cycle] =
                      [s \in Fetching |-> IF s \in Tier3 THEN attempt[cycle][s] ELSE 0]]
    BY DEF Cancel
<1>5. /\ attempt' \in [Cycles -> [Fetching -> 0 .. MaxRetries]]
      /\ \A x \in Cycles, t \in Fetching :
             attempt'[x][t] = IF x = cycle /\ t \notin Tier3 THEN 0 ELSE attempt[x][t]
    BY <1>1, <1>2, <1>4
<1>6. Over(cycle) <=> phase \notin {"tier1", "tier2"}
    BY <1>1 DEF Over
<1>7. report' = IF ~Over(cycle) THEN [report EXCEPT ![cycle] = NoReport] ELSE report
    BY <1>6 DEF Cancel
<1>8. /\ report' \in [Cycles -> [Fetching -> Results]]
      /\ \A x \in Cycles : report'[x] = IF x = cycle /\ ~Over(x) THEN NoReport ELSE report[x]
    BY <1>1, <1>2, <1>3, <1>7
<1>9. QED
    BY <1>5, <1>8 DEF Cancel

-----------------------------------------------------------------------------
(* Types                                                                   *)

\* A task of tier 1 or 2 runs while its cycle waits for it.
Awaited ==
    \A c \in Cycles, s \in Fetching : attempt[c][s] > 0 =>
        \/ s \in Tier3
        \/ c = cycle /\ phase = (IF s \in Tier1 THEN "tier1" ELSE "tier2")

\* No step breaks the types of attempts and reports, or leaves a fetch of tiers 1 and 2
\* behind its phase.
LEMMA TasksNext ==
    ASSUME TypeOK, Running, [Next]_vars
    PROVE  /\ attempt' \in [Cycles -> [Fetching -> 0 .. MaxRetries]]'
           /\ report' \in [Cycles -> [Fetching -> Results]]'
           /\ Awaited'
<1>1. /\ attempt \in [Cycles -> [Fetching -> 0 .. MaxRetries]]
      /\ report \in [Cycles -> [Fetching -> Results]]
      /\ Awaited /\ cycle \in Nat
    BY DEF TypeOK, Awaited
<1>2. Cycles' = Cycles /\ Fetching' = Fetching
    BY SetupKept
<1> SUFFICES /\ attempt' \in [Cycles -> [Fetching -> 0 .. MaxRetries]]
             /\ report' \in [Cycles -> [Fetching -> Results]]
             /\ Awaited'
    BY <1>2
<1>3. ASSUME StartCycle
      PROVE  attempt' \in [Cycles -> [Fetching -> 0 .. MaxRetries]] /\ report' = report /\ Awaited'
    <2>1. /\ phase = "idle" /\ phase' = "tier1" /\ cycle' = cycle + 1 /\ report' = report
          /\ cycle + 1 \in Cycles /\ attempt' = Launch(cycle + 1, Tier1)
        BY <1>1, <1>3 DEF StartCycle, TypeOK, Cycles, Running
    <2>2. QED
        BY <1>1, <1>2, <2>1, LaunchFacts DEF Awaited
<1>4. ASSUME Tier1Ends
      PROVE  attempt' \in [Cycles -> [Fetching -> 0 .. MaxRetries]] /\ report' = report /\ Awaited'
    <2>1. /\ phase = "tier1" /\ phase' = "tier2" /\ cycle' = cycle /\ report' = report
          /\ cycle \in Cycles /\ attempt' = Launch(cycle, Tier2)
        BY <1>4, CycleInCycles DEF Tier1Ends
    <2>2. \A s \in Fetching : s \in Tier1 => attempt[cycle][s] = 0
        BY <1>4 DEF Tier1Ends, TierDone
    <2>3. \A s \in Tier2 : s \notin Tier1
        BY DEF Tier2
    <2>4. QED
        BY <1>1, <1>2, <2>1, <2>2, <2>3, LaunchFacts DEF Awaited
<1>5. ASSUME Tier2Ends
      PROVE  attempt' \in [Cycles -> [Fetching -> 0 .. MaxRetries]] /\ report' = report /\ Awaited'
    <2>1. /\ phase = "tier2" /\ phase' = "analyse" /\ cycle' = cycle /\ report' = report
          /\ cycle \in Cycles /\ attempt' = Launch(cycle, Tier3)
        BY <1>5, CycleInCycles DEF Tier2Ends
    <2>2. \A s \in Fetching : s \in Tier2 => attempt[cycle][s] = 0
        BY <1>5 DEF Tier2Ends, TierDone
    <2>3. \A s \in Fetching : s \notin Tier1 /\ s \notin Tier3 => s \in Tier2
        BY DEF Tier2, TypeOK, Fetching
    <2>4. QED
        BY <1>1, <1>2, <2>1, <2>2, <2>3, LaunchFacts DEF Awaited
<1>6. ASSUME NEW c \in Cycles, NEW s \in Fetching, FetchStep(c, s)
      PROVE  /\ attempt' \in [Cycles -> [Fetching -> 0 .. MaxRetries]]
             /\ report' \in [Cycles -> [Fetching -> Results]] /\ Awaited'
    <2>1. attempt[c][s] > 0 /\ UNCHANGED <<phase, cycle, setup>>
        BY <1>6, FetchFacts
    <2>2. CASE Retries(c, s)
        <3>1. report' = report
            BY <2>2 DEF Retries
        <3>2. QED
            BY <1>1, <1>2, <2>1, <2>2, <3>1, RetryFacts DEF Awaited
    <2>3. CASE \E r \in Results : HonestResult(s, r) /\ Land(c, s, r)
        <3>1. PICK r \in Results : Land(c, s, r)
            BY <2>3
        <3>2. /\ attempt' \in [Cycles -> [Fetching -> 0 .. MaxRetries]]
              /\ report' \in [Cycles -> [Fetching -> Results]]
              /\ \A x \in Cycles, t \in Fetching :
                     attempt'[x][t] = IF x = c /\ t = s THEN 0 ELSE attempt[x][t]
            BY <2>1, <3>1, LandFacts
        <3>3. \A x \in Cycles, t \in Fetching : attempt'[x][t] > 0 => attempt[x][t] > 0
            BY <3>2
        <3>4. QED
            BY <1>1, <1>2, <2>1, <3>2, <3>3 DEF Awaited
    <2>4. QED
        BY <1>6, <2>2, <2>3, FetchFacts
<1>7. ASSUME Cancel
      PROVE  /\ attempt' \in [Cycles -> [Fetching -> 0 .. MaxRetries]]
             /\ report' \in [Cycles -> [Fetching -> Results]] /\ Awaited'
    <2>1. \A c \in Cycles, s \in Fetching : attempt'[c][s] > 0 => s \in Tier3
        BY <1>1, <1>7, CancelFacts DEF Awaited
    <2>2. QED
        BY <1>2, <1>7, <2>1, CancelFacts DEF Awaited
<1>8. ASSUME Crash
      PROVE  /\ attempt' \in [Cycles -> [Fetching -> 0 .. MaxRetries]]
             /\ report' \in [Cycles -> [Fetching -> Results]] /\ Awaited'
    <2>1. attempt' = [c \in Cycles |-> [s \in Fetching |-> 0]] /\ 0 \in 0 .. MaxRetries
        BY <1>8, RetriesAssumption DEF Crash, NoTasks
    <2>2. report' = [c \in Cycles |-> [s \in Fetching |-> Missing]] /\ Missing \in Results
        BY <1>8 DEF Crash, NoReport, Missing, Results
    <2>3. QED
        BY <1>2, <2>1, <2>2 DEF Awaited
<1>9. ASSUME QuietStep
      PROVE  attempt' = attempt /\ report' = report /\ Awaited'
    BY <1>1, <1>2, <1>9 DEF QuietStep, Awaited
<1>10. QED
    BY <1>1, <1>3, <1>4, <1>5, <1>6, <1>7, <1>8, <1>9, NextCases

\* What the cycle works on has values, and is not the deferred tier's.
LEMMA CollectedFacts ==
    ASSUME TypeOK, Reports, cycle \in Cycles, NEW s \in Collected
    PROVE  /\ s \in Fetching /\ s \notin Tier3
           /\ report[cycle][s] \in Results /\ ~report[cycle][s].error
           /\ report[cycle][s].content \in Contents
           /\ Honest(s, report[cycle][s].content, report[cycle][s].isMock)
<1>1. s \in Fetching /\ s \notin Tier3 /\ report[cycle][s] # Missing /\ ~report[cycle][s].error
    BY DEF Collected, Success
<1>2. report[cycle][s] \in Results
    BY <1>1 DEF TypeOK
<1>3. report[cycle][s].content \in Contents \cup {"none"}
    BY <1>2 DEF Results
<1>4. HonestResult(s, report[cycle][s])
    BY <1>1 DEF Reports
<1>5. QED
    BY <1>1, <1>2, <1>3, <1>4 DEF HonestResult

RowRecords == [cycle : Cycles, source : Fetching \ Tier3, table : MarkedTables \cup UnmarkedTables,
               content : Contents, marked : BOOLEAN, base : Contents \cup {"none"}]

\* The phases, the cache, the score and the database.
Places ==
    /\ phase \in {"idle", "tier1", "tier2", "analyse", "results", "audit", "alert", "down"}
    /\ cycle \in 0 .. setup.cycles
    /\ cache \in [Cached -> {"none", "real", "hollow"}]
    /\ signal.used \in [ScoringDims -> Contents \cup {"none"}]
    /\ rows \subseteq RowRecords
    /\ audited \subseteq Cycles \X Fetching
    /\ snapshots \subseteq Cycles
    /\ faults \in 0 .. MaxFaults

\* What the writers add are rows of collected sources in the tables of those.
LEMMA RowsWritten ==
    ASSUME TypeOK, Reports, cycle \in Cycles, WriteResults, NEW r \in rows'
    PROVE  \/ r \in rows
           \/ /\ r \in RowRecords
              /\ r.cycle = cycle /\ r.source \in Collected
              /\ r.content = report[cycle][r.source].content
              /\ r.table \in MarkedTables =>
                     r.source \in MarkedSources /\ r.marked = report[cycle][r.source].isMock
<1>1. PICK base \in Bases :
          \E written \in SUBSET UNION {RowsOf(s, base) : s \in Collected} : rows' = rows \cup written
    BY DEF WriteResults
<1>2. PICK written \in SUBSET UNION {RowsOf(s, base) : s \in Collected} : rows' = rows \cup written
    BY <1>1
<1>3. base \in Contents \cup {"none"}
    <2>1. rows \subseteq RowRecords
        BY DEF TypeOK, RowRecords
    <2>2. \A x \in rows : x.content \in Contents
        BY <2>1 DEF RowRecords
    <2>3. QED
        BY <2>2 DEF Bases
<1>4. CASE r \in written
    <2>1. PICK s \in Collected : r \in RowsOf(s, base)
        BY <1>2, <1>4
    <2>2. PICK t \in TablesOf(s, report[cycle][s].content) : r = RowOf(s, t, base)
        BY <2>1 DEF RowsOf
    <2>3. /\ r.cycle = cycle /\ r.source = s /\ r.table = t
          /\ r.content = report[cycle][s].content
          /\ r.marked = (t \in MarkedTables /\ report[cycle][s].isMock)
        BY <2>2 DEF RowOf
    <2>4. /\ s \in Fetching \ Tier3 /\ report[cycle][s].content \in Contents
          /\ report[cycle][s].isMock \in BOOLEAN
        BY CollectedFacts DEF Results
    <2>5. t \in MarkedTables \cup UnmarkedTables /\ (t \in MarkedTables => s \in MarkedSources)
        BY <2>2, <2>4, TablesWritten DEF TypeOK, Fetching
    <2>6. r \in RowRecords
        BY <1>3, <2>2, <2>4, <2>5 DEF RowOf, RowRecords
    <2>7. t \in MarkedTables => r.marked = report[cycle][s].isMock
        BY <2>3, <2>4
    <2>8. QED
        BY <2>3, <2>5, <2>6, <2>7
<1>5. QED
    BY <1>2, <1>4

\* No step breaks the types of the other variables.
LEMMA PlacesNext ==
    ASSUME TypeOK, Running, Reports, [Next]_vars
    PROVE  Places'
<1>1. Places /\ setup.cycles \in Nat /\ MaxFaults \in Nat
    BY FaultsAssumption DEF TypeOK, Places, RowRecords, Running
<1>2. setup' = setup /\ Cycles' = Cycles /\ Fetching' = Fetching /\ RowRecords' = RowRecords
    BY SetupKept DEF RowRecords
<1>3. [s \in Cached |-> "none"] \in [Cached -> {"none", "real", "hollow"}]
    OBVIOUS
<1>4. NoSignal.used \in [ScoringDims -> Contents \cup {"none"}]
    BY DEF NoSignal
<1>5. ASSUME StartCycle PROVE Places'
    BY <1>1, <1>2, <1>4, <1>5 DEF StartCycle, Places, database
<1>6. ASSUME Tier1Ends \/ Tier2Ends PROVE Places'
    BY <1>1, <1>2, <1>6 DEF Tier1Ends, Tier2Ends, Places, database
<1>7. ASSUME NEW c \in Cycles, NEW s \in Fetching, FetchStep(c, s) PROVE Places'
    <2>1. /\ UNCHANGED <<setup, phase, cycle, signal, database, faults>>
          /\ cache' \in [Cached -> {"none", "real", "hollow"}]
        BY <1>7, FetchFacts
    <2>2. QED
        BY <1>1, <1>2, <2>1 DEF Places, database
<1>8. ASSUME NEW s \in Cached, CacheExpires(s) PROVE Places'
    BY <1>1, <1>2, <1>8 DEF CacheExpires, Places, database
<1>9. ASSUME Analyse PROVE Places'
    <2>1. PICK failed \in SUBSET (ScoringDims \cap Collected) : signal'.used = UsedBy(failed)
        BY <1>9 DEF Analyse
    <2>2. cycle \in Cycles
        BY <1>9, CycleInCycles DEF Analyse
    <2>3. \A d \in Collected : report[cycle][d].content \in Contents
        BY <2>2, CollectedFacts
    <2>4. signal'.used \in [ScoringDims -> Contents \cup {"none"}]
        BY <2>1, <2>3 DEF UsedBy
    <2>5. QED
        BY <1>1, <1>2, <1>9, <2>4 DEF Analyse, Places, database
<1>10. ASSUME WriteResults PROVE Places'
    <2>1. /\ cycle \in Cycles
          /\ \A r \in rows' : r \in rows \/ r \in RowRecords
        BY <1>1, <1>10, CycleInCycles, RowsWritten DEF WriteResults
    <2>2. rows' \subseteq RowRecords
        BY <1>1, <2>1 DEF Places
    <2>3. QED
        BY <1>1, <1>2, <1>10, <2>2 DEF WriteResults, Places, database
<1>11. ASSUME NEW s \in Fetching, WriteAudit(s) PROVE Places'
    <2>1. cycle \in Cycles
        BY <1>11, CycleInCycles DEF WriteAudit
    <2>2. audited' \subseteq Cycles \X Fetching
        BY <1>1, <1>11, <2>1 DEF WriteAudit, Places
    <2>3. QED
        BY <1>1, <1>2, <1>11, <2>2 DEF WriteAudit, Places, database
<1>12. ASSUME WriteSnapshot PROVE Places'
    <2>1. cycle \in Cycles
        BY <1>12, CycleInCycles DEF WriteSnapshot
    <2>2. QED
        BY <1>1, <1>2, <1>12, <2>1 DEF WriteSnapshot, Places, database
<1>13. ASSUME WriteAlert \/ NoAlert \/ PersistFails \/ Restart PROVE Places'
    BY <1>1, <1>2, <1>13 DEF WriteAlert, NoAlert, PersistFails, Restart, Places, database
<1>14. ASSUME Cancel PROVE Places'
    BY <1>1, <1>2, <1>14 DEF Cancel, Places, database
<1>15. ASSUME Crash PROVE Places'
    BY <1>1, <1>2, <1>3, <1>4, <1>15 DEF Crash, Places, database
<1>16. ASSUME UNCHANGED vars PROVE Places'
    BY <1>1, <1>2, <1>16 DEF vars, Places
<1>17. QED
    BY <1>5, <1>6, <1>7, <1>8, <1>9, <1>10, <1>11, <1>12, <1>13, <1>14, <1>15, <1>16
    DEF Next, CycleStep

\* No step breaks the types.
LEMMA TypeNext ==
    ASSUME TypeOK, Running, Reports, [Next]_vars
    PROVE  TypeOK'
<1>1. setup' = setup /\ setup.sources \subseteq Sources /\ setup.online \in BOOLEAN
    BY SetupKept DEF TypeOK
<1>2. QED
    BY <1>1, TasksNext, PlacesNext DEF TypeOK, Places, RowRecords, Awaited

\* After every step a cycle that is under way has a number, from 1.
LEMMA RunningNext ==
    ASSUME TypeOK, Running, [Next]_vars
    PROVE  Running'
<1>1. setup' = setup /\ setup.cycles \in Nat /\ cycle \in Nat
    BY SetupKept DEF Running, TypeOK
<1>2. ASSUME NEW c \in Cycles, NEW s \in Fetching, FetchStep(c, s) PROVE Running'
    BY <1>1, <1>2, FetchFacts DEF Running
<1>3. QED
    BY <1>1, <1>2 DEF Next, CycleStep, StartCycle, Tier1Ends, Tier2Ends, Cancel, Crash, Restart, Analyse,
        WriteResults, WriteAudit, WriteSnapshot, WriteAlert, NoAlert, PersistFails, CacheExpires, vars, Running

-----------------------------------------------------------------------------
(* Reports and counters                                                    *)

\* No step gives a cycle a tier-3 task before it has left tier 2.
LEMMA DeferredNext ==
    ASSUME TypeOK, Running, Deferred, [Next]_vars
    PROVE  Deferred'
<1>1. /\ cycle \in Nat /\ Cycles' = Cycles /\ Fetching' = Fetching
      /\ \A c \in Cycles : c \in Nat
    BY SetupKept DEF TypeOK, Cycles, Running
<1>2. ASSUME StartCycle PROVE Deferred'
    <2>1. /\ phase = "idle" /\ cycle' = cycle + 1 /\ phase' = "tier1" /\ cycle + 1 \in Cycles
          /\ attempt' = Launch(cycle + 1, Tier1)
        BY <1>1, <1>2 DEF StartCycle, TypeOK, Cycles, Running
    <2>2. \A c \in Cycles, s \in Fetching :
              attempt'[c][s] > 0 => c <= cycle + 1 /\ (s \in Tier3 => c <= cycle)
        BY <1>1, <2>1, LaunchFacts DEF Deferred, Over, Tier1, Tier3
    <2>3. QED
        BY <1>1, <2>1, <2>2 DEF Deferred, Over
<1>3. ASSUME Tier1Ends PROVE Deferred'
    <2>1. /\ phase = "tier1" /\ phase' = "tier2" /\ cycle' = cycle
          /\ cycle \in Cycles /\ attempt' = Launch(cycle, Tier2)
        BY <1>3, CycleInCycles DEF Tier1Ends
    <2>2. \A s \in Tier2 : s \notin Tier3
        BY DEF Tier2
    <2>3. QED
        BY <1>1, <2>1, <2>2, LaunchFacts DEF Deferred, Over
<1>4. ASSUME Tier2Ends PROVE Deferred'
    <2>1. /\ phase = "tier2" /\ phase' = "analyse" /\ cycle' = cycle
          /\ cycle \in Cycles /\ attempt' = Launch(cycle, Tier3)
        BY <1>4, CycleInCycles DEF Tier2Ends
    <2>2. QED
        BY <1>1, <2>1, LaunchFacts DEF Deferred, Over
<1>5. ASSUME NEW c \in Cycles, NEW s \in Fetching, FetchStep(c, s) PROVE Deferred'
    <2>1. attempt[c][s] > 0 /\ UNCHANGED <<phase, cycle, setup>>
        BY <1>5, FetchFacts
    <2>2. \A x \in Cycles, t \in Fetching : attempt'[x][t] > 0 => attempt[x][t] > 0
        <3>1. CASE Retries(c, s)
            BY <2>1, <3>1, RetryFacts
        <3>2. ASSUME NEW r \in Results, Land(c, s, r)
              PROVE  \A x \in Cycles, t \in Fetching : attempt'[x][t] > 0 => attempt[x][t] > 0
            <4>1. \A x \in Cycles, t \in Fetching :
                      attempt'[x][t] = IF x = c /\ t = s THEN 0 ELSE attempt[x][t]
                BY <2>1, <3>2, LandFacts
            <4>2. QED
                BY <4>1
        <3>3. QED
            BY <1>5, <3>1, <3>2, FetchFacts
    <2>3. QED
        BY <1>1, <2>1, <2>2 DEF Deferred, Over
<1>6. ASSUME Cancel PROVE Deferred'
    <2>1. /\ phase' = "idle" /\ cycle' = cycle
          /\ \A x \in Cycles, t \in Fetching :
                 attempt'[x][t] = IF x = cycle /\ t \notin Tier3 THEN 0 ELSE attempt[x][t]
        BY <1>6, CancelFacts
    <2>2. \A x \in Cycles, t \in Fetching : attempt'[x][t] > 0 => attempt[x][t] > 0
        BY <2>1
    <2>3. QED
        BY <1>1, <2>1, <2>2 DEF Deferred, Over
<1>7. ASSUME Crash PROVE Deferred'
    <2>1. attempt' = [c \in Cycles |-> [s \in Fetching |-> 0]]
        BY <1>7 DEF Crash, NoTasks
    <2>2. QED
        BY <1>1, <2>1 DEF Deferred
<1>8. ASSUME QuietStep PROVE Deferred'
    BY <1>1, <1>8 DEF QuietStep, Deferred, Over
<1>9. QED
    BY <1>2, <1>3, <1>4, <1>5, <1>6, <1>7, <1>8, NextCases

\* Reports only ever receive honest results.
LEMMA ReportsNext ==
    ASSUME TypeOK, Running, Reports, [Next]_vars
    PROVE  Reports'
<1>1. Cycles' = Cycles /\ Fetching' = Fetching
    BY SetupKept
<1>2. \A s : HonestResult(s, Missing)
    BY DEF HonestResult, Honest, Missing
<1>3. ASSUME report' = report PROVE Reports'
    BY <1>1, <1>3 DEF Reports
<1>4. ASSUME StartCycle \/ Tier1Ends \/ Tier2Ends \/ QuietStep PROVE report' = report
    BY <1>4 DEF StartCycle, Tier1Ends, Tier2Ends, QuietStep
<1>5. ASSUME NEW c \in Cycles, NEW s \in Fetching, FetchStep(c, s) PROVE Reports'
    <2>1. CASE Retries(c, s)
        BY <1>3, <2>1 DEF Retries
    <2>2. ASSUME NEW r \in Results, HonestResult(s, r), Land(c, s, r) PROVE Reports'
        <3>1. \A x \in Cycles, t \in Fetching :
                  report'[x][t] = IF x = c /\ t = s THEN r ELSE report[x][t]
            BY <1>5, <2>2, LandFacts, FetchFacts
        <3>2. QED
            BY <1>1, <2>2, <3>1 DEF Reports
    <2>3. QED
        BY <1>5, <2>1, <2>2, FetchFacts
<1>6. ASSUME Cancel PROVE Reports'
    <2>1. \A x \in Cycles : report'[x] = NoReport \/ report'[x] = report[x]
        BY <1>6, CancelFacts
    <2>2. \A x \in Cycles, t \in Fetching : report'[x][t] = Missing \/ report'[x][t] = report[x][t]
        BY <2>1 DEF NoReport
    <2>3. QED
        BY <1>1, <1>2, <2>2 DEF Reports
<1>7. ASSUME Crash PROVE Reports'
    <2>1. \A x \in Cycles, t \in Fetching : report'[x][t] = Missing
        BY <1>7 DEF Crash, NoReport
    <2>2. QED
        BY <1>1, <1>2, <2>1 DEF Reports
<1>8. QED
    BY <1>3, <1>4, <1>5, <1>6, <1>7, NextCases

\* An empty report counts nothing.
LEMMA CountNothing == Count(NoReport) = NoCounts
<1>1. /\ {s \in DOMAIN NoReport : Success(NoReport[s]) /\ ~NoReport[s].isMock} = {}
      /\ {s \in DOMAIN NoReport : NoReport[s].error} = {}
      /\ {s \in DOMAIN NoReport : NoReport[s].isMock} = {}
    BY DEF NoReport, Success, Missing
<1>2. Cardinality({}) = 0
    BY FS_EmptySet
<1>3. QED
    BY <1>1, <1>2 DEF Count, NoCounts

\* Landing in a cycle that is over counts anew, since only tier 3 is left then;
\* landing in one that is not leaves the counters for the end of tier 2.
LEMMA CountingNext ==
    ASSUME TypeOK, Running, Deferred, Counting, [Next]_vars
    PROVE  Counting'
<1>1. /\ cycle \in Nat /\ Cycles' = Cycles /\ Fetching' = Fetching /\ NoReport' = NoReport
      /\ \A c \in Cycles : c \in Nat
    BY SetupKept DEF TypeOK, Cycles, Running
<1>2. counts = [c \in Cycles |-> counts[c]]
    BY DEF Counting
<1>3. ASSUME StartCycle PROVE Counting'
    <2>1. /\ phase = "idle" /\ cycle' = cycle + 1 /\ phase' = "tier1"
          /\ UNCHANGED <<report, counts>>
        BY <1>3 DEF StartCycle
    <2>2. \A c \in Cycles : (Over(c))' <=> Over(c)
        BY <1>1, <2>1 DEF Over
    <2>3. QED
        BY <1>1, <2>1, <2>2 DEF Counting
<1>4. ASSUME Tier1Ends PROVE Counting'
    <2>1. /\ phase = "tier1" /\ cycle' = cycle /\ phase' = "tier2"
          /\ UNCHANGED <<report, counts>>
        BY <1>4 DEF Tier1Ends
    <2>2. \A c \in Cycles : (Over(c))' <=> Over(c)
        BY <1>1, <2>1 DEF Over
    <2>3. QED
        BY <1>1, <2>1, <2>2 DEF Counting
<1>5. ASSUME Tier2Ends PROVE Counting'
    <2>1. /\ phase = "tier2" /\ cycle' = cycle /\ phase' = "analyse" /\ report' = report
          /\ cycle \in Cycles /\ counts' = [counts EXCEPT ![cycle] = Count(report[cycle])]
        BY <1>5, CycleInCycles DEF Tier2Ends
    <2>2. \A c \in Cycles : c # cycle => ((Over(c))' <=> Over(c))
        BY <1>1, <2>1 DEF Over
    <2>3. \A c \in Cycles : counts'[c] = IF c = cycle THEN Count(report[c]) ELSE counts[c]
        BY <1>2, <2>1
    <2>4. counts' = [c \in Cycles |-> counts'[c]]
        BY <1>2, <2>1
    <2>5. (Over(cycle))'
        BY <2>1 DEF Over
    <2>6. QED
        BY <1>1, <2>1, <2>2, <2>3, <2>4, <2>5 DEF Counting
<1>6. ASSUME NEW c \in Cycles, NEW s \in Fetching, FetchStep(c, s) PROVE Counting'
    <2>1. attempt[c][s] > 0 /\ UNCHANGED <<phase, cycle, setup>>
        BY <1>6, FetchFacts
    <2>2. \A x \in Cycles : (Over(x))' <=> Over(x)
        BY <2>1 DEF Over
    <2>3. CASE Retries(c, s)
        BY <1>1, <2>1, <2>2, <2>3 DEF Retries, Counting
    <2>4. ASSUME NEW r \in Results, Land(c, s, r) PROVE Counting'
        <3>1. \A x \in Cycles : x # c => report'[x] = report[x]
            BY <2>1, <2>4, LandFacts
        <3>2. c <= cycle /\ (s \in Tier3 => Over(c))
            BY <2>1 DEF Deferred
        <3>3. CASE s \in Tier3
            <4>1. counts' = [counts EXCEPT ![c] = Count(report'[c])]
                BY <2>4, <3>3 DEF Land
            <4>2. /\ counts' = [x \in Cycles |-> counts'[x]]
                  /\ \A x \in Cycles : counts'[x] = IF x = c THEN Count(report'[x]) ELSE counts[x]
                BY <1>2, <4>1
            <4>3. ASSUME NEW x \in Cycles
                  PROVE  /\ (Over(x))' => counts'[x] = Count(report'[x])
                         /\ ~(Over(x))' => counts'[x] = NoCounts
                         /\ x > cycle' => report'[x] = NoReport
                BY <1>1, <2>1, <2>2, <3>1, <3>2, <3>3, <4>2 DEF Counting
            <4>4. QED
                BY <1>1, <4>2, <4>3 DEF Counting
        <3>4. CASE s \notin Tier3
            <4>1. counts' = counts
                BY <2>4, <3>4 DEF Land
            <4>2. ~Over(c)
                BY <1>1, <2>1, <3>4 DEF TypeOK, Over
            <4>3. ASSUME NEW x \in Cycles
                  PROVE  /\ (Over(x))' => counts'[x] = Count(report'[x])
                         /\ ~(Over(x))' => counts'[x] = NoCounts
                         /\ x > cycle' => report'[x] = NoReport
                BY <1>1, <2>1, <2>2, <3>1, <3>2, <4>1, <4>2 DEF Counting
            <4>4. QED
                BY <1>1, <1>2, <4>1, <4>3 DEF Counting
        <3>5. QED
            BY <3>3, <3>4
    <2>5. QED
        BY <1>6, <2>3, <2>4, FetchFacts
<1>7. ASSUME Cancel PROVE Counting'
    <2>1. /\ phase' = "idle" /\ UNCHANGED <<cycle, counts>>
          /\ \A x \in Cycles : report'[x] = IF x = cycle /\ ~Over(x) THEN NoReport ELSE report[x]
        BY <1>7, CancelFacts
    <2>2. \A x \in Cycles : (Over(x))' <=> x <= cycle
        BY <1>1, <2>1 DEF Over
    <2>3. ASSUME NEW x \in Cycles
          PROVE  /\ (Over(x))' => counts'[x] = Count(report'[x])
                 /\ ~(Over(x))' => counts'[x] = NoCounts
                 /\ x > cycle' => report'[x] = NoReport
        <3>1. CASE x > cycle
            BY <1>1, <2>1, <2>2, <3>1 DEF Counting, Over
        <3>2. CASE Over(x)
            BY <1>1, <2>1, <2>2, <3>2 DEF Counting, Over
        <3>3. CASE x = cycle /\ ~Over(x)
            BY <1>1, <2>1, <2>2, <3>3, CountNothing DEF Counting
        <3>4. QED
            BY <1>1, <3>1, <3>2, <3>3 DEF Over
    <2>4. QED
        BY <1>1, <1>2, <2>1, <2>3 DEF Counting
<1>8. ASSUME Crash PROVE Counting'
    <2>1. /\ report' = [c \in Cycles |-> NoReport] /\ counts' = [c \in Cycles |-> NoCounts]
        BY <1>8 DEF Crash
    <2>2. QED
        BY <1>1, <2>1, CountNothing DEF Counting
<1>9. ASSUME QuietStep PROVE Counting'
    <2>1. \A x \in Cycles : (Over(x))' <=> Over(x)
        BY <1>9 DEF QuietStep, Over
    <2>2. QED
        BY <1>1, <1>9, <2>1 DEF QuietStep, Counting
<1>10. QED
    BY <1>3, <1>4, <1>5, <1>6, <1>7, <1>8, <1>9, NextCases

-----------------------------------------------------------------------------
(* What is stored                                                          *)

\* Once tiers 1 and 2 of a cycle are over they stay so, and only tier 3 still
\* lands; a crash forgets, and nobody invents.
LEMMA Frozen ==
    ASSUME TypeOK, Running, Deferred, [Next]_vars, NEW c \in Cycles, Over(c)
    PROVE  /\ (Over(c))'
           /\ \A t \in Fetching \ Tier3 : report'[c][t] = report[c][t] \/ report'[c][t] = Missing
           /\ ~Crash => \A t \in Fetching \ Tier3 : report'[c][t] = report[c][t]
<1>1. cycle \in Nat /\ c \in Nat
    BY DEF TypeOK, Cycles, Running
<1>2. CASE StartCycle \/ Tier1Ends \/ Tier2Ends \/ QuietStep
    BY <1>1, <1>2 DEF StartCycle, Tier1Ends, Tier2Ends, QuietStep, Over
<1>3. ASSUME NEW x \in Cycles, NEW s \in Fetching, FetchStep(x, s)
      PROVE  (Over(c))' /\ \A t \in Fetching \ Tier3 : report'[c][t] = report[c][t]
    <2>1. attempt[x][s] > 0 /\ UNCHANGED <<phase, cycle, setup>>
        BY <1>3, FetchFacts
    <2>2. (Over(c))'
        BY <2>1 DEF Over
    <2>3. CASE Retries(x, s)
        BY <2>2, <2>3 DEF Retries
    <2>4. ASSUME NEW r \in Results, Land(x, s, r)
          PROVE  \A t \in Fetching \ Tier3 : report'[c][t] = report[c][t]
        <3>1. \A t \in Fetching : report'[c][t] = IF c = x /\ t = s THEN r ELSE report[c][t]
            BY <2>1, <2>4, LandFacts
        <3>2. s \in Tier3 \/ c # x
            BY <1>1, <2>1 DEF TypeOK, Over
        <3>3. QED
            BY <3>1, <3>2
    <2>5. QED
        BY <1>3, <2>2, <2>3, <2>4, FetchFacts
<1>4. CASE Cancel
    BY <1>1, <1>4, CancelFacts DEF Over
<1>5. CASE Crash
    <2>1. phase' = "down" /\ cycle' = cycle
        BY <1>5 DEF Crash
    <2>2. \A t \in Fetching : report'[c][t] = Missing
        BY <1>5 DEF Crash, NoReport
    <2>3. QED
        BY <1>1, <1>5, <2>1, <2>2 DEF Over
<1>6. QED
    BY <1>2, <1>3, <1>4, <1>5, NextCases

\* What the cycle works on stays the same while tier 3 lands.
LEMMA CollectedKept ==
    ASSUME TypeOK, Running, Deferred, [Next]_vars, ~Crash, cycle' = cycle,
           phase \in {"analyse", "results", "audit", "alert"}
    PROVE  Collected' = Collected
<1>1. cycle \in Cycles /\ Over(cycle)
    BY CycleInCycles DEF Over
<1>2. \A t \in Fetching \ Tier3 : report'[cycle][t] = report[cycle][t]
    BY <1>1, Frozen
<1>3. Fetching' = Fetching
    BY SetupKept
<1>4. QED
    BY <1>2, <1>3 DEF Collected, Success

\* Analysis scores what was collected, and the marks come from the same report.
LEMMA AnalyseScores ==
    ASSUME TypeOK, Running, Reports, Deferred, Analyse
    PROVE  Scored'
<1>1. cycle \in Cycles
    BY CycleInCycles DEF Analyse
<1>2. PICK failed \in SUBSET (ScoringDims \cap Collected) :
          signal'.used = UsedBy(failed) /\ signal'.mocks = MockDims
    BY DEF Analyse
<1>3. UNCHANGED <<setup, cycle, report>>
    BY DEF Analyse
<1>4. Collected' = Collected
    BY <1>3 DEF Collected, Fetching
<1>5. ASSUME NEW d \in ScoringDims
      PROVE  /\ signal'.used[d] # "none" => d \in Collected
             /\ signal'.used[d] = "generated" => d \in signal'.mocks
    <2>1. signal'.used[d] = IF d \in Collected \ failed THEN report[cycle][d].content ELSE "none"
        BY <1>2 DEF UsedBy
    <2>2. CASE d \in Collected \ failed
        <3>1. d \in Fetching /\ Honest(d, report[cycle][d].content, report[cycle][d].isMock)
            BY <1>1, <2>2, CollectedFacts
        <3>2. d \notin SilentFallbacks
            BY DEF ScoringDims, SilentFallbacks
        <3>3. report[cycle][d].content = "generated" => d \in MockDims
            BY <3>1, <3>2 DEF Honest, MockDims
        <3>4. QED
            BY <1>2, <2>1, <2>2, <3>3
    <2>3. CASE d \notin Collected \ failed
        BY <2>1, <2>3
    <2>4. QED
        BY <2>2, <2>3
<1>6. QED
    BY <1>4, <1>5 DEF Scored

\* No step has the running cycle's signal use what was not collected, or a generated value
\* it does not name.
LEMMA ScoredNext ==
    ASSUME TypeOK, Running, Reports, Deferred, Scored, [Next]_vars
    PROVE  Scored'
<1>1. ASSUME phase \in {"results", "audit", "alert"}, ~Crash, UNCHANGED <<cycle, signal>>
      PROVE  Scored'
    BY <1>1, CollectedKept DEF Scored
<1>2. ASSUME phase' \notin {"results", "audit", "alert"} PROVE Scored'
    BY <1>2 DEF Scored
<1>3. CASE Analyse
    BY <1>3, AnalyseScores
<1>4. CASE StartCycle \/ Tier1Ends \/ Tier2Ends \/ WriteAlert \/ NoAlert \/ PersistFails
           \/ Cancel \/ Crash \/ Restart
    BY <1>2, <1>4 DEF StartCycle, Tier1Ends, Tier2Ends, WriteAlert, NoAlert, PersistFails,
        Cancel, Crash, Restart
<1>5. ASSUME WriteResults \/ (\E s \in Fetching : WriteAudit(s)) \/ WriteSnapshot PROVE Scored'
    <2>1. /\ phase \in {"results", "audit", "alert"} /\ phase' # "down"
          /\ UNCHANGED <<cycle, signal>>
        BY <1>5 DEF WriteResults, WriteAudit, WriteSnapshot
    <2>2. ~Crash
        BY <2>1 DEF Crash
    <2>3. QED
        BY <1>1, <2>1, <2>2
<1>6. ASSUME UNCHANGED <<phase, cycle, signal>> PROVE Scored'
    <2>1. CASE phase \in {"results", "audit", "alert"}
        <3>1. ~Crash
            BY <1>6 DEF Crash
        <3>2. QED
            BY <1>1, <1>6, <2>1, <3>1
    <2>2. CASE phase \notin {"results", "audit", "alert"}
        BY <1>2, <1>6, <2>2
    <2>3. QED
        BY <2>1, <2>2
<1>7. CASE \E c \in Cycles, s \in Fetching : FetchStep(c, s)
    BY <1>6, <1>7, FetchFacts
<1>8. CASE (\E s \in Cached : CacheExpires(s)) \/ UNCHANGED vars
    BY <1>6, <1>8 DEF CacheExpires, vars
<1>9. QED
    BY <1>3, <1>4, <1>5, <1>7, <1>8 DEF Next, CycleStep

\* The snapshot is written after the audit of every source.
LEMMA TrailNext ==
    ASSUME TypeOK, Running, Deferred, Trail, [Next]_vars
    PROVE  Trail'
<1>1. ASSUME phase' # "alert" PROVE Trail'
    BY <1>1 DEF Trail
<1>2. CASE WriteSnapshot
    <2>1. /\ phase = "audit" /\ phase' = "alert" /\ Unaudited = {} /\ cycle' = cycle
          /\ audited' = audited /\ snapshots' = snapshots \cup {cycle}
        BY <1>2 DEF WriteSnapshot
    <2>2. ~Crash
        BY <2>1 DEF Crash
    <2>3. Collected' = Collected
        BY <2>1, <2>2, CollectedKept
    <2>4. \A s \in Collected : <<cycle, s>> \in audited
        BY <2>1 DEF Unaudited
    <2>5. QED
        BY <2>1, <2>3, <2>4 DEF Trail
<1>3. ASSUME UNCHANGED <<phase, cycle, audited, snapshots>> PROVE Trail'
    <2>1. CASE phase = "alert"
        <3>1. ~Crash
            BY <1>3, <2>1 DEF Crash
        <3>2. Collected' = Collected
            BY <1>3, <2>1, <3>1, CollectedKept
        <3>3. QED
            BY <1>3, <2>1, <3>2 DEF Trail
    <2>2. QED
        BY <1>1, <1>3, <2>1
<1>4. CASE StartCycle \/ Tier1Ends \/ Tier2Ends \/ Analyse \/ WriteResults
           \/ (\E s \in Fetching : WriteAudit(s)) \/ WriteAlert \/ NoAlert \/ PersistFails
           \/ Cancel \/ Crash \/ Restart
    BY <1>1, <1>4 DEF StartCycle, Tier1Ends, Tier2Ends, Analyse, WriteResults, WriteAudit,
        WriteAlert, NoAlert, PersistFails, Cancel, Crash, Restart
<1>5. CASE \E c \in Cycles, s \in Fetching : FetchStep(c, s)
    BY <1>3, <1>5, FetchFacts DEF database
<1>6. CASE (\E s \in Cached : CacheExpires(s)) \/ UNCHANGED vars
    BY <1>3, <1>6 DEF CacheExpires, vars, database
<1>7. QED
    BY <1>2, <1>4, <1>5, <1>6 DEF Next, CycleStep

\* Tier 3 has no scoring dimension.
LEMMA DimsAwaited == \A d \in ScoringDims : d \notin Tier3
BY DEF ScoringDims, Tier3

\* What has been stored stays backed: its cycle's results no longer change.
LEMMA StoredKept ==
    ASSUME TypeOK, Running, Deferred, Stored, [Next]_vars
    PROVE  /\ \A r \in rows : (RowStored(r))'
           /\ audited \subseteq audited' /\ snapshots \subseteq snapshots'
              => \A a \in alerts : (AlertStored(a))'
<1>1. Cycles' = Cycles /\ Fetching' = Fetching
    BY SetupKept
<1>2. ~Missing.error
    BY DEF Missing
<1>3. ASSUME NEW r \in rows PROVE (RowStored(r))'
    <2>1. r.cycle \in Cycles /\ r.source \in Fetching \ Tier3
        BY DEF TypeOK
    <2>2. /\ Over(r.cycle) /\ ~report[r.cycle][r.source].error
          /\ r.table \in MarkedTables => (r.marked <=> r.content = "generated")
        BY DEF Stored, RowStored
    <2>3. (Over(r.cycle))' /\ ~report'[r.cycle][r.source].error
        BY <1>2, <2>1, <2>2, Frozen
    <2>4. QED
        BY <2>2, <2>3 DEF RowStored
<1>4. ASSUME audited \subseteq audited', snapshots \subseteq snapshots', NEW a \in alerts
      PROVE  (AlertStored(a))'
    <2>1. AlertStored(a)
        BY DEF Stored
    <2>2. a.cycle \in Cycles /\ Over(a.cycle) /\ a.cycle \in snapshots'
        BY <1>4, <2>1 DEF AlertStored
    <2>3. (Over(a.cycle))'
        BY <2>2, Frozen
    <2>4. ASSUME NEW d \in ScoringDims, a.used[d] # "none"
          PROVE  d \in Fetching /\ ~report'[a.cycle][d].error /\ <<a.cycle, d>> \in audited'
        <3>1. d \in Fetching \ Tier3 /\ ~report[a.cycle][d].error /\ <<a.cycle, d>> \in audited
            BY <2>1, <2>4, DimsAwaited DEF AlertStored
        <3>2. ~report'[a.cycle][d].error
            BY <1>2, <2>2, <3>1, Frozen
        <3>3. QED
            BY <1>4, <3>1, <3>2
    <2>5. QED
        BY <1>1, <2>1, <2>2, <2>3, <2>4 DEF AlertStored
<1>5. QED
    BY <1>3, <1>4

\* No step stores a row or an alert that is not what its cycle collected.
LEMMA StoredNext ==
    ASSUME TypeOK, Running, Deferred, Reports, Scored, Trail, Stored, [Next]_vars
    PROVE  Stored'
<1>1. ASSUME UNCHANGED database PROVE Stored'
    BY <1>1, StoredKept DEF Stored, database
<1>2. CASE WriteResults
    <2>1. cycle \in Cycles /\ Over(cycle) /\ phase' = "audit" /\ UNCHANGED <<cycle, report>>
        BY <1>2, CycleInCycles DEF WriteResults, Over
    <2>2. ASSUME NEW r \in rows', r \notin rows PROVE (RowStored(r))'
        <3>1. /\ r.cycle = cycle /\ r.source \in Collected
              /\ r.content = report[cycle][r.source].content
              /\ r.table \in MarkedTables =>
                     r.source \in MarkedSources /\ r.marked = report[cycle][r.source].isMock
            BY <1>2, <2>1, <2>2, RowsWritten
        <3>2. /\ ~report[cycle][r.source].error
              /\ Honest(r.source, report[cycle][r.source].content, report[cycle][r.source].isMock)
            BY <2>1, <3>1, CollectedFacts
        <3>3. (Over(r.cycle))' /\ ~report'[r.cycle][r.source].error
            BY <2>1, <3>1, <3>2 DEF Over
        <3>4. QED
            BY <3>1, <3>2, <3>3 DEF RowStored, Honest
    <2>4. \A r \in rows' : (RowStored(r))'
        BY <2>2, StoredKept
    <2>5. UNCHANGED <<audited, snapshots, alerts>>
        BY <1>2 DEF WriteResults
    <2>6. QED
        BY <2>4, <2>5, StoredKept DEF Stored
<1>3. CASE \E s \in Fetching : WriteAudit(s)
    <2>1. /\ audited \subseteq audited' /\ UNCHANGED <<rows, snapshots, alerts>>
        BY <1>3 DEF WriteAudit
    <2>2. QED
        BY <2>1, StoredKept DEF Stored
<1>4. CASE WriteSnapshot
    <2>1. /\ snapshots \subseteq snapshots' /\ UNCHANGED <<rows, audited, alerts>>
        BY <1>4 DEF WriteSnapshot
    <2>2. QED
        BY <2>1, StoredKept DEF Stored
<1>5. CASE WriteAlert
    <2> DEFINE a == [cycle |-> cycle, used |-> signal.used, mocks |-> signal.mocks]
    <2>1. /\ phase = "alert" /\ phase' = "idle" /\ alerts' = alerts \cup {a}
          /\ UNCHANGED <<setup, cycle, report, rows, audited, snapshots>>
        BY <1>5 DEF WriteAlert
    <2>2. cycle \in Cycles /\ (Over(cycle))'
        BY <2>1, CycleInCycles DEF Over
    <2>3. Cycles' = Cycles /\ Fetching' = Fetching
        BY SetupKept
    <2>4. cycle \in snapshots /\ \A s \in Collected : <<cycle, s>> \in audited
        BY <2>1 DEF Trail
    <2>5. ASSUME NEW d \in ScoringDims
          PROVE  /\ signal.used[d] # "none" =>
                        d \in Fetching /\ ~report'[cycle][d].error /\ <<cycle, d>> \in audited'
                 /\ signal.used[d] = "generated" => d \in signal.mocks
        <3>1. /\ signal.used[d] # "none" => d \in Collected
              /\ signal.used[d] = "generated" => d \in signal.mocks
            BY <2>1 DEF Scored
        <3>2. QED
            BY <2>1, <2>2, <2>4, <3>1, CollectedFacts
    <2>6. a.cycle = cycle /\ a.used = signal.used /\ a.mocks = signal.mocks
        OBVIOUS
    <2> HIDE DEF a
    <2>7. cycle \in snapshots'
        BY <2>1, <2>4
    <2>8. ASSUME NEW b, b = a PROVE (AlertStored(b))'
        <3>1. b.cycle = cycle /\ b.used = signal.used /\ b.mocks = signal.mocks
            BY <2>6, <2>8
        <3>2. \A d \in ScoringDims :
                  /\ b.used[d] # "none" => /\ d \in Fetching'
                                           /\ ~report'[b.cycle][d].error
                                           /\ <<b.cycle, d>> \in audited'
                  /\ b.used[d] = "generated" => d \in b.mocks
            BY <2>3, <2>5, <3>1
        <3>3. (Over(b.cycle))'
            BY <2>1, <2>2, <3>1 DEF Over
        <3>4. b.cycle \in Cycles' /\ b.cycle \in snapshots'
            BY <2>2, <2>3, <2>7, <3>1
        <3>5. QED
            BY <3>2, <3>3, <3>4 DEF AlertStored
    <2>9. \A b \in alerts' : (AlertStored(b))'
        BY <2>1, <2>8, StoredKept
    <2>10. QED
        BY <2>1, <2>9, StoredKept DEF Stored
<1>6. CASE \E c \in Cycles, s \in Fetching : FetchStep(c, s)
    BY <1>1, <1>6, FetchFacts
<1>7. CASE StartCycle \/ Tier1Ends \/ Tier2Ends \/ Analyse \/ NoAlert \/ PersistFails
           \/ Cancel \/ Crash \/ Restart \/ (\E s \in Cached : CacheExpires(s)) \/ UNCHANGED vars
    BY <1>1, <1>7 DEF StartCycle, Tier1Ends, Tier2Ends, Analyse, NoAlert, PersistFails, Cancel, Crash,
        Restart, CacheExpires, vars, database
<1>8. QED
    BY <1>2, <1>3, <1>4, <1>5, <1>6, <1>7 DEF Next, CycleStep

-----------------------------------------------------------------------------
(* The theorems                                                            *)

\* The invariant holds at first.
LEMMA InvInit == Init => IInv
<1> SUFFICES ASSUME Init PROVE IInv
    OBVIOUS
<1>1. PICK u \in Setups, net \in BOOLEAN :
          \E ks : setup = [sources |-> u.sources, cycles |-> u.cycles, keys |-> ks, online |-> net]
    BY DEF Init
<1>2. setup.sources \subseteq Sources /\ setup.online \in BOOLEAN /\ setup.cycles \in Nat \ {0}
    BY <1>1, SetupsAssumption
<1>3. /\ phase = "idle" /\ cycle = 0
      /\ attempt = [c \in Cycles |-> NoTasks] /\ report = [c \in Cycles |-> NoReport]
      /\ counts = [c \in Cycles |-> NoCounts] /\ cache = [s \in Cached |-> "none"]
      /\ signal = NoSignal /\ rows = {} /\ audited = {} /\ snapshots = {} /\ alerts = {}
      /\ faults = 0
    BY DEF Init
<1>4. NoTasks \in [Fetching -> 0 .. MaxRetries] /\ NoReport \in [Fetching -> Results]
    BY RetriesAssumption DEF NoTasks, NoReport, Missing, Results
<1>5. \A c \in Cycles, s \in Fetching : attempt[c][s] = 0 /\ report[c][s] = Missing
    BY <1>3 DEF NoTasks, NoReport
<1>6. TypeOK
    BY <1>2, <1>3, <1>4, <1>5, FaultsAssumption DEF TypeOK, NoSignal
<1>7. Running /\ Deferred
    BY <1>2, <1>3, <1>5 DEF Running, Deferred
<1>8. Reports
    BY <1>5 DEF Reports, HonestResult, Honest, Missing
<1>9. Counting
    BY <1>3, CountNothing DEF Counting
<1>10. Scored /\ Trail /\ Stored
    BY <1>3 DEF Scored, Trail, Stored
<1>11. QED
    BY <1>6, <1>7, <1>8, <1>9, <1>10 DEF IInv

\* Every step keeps the invariant.
LEMMA InvNext == IInv /\ [Next]_vars => IInv'
BY TypeNext, RunningNext, DeferredNext, ReportsNext, CountingNext, ScoredNext, TrailNext, StoredNext
DEF IInv

\* The invariant holds throughout.
THEOREM CycleInductive == Spec => []IInv
<1>1. QED
    BY InvInit, InvNext, PTL DEF Spec

\* Type correctness of CollectCycle; a task of tier 1 or 2 is only under way while
\* its cycle waits for it.
THEOREM CycleTypeCorrect == Spec => []TypeOK
<1>1. IInv => TypeOK
    BY DEF IInv
<1>2. QED
    BY <1>1, CycleInductive, PTL

\* From a fetcher's return to a stored alert, generated and failed values stay
\* apart from those that were fetched.
LEMMA InvHonest == IInv => ValuesAreHonest
<1> SUFFICES ASSUME IInv PROVE ValuesAreHonest
    OBVIOUS
<1>1. TypeOK /\ Reports /\ Stored
    BY DEF IInv
<1>2. MarksAreHonest
    BY <1>1 DEF MarksAreHonest, Reports, HonestResult, Honest
<1>3. TablesAreHonest
    BY <1>1 DEF TablesAreHonest, Stored, RowStored
<1>4. ScoringIsHonest
    BY <1>1 DEF ScoringIsHonest, Stored, AlertStored
<1>5. FailuresAreLeftOut
    BY <1>1 DEF FailuresAreLeftOut, Stored, RowStored, AlertStored
<1>6. QED
    BY <1>2, <1>3, <1>4, <1>5 DEF ValuesAreHonest

\* Whatever the upstreams answer and whatever keys are set, in any number of
\* cycles and crashes: marks survive from the fetchers to the tables that have a
\* column for them and to the alerts that weights are learnt from, and failures are never stored as values.
THEOREM CycleValuesAreHonest == Spec => []ValuesAreHonest
<1>1. QED
    BY InvHonest, CycleInductive, PTL

\* Once tiers 1 and 2 are over, the invariant leaves no counter stale.
LEMMA InvFresh == IInv => CountsAreFresh
<1> SUFFICES ASSUME IInv, NEW c \in Cycles, ~(c = cycle /\ phase \in {"tier1", "tier2"})
             PROVE  counts[c] = Count(report[c])
    BY DEF CountsAreFresh
<1>1. cycle \in Nat /\ c \in Nat /\ Counting
    BY DEF IInv, TypeOK, Running, Cycles
<1>2. CASE Over(c)
    BY <1>1, <1>2 DEF Counting
<1>3. CASE ~Over(c)
    <2>1. c > cycle
        BY <1>1, <1>3 DEF Over
    <2>2. QED
        BY <1>1, <1>3, <2>1, CountNothing DEF Counting
<1>4. QED
    BY <1>2, <1>3

\* The counters of every report agree with it, before and after the deferred
\* tier lands.
THEOREM CycleCountsAreFresh == Spec => []CountsAreFresh
<1>1. QED
    BY InvFresh, CycleInductive, PTL

\* An alert is only ever stored with the snapshot and the audit entries it rests on.
THEOREM CycleAlertBacked == Spec => []AlertBacked
<1>1. IInv => AlertBacked
    BY DEF IInv, Stored, AlertStored, AlertBacked
<1>2. QED
    BY <1>1, CycleInductive, PTL
============================================================================
