---------------------------- MODULE CollectCycle ----------------------------
(***************************************************************************)
(* One Collect -> Analyse -> Score -> Persist cycle of the pipeline: the   *)
(* tiers of ConcurrentExecutor with their retries and timeouts, the report *)
(* that a deferred tier 3 completes later, the scoring dimensions and the  *)
(* chain of transactions of _persist().                                    *)
(*                                                                         *)
(* Values are only told apart by where they come from (Fetchers).  That a  *)
(* single cycle runs at a time, and who starts and cancels it, is          *)
(* PipelineLifecycle's subject.                                            *)
(***************************************************************************)
EXTENDS Fetchers, Integers

CONSTANTS Setups,       \* records [sources, cycles]: the fetchers of a run, and a bound on its cycles
          MaxRetries,   \* attempts of fetch_with_retry(); 3 in the code
          MaxFaults     \* bound on cancellations and crashes

ASSUME SetupsAssumption ==
    \A u \in Setups : u.sources \subseteq Sources /\ u.cycles \in Nat \ {0}
ASSUME RetriesAssumption == MaxRetries \in Nat \ {0}
ASSUME FaultsAssumption  == MaxFaults \in Nat

Tier1 == {"GEXMetrix"}
Tier3 == {"AXLFI"}
Tier2 == Sources \ (Tier1 \cup Tier3)

\* The sources whose analyzers feed the scorer.
ScoringDims == {"GEXMetrix", "VIX", "crypto_derivatives", "dark_pool_metrics"}

\* The tables with an is_mock column, and the others.
MarkedTables   == {"gex_snapshots", "vix_analysis", "dark_pool_metrics", "crypto_derivatives"}
UnmarkedTables == {"vix_term_structure", "crypto_oi_history", "sector_rotation",
                   "sector_rotation_aggregates", "options_greeks", "gateway_snapshots"}

\* The tables that values of source s go to.  gateway_snapshots gets a digest of
\* a payload; strike rows belong to their snapshot, and the history of the dark
\* pools is only ever an upstream's.
TablesOf(s, content) ==
    CASE s = "GEXMetrix"          -> {"gex_snapshots"}
      [] s = "CBOE"               -> {"vix_analysis"}
      [] s \in {"VIX", "vix_term_structure"} -> {"vix_analysis", "vix_term_structure"}
      [] s = "dark_pool_metrics"  -> {"dark_pool_metrics"}
      [] s = "crypto_derivatives" -> {"crypto_derivatives"}
                                     \cup (IF content = "hollow" THEN {} ELSE {"crypto_oi_history"})
      [] s = "sector_rotation"    -> {"sector_rotation", "sector_rotation_aggregates"}
      [] s = "options_greeks"     -> IF content = "hollow" THEN {} ELSE {"options_greeks"}
      [] OTHER                    -> {"gateway_snapshots"}

\* The table a writer of two has filled before this one.
Before == [vix_term_structure         |-> "vix_analysis",
           crypto_oi_history          |-> "crypto_derivatives",
           sector_rotation_aggregates |-> "sector_rotation"]

\* The fetchers that keep a result in a module-level cache.
Cached == {"money_flow", "sector_rotation"}

VARIABLES
    setup,      \* the fetchers, the API keys that are set, network_enabled
    phase,      \* where the cycle is; "idle" between cycles, "down" after a crash
    cycle,      \* number of cycles started
    attempt,    \* [cycle -> [source -> attempt under way, 0: no task]]
    report,     \* [cycle -> [source -> FetchResult, or Missing]]
    counts,     \* [cycle -> the counters of its ExecutionReport]
    cache,      \* [cached source -> "none", "real", "hollow"]
    signal,     \* what the running cycle scored
    rows,       \* committed rows: [cycle, source, table, content, marked, base]
    audited,    \* committed audit entries: <<cycle, source>>
    snapshots,  \* cycles with a committed gateway snapshot
    alerts,     \* committed signal_alerts: [cycle, used, mocks]
    faults

vars == <<setup, phase, cycle, attempt, report, counts, cache, signal,
          rows, audited, snapshots, alerts, faults>>
database == <<rows, audited, snapshots, alerts>>

-----------------------------------------------------------------------------

Missing == [content |-> "none", isMock |-> FALSE, error |-> FALSE]
Timeout == [content |-> "none", isMock |-> FALSE, error |-> TRUE]
Results == [content : Contents \cup {"none"}, isMock : BOOLEAN, error : BOOLEAN]

Cycles   == 1 .. setup.cycles
Fetching == setup.sources

Success(r) == r # Missing /\ ~r.error

\* The counters of an ExecutionReport, from the results it holds.
Count(r) ==
    [success |-> Cardinality({s \in DOMAIN r : Success(r[s]) /\ ~r[s].isMock}),
     error   |-> Cardinality({s \in DOMAIN r : r[s].error}),
     mock    |-> Cardinality({s \in DOMAIN r : r[s].isMock})]

NoCounts == [success |-> 0, error |-> 0, mock |-> 0]
NoReport == [s \in Fetching |-> Missing]
NoTasks  == [s \in Fetching |-> 0]
NoSignal == [used |-> [d \in ScoringDims |-> "none"], mocks |-> {}, alert |-> FALSE]

\* The data the cycle works on: tier 3 has not started when it is taken.
Collected == {s \in Fetching \ Tier3 : Success(report[cycle][s])}

Init ==
    /\ \E u \in Setups, net \in BOOLEAN :
           \E ks \in SUBSET UNION {KeysOf(s) : s \in u.sources} :
               setup = [sources |-> u.sources, cycles |-> u.cycles, keys |-> ks, online |-> net]
    /\ phase = "idle"
    /\ cycle = 0
    /\ attempt = [c \in Cycles |-> NoTasks]
    /\ report = [c \in Cycles |-> NoReport]
    /\ counts = [c \in Cycles |-> NoCounts]
    /\ cache = [s \in Cached |-> "none"]
    /\ signal = NoSignal
    /\ rows = {} /\ audited = {} /\ snapshots = {} /\ alerts = {}
    /\ faults = 0

-----------------------------------------------------------------------------
(* Collection                                                              *)

\* A task per fetcher of the tier.
Launch(c, tier) == [attempt EXCEPT ![c] =
                       [s \in Fetching |-> IF s \in tier THEN 1 ELSE attempt[c][s]]]

TierDone(c, tier) == \A s \in Fetching \cap tier : attempt[c][s] = 0

StartCycle ==
    /\ phase = "idle"
    /\ cycle < setup.cycles
    /\ phase' = "tier1"
    /\ cycle' = cycle + 1
    /\ attempt' = Launch(cycle + 1, Tier1)
    /\ signal' = NoSignal
    /\ UNCHANGED <<setup, report, counts, cache, database, faults>>

\* (mutant) The counters are left as they were when tier 3 was deferred.
LandUncounted(c, s, result) ==
    /\ attempt' = [attempt EXCEPT ![c][s] = 0]
    /\ report' = [report EXCEPT ![c][s] = result]
    /\ counts' = counts

\* A tier-3 result lands in the report of the cycle that deferred it, and the
\* counters follow without an await in between.
Land(c, s, result) ==
    /\ attempt' = [attempt EXCEPT ![c][s] = 0]
    /\ report' = [report EXCEPT ![c][s] = result]
    /\ counts' = IF s \in Tier3 THEN [counts EXCEPT ![c] = Count(report'[c])] ELSE counts

\* fetch_with_retry() without a network or a key: no attempt is made.
MockAtOnce(c, s) ==
    /\ attempt[c][s] = 1
    /\ ~setup.online \/ MockMode(s, setup.keys)
    /\ Land(c, s, [content |-> MockContent(s), isMock |-> TRUE, error |-> FALSE])
    /\ UNCHANGED <<setup, phase, cycle, cache, signal, database, faults>>

\* The module-level caches keep what the upstream gave.
Keep(s, content) ==
    IF s \in Cached /\ cache[s] = "none" /\ (s = "sector_rotation" \/ content = "real")
    THEN [cache EXCEPT ![s] = content]
    ELSE cache

Asked(c, s) == attempt[c][s] > 0 /\ setup.online /\ ~MockMode(s, setup.keys)

CachedFor(s) == IF s \in Cached THEN cache[s] ELSE "none"

\* fetch() returns: the result is used, with its marker, at once.
Fetched(c, s) ==
    /\ Asked(c, s)
    /\ \E a \in [Upstreams[s] -> Answers] :
           LET out == Fetch(s, a, setup.keys, CachedFor(s)) IN
           /\ out # Raised
           /\ Land(c, s, [content |-> out.content, isMock |-> out.internal, error |-> FALSE])
           /\ cache' = Keep(s, out.content)
    /\ UNCHANGED <<setup, phase, cycle, signal, database, faults>>

\* fetch() raises, or its data is not valid: another attempt after a delay, and
\* generated data with the error when there is none left.
FetchRaises(c, s) ==
    /\ Asked(c, s)
    /\ \E a \in [Upstreams[s] -> Answers] : Fetch(s, a, setup.keys, CachedFor(s)) = Raised
    /\ IF attempt[c][s] < MaxRetries
       THEN attempt' = [attempt EXCEPT ![c][s] = @ + 1] /\ UNCHANGED <<report, counts>>
       ELSE Land(c, s, [content |-> MockContent(s), isMock |-> TRUE, error |-> TRUE])
    /\ UNCHANGED <<setup, phase, cycle, cache, signal, database, faults>>

\* (mutant) The timer only covers the first attempt.
FirstAttemptTimesOut(c, s) ==
    /\ Asked(c, s)
    /\ attempt[c][s] = 1
    /\ Land(c, s, Timeout)
    /\ UNCHANGED <<setup, phase, cycle, cache, signal, database, faults>>

\* wait_for() in _execute_single() expires, whatever attempt was under way.
FetchTimesOut(c, s) ==
    /\ Asked(c, s)
    /\ Land(c, s, Timeout)
    /\ UNCHANGED <<setup, phase, cycle, cache, signal, database, faults>>

CacheExpires(s) ==
    /\ cache[s] # "none"
    /\ cache' = [cache EXCEPT ![s] = "none"]
    /\ UNCHANGED <<setup, phase, cycle, attempt, report, counts, signal, database, faults>>

Tier1Ends ==
    /\ phase = "tier1"
    /\ TierDone(cycle, Tier1)
    /\ phase' = "tier2"
    /\ attempt' = Launch(cycle, Tier2)
    /\ UNCHANGED <<setup, cycle, report, counts, cache, signal, database, faults>>

\* Tier 3 is left to a background task; the counters are computed without it.
Tier2Ends ==
    /\ phase = "tier2"
    /\ TierDone(cycle, Tier2)
    /\ phase' = "analyse"
    /\ attempt' = Launch(cycle, Tier3)
    /\ counts' = [counts EXCEPT ![cycle] = Count(report[cycle])]
    /\ UNCHANGED <<setup, cycle, report, cache, signal, database, faults>>

-----------------------------------------------------------------------------
(* Analysis and scoring                                                    *)

\* A dimension scores on the data of its source unless its analyzer fails.
UsedBy(failed) ==
    [d \in ScoringDims |-> IF d \in Collected \ failed THEN report[cycle][d].content ELSE "none"]

\* (mutant) Only the fetches that failed count as mock.
FailedMockDims == {d \in ScoringDims \cap Fetching : report[cycle][d].isMock /\ report[cycle][d].error}

\* mock_by_dim, from the report and not from what was used.
MockDims == {d \in ScoringDims \cap Fetching : report[cycle][d].isMock}

\* No score comes from a dimension without data, so neither does an alert.
Analyse ==
    /\ phase = "analyse"
    /\ \E failed \in SUBSET (ScoringDims \cap Collected), alert \in BOOLEAN :
           /\ alert => \E d \in ScoringDims : UsedBy(failed)[d] # "none"
           /\ signal' = [used |-> UsedBy(failed), mocks |-> MockDims, alert |-> alert]
    /\ phase' = "results"
    /\ UNCHANGED <<setup, cycle, attempt, report, counts, cache, database, faults>>

-----------------------------------------------------------------------------
(* _persist(): each step is a transaction of its own, and the first that   *)
(* fails ends the chain.                                                   *)

\* What the change of open interest over the last hour may be computed against.
\* Only values that lack it need one, and have an open interest: the real ones.
\* Any row of the history may be the one nearest to an hour ago.
Bases ==
    LET history == {r.content : r \in {x \in rows : x.table = "crypto_oi_history"}} IN
    IF /\ "crypto_derivatives" \in Collected
       /\ report[cycle]["crypto_derivatives"].content = "real"
       /\ history # {}
    THEN history
    ELSE {"none"}

\* A row of source s in table t: is_mock is what the report says, if the table
\* has that column.
RowOf(s, t, base) ==
    [cycle |-> cycle, source |-> s, table |-> t,
     content |-> report[cycle][s].content,
     marked |-> t \in MarkedTables /\ report[cycle][s].isMock,
     base |-> IF t = "crypto_derivatives" THEN base ELSE "none"]

RowsOf(s, base) == {RowOf(s, t, base) : t \in TablesOf(s, report[cycle][s].content)}

\* A source whose writer raises is skipped, though what it had written before
\* stays; all is committed together.
WriteResults ==
    /\ phase = "results"
    /\ \E base \in Bases :
       \E written \in SUBSET UNION {RowsOf(s, base) : s \in Collected} :
           /\ \A r \in written : r.table \in DOMAIN Before =>
                  \E q \in written : q.source = r.source /\ q.table = Before[r.table]
           /\ rows' = rows \cup written
    /\ phase' = "audit"
    /\ UNCHANGED <<setup, cycle, attempt, report, counts, cache, signal,
                   audited, snapshots, alerts, faults>>

Unaudited == {s \in Collected : <<cycle, s>> \notin audited}

WriteAudit(s) ==
    /\ phase = "audit"
    /\ s \in Unaudited
    /\ audited' = audited \cup {<<cycle, s>>}
    /\ UNCHANGED <<setup, phase, cycle, attempt, report, counts, cache, signal,
                   rows, snapshots, alerts, faults>>

WriteSnapshot ==
    /\ phase = "audit"
    /\ Unaudited = {}
    /\ snapshots' = snapshots \cup {cycle}
    /\ phase' = "alert"
    /\ UNCHANGED <<setup, cycle, attempt, report, counts, cache, signal,
                   rows, audited, alerts, faults>>

WriteAlert ==
    /\ phase = "alert"
    /\ signal.alert
    /\ alerts' = alerts \cup {[cycle |-> cycle, used |-> signal.used, mocks |-> signal.mocks]}
    /\ phase' = "idle"
    /\ UNCHANGED <<setup, cycle, attempt, report, counts, cache, signal,
                   rows, audited, snapshots, faults>>

NoAlert ==
    /\ phase = "alert"
    /\ ~signal.alert
    /\ phase' = "idle"
    /\ UNCHANGED <<setup, cycle, attempt, report, counts, cache, signal, database, faults>>

\* (mutant) The chain goes on after a failed audit entry.
PersistFailsSoftly ==
    /\ phase \in {"results", "audit", "alert"}
    /\ phase' = IF phase = "audit" THEN "alert" ELSE "idle"
    /\ UNCHANGED <<setup, cycle, attempt, report, counts, cache, signal, database, faults>>

\* An exception in any of these steps is logged and the cycle ends.
PersistFails ==
    /\ phase \in {"results", "audit", "alert"}
    /\ phase' = "idle"
    /\ UNCHANGED <<setup, cycle, attempt, report, counts, cache, signal, database, faults>>

-----------------------------------------------------------------------------
(* Cancellation and crashes                                                *)

\* stop() cancels the cycle and, through gather(), the tasks of its tier; its
\* report is lost.  A deferred tier 3 goes on.
Cancel ==
    /\ phase \notin {"idle", "down"}
    /\ faults < MaxFaults
    /\ faults' = faults + 1
    /\ phase' = "idle"
    /\ attempt' = [attempt EXCEPT ![cycle] =
                      [s \in Fetching |-> IF s \in Tier3 THEN attempt[cycle][s] ELSE 0]]
    /\ report' = IF phase \in {"tier1", "tier2"} THEN [report EXCEPT ![cycle] = NoReport] ELSE report
    /\ UNCHANGED <<setup, cycle, counts, cache, signal, database>>

\* Only what was committed is left.
Crash ==
    /\ phase # "down"
    /\ faults < MaxFaults
    /\ faults' = faults + 1
    /\ phase' = "down"
    /\ attempt' = [c \in Cycles |-> NoTasks]
    /\ report' = [c \in Cycles |-> NoReport]
    /\ counts' = [c \in Cycles |-> NoCounts]
    /\ cache' = [s \in Cached |-> "none"]
    /\ signal' = NoSignal
    /\ UNCHANGED <<setup, cycle, database>>

Restart ==
    /\ phase = "down"
    /\ phase' = "idle"
    /\ UNCHANGED <<setup, cycle, attempt, report, counts, cache, signal, database, faults>>

-----------------------------------------------------------------------------

FetchStep(c, s) == MockAtOnce(c, s) \/ Fetched(c, s) \/ FetchRaises(c, s) \/ FetchTimesOut(c, s)

CycleStep == Tier1Ends \/ Tier2Ends \/ Analyse \/ WriteResults \/ (\E s \in Fetching : WriteAudit(s))
             \/ WriteSnapshot \/ WriteAlert \/ NoAlert \/ PersistFails

Next == StartCycle \/ CycleStep
        \/ (\E c \in Cycles, s \in Fetching : FetchStep(c, s))
        \/ (\E s \in Cached : CacheExpires(s))
        \/ Cancel \/ Crash \/ Restart

Spec == Init /\ [][Next]_vars

\* The event loop keeps running the cycle, and the timers fire: that an upstream
\* ever answers is not assumed.
Fairness == /\ WF_vars(CycleStep)
            /\ \A c \in UNION {1 .. u.cycles : u \in Setups}, s \in Sources :
                   WF_vars(/\ c \in Cycles
                           /\ s \in Fetching
                           /\ MockAtOnce(c, s) \/ FetchTimesOut(c, s))

FairSpec == Spec /\ Fairness

-----------------------------------------------------------------------------
(* Properties                                                              *)

\* Type correctness; a task of tier 1 or 2 is only under way while its cycle
\* waits for it.
TypeOK ==
    /\ setup.sources \subseteq Sources /\ setup.online \in BOOLEAN
    /\ phase \in {"idle", "tier1", "tier2", "analyse", "results", "audit", "alert", "down"}
    /\ cycle \in 0 .. setup.cycles
    /\ attempt \in [Cycles -> [Fetching -> 0 .. MaxRetries]]
    /\ report \in [Cycles -> [Fetching -> Results]]
    /\ \A c \in Cycles, s \in Fetching : attempt[c][s] > 0 =>
           \/ s \in Tier3
           \/ c = cycle /\ phase = (IF s \in Tier1 THEN "tier1" ELSE "tier2")
    /\ cache \in [Cached -> {"none", "real", "hollow"}]
    /\ signal.used \in [ScoringDims -> Contents \cup {"none"}]
    /\ rows \subseteq [cycle : Cycles, source : Fetching \ Tier3,
                       table : MarkedTables \cup UnmarkedTables, content : Contents,
                       marked : BOOLEAN, base : Contents \cup {"none"}]
    /\ audited \subseteq Cycles \X Fetching
    /\ snapshots \subseteq Cycles
    /\ faults \in 0 .. MaxFaults

\* Three fetchers return generated values as if they were fetched, against
\* ccdata_fetcher.py:9 and its like.
SilentFallbacks == {"llm_inference", "market_sentiment", "ccdata"}

\* A result is marked is_mock when its values are made up, along every path that
\* makes them up (no network, no key, an upstream that is down, attempts that
\* are used up), and never when they came from an upstream or a cache.
MarksAreHonest ==
    \A c \in Cycles, s \in Fetching :
        LET r == report[c][s] IN
        /\ r.content = "generated" => r.isMock \/ s \in SilentFallbacks
        /\ r.content = "real" => ~r.isMock

\* Where a table has an is_mock column it tells generated rows from the others,
\* also for rows of earlier cycles.  The other tables cannot tell
\* (GeneratedRowsAreMarked).
TablesAreHonest ==
    \A r \in rows : r.table \in MarkedTables => (r.marked <=> r.content = "generated")

\* A stored alert names in mock_sources each dimension that was scored on
\* generated values: Bayesian learning leaves such alerts out.
ScoringIsHonest ==
    \A a \in alerts : {d \in ScoringDims : a.used[d] = "generated"} \subseteq a.mocks

\* Whoever reads a report after the collection finds its counters in agreement
\* with its results, before and after the deferred tier lands, whichever cycle
\* is running by then.
CountsAreFresh ==
    \A c \in Cycles :
        ~(c = cycle /\ phase \in {"tier1", "tier2"}) => counts[c] = Count(report[c])

\* Values generated because the attempts were used up never reach a table or a
\* score, though the report carries them.
FailuresAreLeftOut ==
    /\ \A r \in rows : ~report[r.cycle][r.source].error
    /\ \A a \in alerts, d \in ScoringDims \cap Fetching :
           a.used[d] # "none" => ~report[a.cycle][d].error

\* A stored alert has its whole trail: the gateway snapshot of its cycle and an
\* audit entry for every source it scored, whatever fails, is cancelled or
\* crashes in between.
AlertBacked ==
    \A a \in alerts :
        /\ a.cycle \in snapshots
        /\ \A d \in ScoringDims : a.used[d] # "none" => <<a.cycle, d>> \in audited

\* What is generated or failed stays apart from what was fetched, from a fetcher's
\* return to the tables that have a mark and to the alerts that the weights are
\* learnt from.
ValuesAreHonest == MarksAreHonest /\ TablesAreHonest /\ ScoringIsHonest /\ FailuresAreLeftOut

\* The marker that a fetcher sets so that "the data writer can persist the mock
\* marker to the DB column" (vix_term_fetcher.py:67) is in the database for every
\* row made of generated values.  It is not: three writers drop it.
GeneratedRowsAreMarked ==
    \A r \in rows : r.table # "gateway_snapshots" /\ r.content = "generated" => r.marked

\* The change of open interest that is stored with real values is computed "from
\* real prior snapshots" (data_writer.py:369), whatever earlier cycles stored.  It
\* is not: the history does not tell which of its rows were generated.
ChangesAreReal ==
    \A r \in rows : r.table = "crypto_derivatives" /\ r.content = "real" => r.base # "generated"

\* A cycle ends, even when no upstream ever answers.
CycleTerminates == phase \notin {"idle", "down"} ~> phase \in {"idle", "down"}

=============================================================================
