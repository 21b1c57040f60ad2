------------------------- MODULE PipelineLifecycle -------------------------
(***************************************************************************)
(* Who runs a collection cycle, and when: Pipeline.start(), stop() and     *)
(* run_cycle() of backend/pipeline/pipeline.py, as the endpoints of        *)
(* main.py and api/routes/system.py, the application's shutdown and the    *)
(* jobs of utils/scheduler.py use them.                                    *)
(*                                                                         *)
(* Everything runs on one event loop, so an action is the code a task      *)
(* runs between two awaits that can suspend it (EventBus.publish() and an  *)
(* uncontended asyncio.Lock cannot).  What a cycle collects is left out.   *)
(***************************************************************************)
EXTENDS Integers, FiniteSets

CONSTANTS Loops,      \* tasks made by start_background(); ids are reused
          Manuals,    \* POST /collect-manual requests
          Stoppers,   \* requests that call pipeline.stop()
          Shutdown,   \* the pipeline.stop() of the lifespan's exit
          Jobs,       \* scheduler jobs that check is_writing
          Nobody

ASSUME LifecycleAssumption == /\ Loops \cap Manuals = {}
                              /\ Nobody \notin Loops \cup Manuals
                              /\ Shutdown \notin Stoppers

Runners == Loops \cup Manuals
Callers == Stoppers \cup {Shutdown}

VARIABLES
    running,     \* _running
    task,        \* _task: the loop that start_background() made last
    inCycle,     \* _in_cycle
    writing,     \* _is_writing
    pc,          \* where each loop and each manual request is, see Phases
    cancelled,   \* loops cancelled whose CancelledError is still to be raised
    tier3,       \* is executor._tier3_task running
    stopPc,      \* where each call of stop() is
    joining,     \* the task that call awaits
    job,         \* is each job at work
    up           \* does the server take requests

stopVars == <<stopPc, joining>>
vars == <<running, task, inCycle, writing, pc, cancelled, tier3,
          job, up, stopVars>>

Phases == {"off",        \* not running
           "created",    \* a task whose coroutine has not begun
           "collect",    \* phase 1, awaiting the fetchers
           "analyse",    \* phases 2 and 3
           "persist",    \* awaiting the data writer
           "sleep"}      \* a loop between two cycles

Cycling == {"collect", "analyse", "persist"}
At(phases) == {r \in Runners : pc[r] \in phases}
Alive == {l \in Loops : pc[l] # "off"}

Init ==
    /\ running = FALSE
    /\ \E l \in Loops : /\ task = l
                        /\ pc = [r \in Runners |-> IF r = l THEN "created" ELSE "off"]
    /\ inCycle = FALSE
    /\ writing = FALSE
    /\ cancelled = {}
    /\ tier3 = FALSE
    /\ stopPc = [s \in Callers |-> "idle"]
    /\ joining = [s \in Callers |-> Nobody]
    /\ job = [j \in Jobs |-> FALSE]
    /\ up = TRUE

-----------------------------------------------------------------------------
(* The loop                                                                *)

\* The same without the check of is_running.
StartRequestUnchecked(l) ==
    /\ up
    /\ pc[l] = "off"
    /\ \A s \in Callers : joining[s] # l
    /\ task' = l
    /\ pc' = [pc EXCEPT ![l] = "created"]
    /\ UNCHANGED <<running, inCycle, writing, cancelled, tier3,
                   stopPc, joining, job, up>>

\* start-collect and auto-polling: is_running is checked and the task created
\* without an await, but _running is set only when the task first runs.
StartRequest(l) ==
    /\ up
    /\ ~running
    /\ pc[l] = "off"
    /\ \A s \in Callers : joining[s] # l
    /\ task' = l
    /\ pc' = [pc EXCEPT ![l] = "created"]
    /\ UNCHANGED <<running, inCycle, writing, cancelled, tier3,
                   stopPc, joining, job, up>>

\* run_cycle() without its single-flight guard.
EnterCycleUnguarded(r, skipTo) ==
    /\ inCycle' = TRUE
    /\ pc' = [pc EXCEPT ![r] = "collect"]

\* run_cycle() called by r, which goes to skipTo when a cycle is in flight.
EnterCycle(r, skipTo) ==
    /\ inCycle' = TRUE
    /\ pc' = [pc EXCEPT ![r] = IF inCycle THEN skipTo ELSE "collect"]

\* A loop whose check of `self._running` fails, or that is cancelled.
LoopExits(l) == /\ pc' = [pc EXCEPT ![l] = "off"]
                /\ running' = FALSE

\* start() begins: a second loop finds _running set and returns.
LoopBegins(l) ==
    /\ pc[l] = "created" /\ l \notin cancelled
    /\ \/ /\ running
          /\ pc' = [pc EXCEPT ![l] = "off"]
          /\ UNCHANGED <<running, inCycle>>
       \/ /\ ~running
          /\ running' = TRUE
          /\ EnterCycle(l, "sleep")
    /\ UNCHANGED <<task, writing, cancelled, tier3, stopVars, job, up>>

\* The sleep of fetch_interval_seconds ends.
LoopWakes(l) ==
    /\ pc[l] = "sleep" /\ l \notin cancelled
    /\ \/ /\ running
          /\ EnterCycle(l, "sleep")
          /\ UNCHANGED running
       \/ /\ ~running
          /\ LoopExits(l)
          /\ UNCHANGED inCycle
    /\ UNCHANGED <<task, writing, cancelled, tier3, stopVars, job, up>>

\* What a runner does when run_cycle() has returned or raised.
AfterCycle(r) ==
    \/ /\ r \in Loops /\ running
       /\ pc' = [pc EXCEPT ![r] = "sleep"]
       /\ UNCHANGED running
    \/ /\ r \in Loops /\ ~running
       /\ LoopExits(r)
    \/ /\ r \in Manuals
       /\ pc' = [pc EXCEPT ![r] = "off"]
       /\ UNCHANGED running

-----------------------------------------------------------------------------
(* The cycle                                                               *)

\* execute_fetchers() returns after tiers 1 and 2, leaving tier 3 behind.
CollectDone(r) ==
    /\ pc[r] = "collect" /\ r \notin cancelled
    /\ pc' = [pc EXCEPT ![r] = "analyse"]
    /\ tier3' = TRUE
    /\ UNCHANGED <<running, task, inCycle, writing, cancelled, stopVars,
                   job, up>>

\* Analysis and scoring are over; _persist() sets its flag.
AnalyseDone(r) ==
    /\ pc[r] = "analyse" /\ r \notin cancelled
    /\ pc' = [pc EXCEPT ![r] = "persist"]
    /\ writing' = TRUE
    /\ UNCHANGED <<running, task, inCycle, cancelled, tier3, stopVars,
                   job, up>>

\* _persist() swallows the writer's exceptions, so it always returns.
PersistDone(r) ==
    /\ pc[r] = "persist" /\ r \notin cancelled
    /\ writing' = FALSE
    /\ inCycle' = FALSE
    /\ AfterCycle(r)
    /\ UNCHANGED <<task, cancelled, tier3, stopVars, job, up>>

\* A loop without its `except Exception`: a failing cycle ends it.
CycleFailsEnds(r) ==
    /\ pc[r] \in {"collect", "analyse"} /\ r \notin cancelled
    /\ inCycle' = FALSE
    /\ pc' = [pc EXCEPT ![r] = "off"]
    /\ running' = (running /\ r \in Manuals)
    /\ UNCHANGED <<task, writing, cancelled, tier3, stopVars, job, up>>

\* Collection, analysis or scoring raises.
CycleFails(r) ==
    /\ pc[r] \in {"collect", "analyse"} /\ r \notin cancelled
    /\ inCycle' = FALSE
    /\ AfterCycle(r)
    /\ UNCHANGED <<task, writing, cancelled, tier3, stopVars, job, up>>

ManualStart(m) ==
    /\ up
    /\ pc[m] = "off"
    /\ ~inCycle
    /\ EnterCycle(m, "off")
    /\ UNCHANGED <<running, task, writing, cancelled, tier3, stopVars,
                   job, up>>

\* _persist() with its `finally` clause missing.
WritingAfterCancelKept(l) == writing

\* _persist() clears its flag in a `finally` clause.
WritingAfterCancel(l) == writing /\ pc[l] # "persist"

\* The same for run_cycle().
InCycleAfterCancelKept(l) == inCycle

InCycleAfterCancel(l) == inCycle /\ pc[l] \notin Cycling

\* start() with its `finally` clause missing.
RunningAfterCancelKept(l) == running

\* start() clears _running in a `finally` clause; a coroutine that has not begun
\* ends outside of it.
RunningAfterCancel(l) == running /\ pc[l] = "created"

\* CancelledError is raised in the loop.
CancelDelivered(l) ==
    /\ l \in cancelled
    /\ pc' = [pc EXCEPT ![l] = "off"]
    /\ cancelled' = cancelled \ {l}
    /\ inCycle' = InCycleAfterCancel(l)
    /\ writing' = WritingAfterCancel(l)
    /\ running' = RunningAfterCancel(l)
    /\ UNCHANGED <<task, tier3, stopVars, job, up>>

-----------------------------------------------------------------------------
(* stop()                                                                  *)

\* The last part of stop(): cancel the task that _task names now, await it.
JoinTask(s) ==
    LET toCancel == {task} \cap Alive
    IN  /\ cancelled' = cancelled \cup toCancel
        /\ joining' = [joining EXCEPT ![s] = IF toCancel = {} THEN Nobody ELSE task]
        /\ stopPc' = [stopPc EXCEPT ![s] = "join"]

\* await_tier3(): it returns at once when no tier-3 task is running.
AwaitTier3(s) ==
    \/ /\ tier3
       /\ stopPc' = [stopPc EXCEPT ![s] = "drain"]
       /\ UNCHANGED <<joining, cancelled>>
    \/ /\ ~tier3
       /\ JoinTask(s)

\* A stop() that relies on the cancellation alone.
StopBeginsKeepsRunning(s) ==
    /\ stopPc[s] = "idle"
    /\ AwaitTier3(s)
    /\ UNCHANGED <<running, task, inCycle, writing, pc, tier3, job>>

StopBegins(s) ==
    /\ stopPc[s] = "idle"
    /\ running' = FALSE
    /\ AwaitTier3(s)
    /\ UNCHANGED <<task, inCycle, writing, pc, tier3, job>>

\* The endpoints call stop() only when is_running.
StopRequest(s) ==
    /\ up
    /\ running
    /\ StopBegins(s)
    /\ UNCHANGED up

\* The server leaves the lifespan once its requests have been answered, which
\* leaves every created task the time to begin.
ShutdownBegins ==
    /\ up
    /\ At({"created"}) = {}
    /\ \A m \in Manuals : pc[m] = "off"
    /\ \A s \in Stoppers : stopPc[s] = "idle"
    /\ up' = FALSE
    /\ StopBegins(Shutdown)

\* The tier-3 task has ended, or ten seconds have passed.
DrainDone(s) ==
    /\ stopPc[s] = "drain"
    /\ JoinTask(s)
    /\ UNCHANGED <<running, task, inCycle, writing, pc, tier3, job, up>>

\* stop() returns.
JoinDone(s) ==
    /\ stopPc[s] = "join"
    /\ joining[s] \notin Alive
    /\ stopPc' = [stopPc EXCEPT ![s] = "idle"]
    /\ joining' = [joining EXCEPT ![s] = Nobody]
    /\ UNCHANGED <<running, task, inCycle, writing, pc, cancelled, tier3,
                   job, up>>

-----------------------------------------------------------------------------
(* Tier 3 and the scheduler                                                *)

Tier3Done ==
    /\ tier3
    /\ tier3' = FALSE
    /\ UNCHANGED <<running, task, inCycle, writing, pc, cancelled, stopVars,
                   job, up>>

\* VACUUM and archiving check is_writing once, then work through awaits.
JobStart(j) ==
    /\ ~job[j]
    /\ ~writing
    /\ job' = [job EXCEPT ![j] = TRUE]
    /\ UNCHANGED <<running, task, inCycle, writing, pc, cancelled, tier3,
                   stopVars, up>>

JobDone(j) ==
    /\ job[j]
    /\ job' = [job EXCEPT ![j] = FALSE]
    /\ UNCHANGED <<running, task, inCycle, writing, pc, cancelled, tier3,
                   stopVars, up>>

-----------------------------------------------------------------------------
CycleStep(r) == CollectDone(r) \/ AnalyseDone(r) \/ PersistDone(r) \/ CycleFails(r)
LoopStep(l)  == LoopBegins(l) \/ LoopWakes(l) \/ CancelDelivered(l)
StopStep(s)  == DrainDone(s) \/ JoinDone(s)

Next ==
    \/ \E r \in Runners : CycleStep(r)
    \/ \E l \in Loops : StartRequest(l) \/ LoopStep(l)
    \/ \E m \in Manuals : ManualStart(m)
    \/ \E s \in Stoppers : StopRequest(s)
    \/ ShutdownBegins
    \/ \E s \in Callers : StopStep(s)
    \/ Tier3Done
    \/ \E j \in Jobs : JobStart(j) \/ JobDone(j)

Spec == Init /\ [][Next]_vars

\* The event loop runs whatever is ready; sleeps are finite, every fetcher has
\* a timeout, and the drain has one.  Requests and jobs need not come.
Fairness == /\ \A r \in Runners : WF_vars(CycleStep(r))
            /\ \A l \in Loops : WF_vars(LoopStep(l))
            /\ \A s \in Callers : WF_vars(StopStep(s))

FairSpec == Spec /\ Fairness

-----------------------------------------------------------------------------
(* Properties                                                              *)

\* Every variable keeps its type.
TypeOK ==
    /\ running \in BOOLEAN /\ inCycle \in BOOLEAN /\ writing \in BOOLEAN
    /\ tier3 \in BOOLEAN /\ up \in BOOLEAN
    /\ task \in Loops
    /\ pc \in [Runners -> Phases]
    /\ \A m \in Manuals : pc[m] \in Cycling \cup {"off"}
    /\ cancelled \subseteq Alive
    /\ stopPc \in [Callers -> {"idle", "drain", "join"}]
    /\ joining \in [Callers -> Loops \cup {Nobody}]
    /\ job \in [Jobs -> BOOLEAN]

\* run_cycle() is single-flight: of all loops and manual requests, however they
\* were started, stopped and cancelled, at most one executes a cycle, and
\* _in_cycle says whether one does.
SingleFlight ==
    /\ inCycle <=> At(Cycling) # {}
    /\ \A q, r \in At(Cycling) : q = r

\* is_writing says exactly when _persist() is in flight, also after a loop was
\* cancelled in it, so a job is neither let in nor shut out for good.
WritingMeansPersist == writing <=> At({"persist"}) # {}

\* is_running is never stuck: while it is TRUE some loop that has begun lives.
RunningMeansAlive ==
    running => \E l \in Loops : pc[l] \notin {"off", "created"}

\* Who executes a cycle, as the owner of a lock.
held == [r \in Runners |-> IF pc[r] \in Cycling THEN "cycle" ELSE "none"]

\* run_cycle() implements a lock with one owner: ExclusiveLease with one lease.
CycleLease == INSTANCE ExclusiveLease WITH
    Borrowers <- Runners, Conns <- {"cycle"}, NoConn <- "none", N <- 1, lease <- held

\* Every behaviour of the pipeline is one of that lock.
ImplementsLock == CycleLease!Spec

\* A cycle that has begun ends, so manual collection is not refused for good.
CycleEnds == inCycle ~> ~inCycle

\* No call of stop() is under way.
Quiet == \A s \in Callers : stopPc[s] = "idle"

\* One loop polls; no other is left over from an earlier start().
PollsAlone == running /\ Quiet /\ \E l \in Loops : Alive = {l}

\* A loop that polls alone, with no stop() under way, goes on until stop() is
\* called: no start request puts a second loop beside it, whose end would clear
\* the flag of the first, and neither a failing nor a skipped cycle ends it.
LonePollerStays == [][PollsAlone => PollsAlone' \/ ~Quiet']_vars

\* From then on cycles come again and again, unless stop() is called.
PollingContinues == [](PollsAlone => []<>inCycle \/ <>~Quiet)

\* "Runs indefinitely until stop() is called", for every start(): _running is
\* cleared by a call of stop() that begins, or when the loop that _task names
\* does not poll, and never while that loop goes on.
RunsUntilStopped ==
    [][running /\ ~running' =>
           \/ \E s \in Callers : stopPc[s] = "idle" /\ stopPc'[s] # "idle"
           \/ pc'[task] \in {"off", "created"}]_vars

\* Once the server has left the lifespan every loop ends, those that _task no
\* longer names included.
ShutdownEndsLoops == ~up ~> Alive = {}
=============================================================================
