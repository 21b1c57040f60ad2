--------------------- MODULE PipelineLifecycle_proofs ---------------------
(***************************************************************************)
(* Proofs about PipelineLifecycle, for any sets of loops, requests and     *)
(* jobs.  The safety properties are one inductive invariant: each flag is  *)
(* tied to the phases it stands for, and the guard of run_cycle() plus the *)
(* `finally` clauses keep at most one runner in those phases.              *)
(***************************************************************************)
EXTENDS PipelineLifecycle, FiniteSetTheorems, TLAPS

\* A loop stays marked as cancelled no longer than the stop() that cancelled it
\* waits for its end.
CancelledJoined ==
    \A l \in cancelled : \E s \in Callers : stopPc[s] = "join" /\ joining[s] = l

\* The conjunction that every step preserves.
Inv == /\ TypeOK /\ SingleFlight /\ WritingMeansPersist /\ RunningMeansAlive
       /\ CancelledJoined

\* The invariant holds at first.
LEMMA InitInv == Init => Inv
  <1> SUFFICES ASSUME Init PROVE Inv
    OBVIOUS
  <1>1. PICK l \in Loops :
          /\ task = l
          /\ pc = [r \in Runners |-> IF r = l THEN "created" ELSE "off"]
    BY DEF Init
  <1>2. TypeOK
    BY <1>1, LifecycleAssumption DEF Init, TypeOK, Alive, Runners, Callers, Phases, Cycling
  <1>3. At(Cycling) = {} /\ At({"persist"}) = {}
    BY <1>1 DEF At, Cycling
  <1> QED
    BY <1>2, <1>3 DEF Init, Inv, SingleFlight, WritingMeansPersist, RunningMeansAlive, CancelledJoined

\* A call of stop() changes its own bookkeeping and adds a living loop to those
\* cancelled.
LEMMA JoinTaskTypes ==
  ASSUME TypeOK, UNCHANGED pc, NEW s \in Callers, JoinTask(s)
  PROVE  /\ cancelled' \subseteq Alive'
         /\ stopPc' \in [Callers -> {"idle", "drain", "join"}]
         /\ joining' \in [Callers -> Loops \cup {Nobody}]
  BY DEF TypeOK, JoinTask, Alive

\* Stopping keeps the types.
LEMMA StopBeginsTypes ==
  ASSUME TypeOK, NEW s \in Callers, StopBegins(s), up' \in BOOLEAN
  PROVE  TypeOK'
  <1>1. /\ UNCHANGED <<task, inCycle, writing, pc, tier3, job>>
        /\ running' = FALSE
    BY DEF StopBegins
  <1>2. /\ cancelled' \subseteq Alive'
        /\ stopPc' \in [Callers -> {"idle", "drain", "join"}]
        /\ joining' \in [Callers -> Loops \cup {Nobody}]
    <2>1. CASE /\ stopPc' = [stopPc EXCEPT ![s] = "drain"]
               /\ UNCHANGED <<joining, cancelled>>
      BY <1>1, <2>1 DEF TypeOK, Alive
    <2>2. CASE JoinTask(s)
      BY <1>1, <2>2, JoinTaskTypes
    <2> QED  BY <2>1, <2>2 DEF StopBegins, AwaitTier3
  <1> QED
    BY <1>1, <1>2 DEF TypeOK

\* Every step preserves the types.
LEMMA TypeStep == ASSUME Inv, [Next]_vars PROVE TypeOK'
  <1> USE LifecycleAssumption DEF Inv, Runners, Callers, At, Alive, Phases, Cycling, TypeOK
  <1>1. ASSUME NEW r \in Runners, CollectDone(r) PROVE TypeOK'
    BY <1>1 DEF CollectDone, stopVars
  <1>2. ASSUME NEW r \in Runners, AnalyseDone(r) PROVE TypeOK'
    BY <1>2 DEF AnalyseDone, stopVars
  <1>3. ASSUME NEW r \in Runners, PersistDone(r) PROVE TypeOK'
    <2>1. /\ pc' \in [Runners -> Phases]
          /\ \A m \in Manuals : pc'[m] \in Cycling \cup {"off"}
          /\ running' \in BOOLEAN
          /\ cancelled' \subseteq Alive'
      BY <1>3 DEF PersistDone, AfterCycle, LoopExits
    <2> QED  BY <1>3, <2>1 DEF PersistDone, stopVars
  <1>4. ASSUME NEW r \in Runners, CycleFails(r) PROVE TypeOK'
    <2>1. /\ pc' \in [Runners -> Phases]
          /\ \A m \in Manuals : pc'[m] \in Cycling \cup {"off"}
          /\ running' \in BOOLEAN
          /\ cancelled' \subseteq Alive'
      BY <1>4 DEF CycleFails, AfterCycle, LoopExits
    <2> QED  BY <1>4, <2>1 DEF CycleFails, stopVars
  <1>5. ASSUME NEW l \in Loops, StartRequest(l) PROVE TypeOK'
    BY <1>5 DEF StartRequest, stopVars
  <1>6. ASSUME NEW l \in Loops, LoopBegins(l) PROVE TypeOK'
    BY <1>6 DEF LoopBegins, EnterCycle, stopVars
  <1>7. ASSUME NEW l \in Loops, LoopWakes(l) PROVE TypeOK'
    BY <1>7 DEF LoopWakes, EnterCycle, LoopExits, stopVars
  <1>8. ASSUME NEW l \in Loops, CancelDelivered(l) PROVE TypeOK'
    BY <1>8 DEF CancelDelivered, InCycleAfterCancel, WritingAfterCancel, RunningAfterCancel, stopVars
  <1>9. ASSUME NEW m \in Manuals, ManualStart(m) PROVE TypeOK'
    BY <1>9 DEF ManualStart, EnterCycle, stopVars
  <1>10. ASSUME NEW s \in Stoppers, StopRequest(s) PROVE TypeOK'
    <2>1. s \in Callers /\ StopBegins(s) /\ up' \in BOOLEAN
      BY <1>10 DEF StopRequest
    <2> QED  BY <2>1, StopBeginsTypes
  <1>11. ASSUME ShutdownBegins PROVE TypeOK'
    <2>1. Shutdown \in Callers /\ StopBegins(Shutdown) /\ up' \in BOOLEAN
      BY <1>11 DEF ShutdownBegins
    <2> QED  BY <2>1, StopBeginsTypes
  <1>12. ASSUME NEW s \in Callers, DrainDone(s) PROVE TypeOK'
    BY <1>12 DEF DrainDone, JoinTask, stopVars
  <1>13. ASSUME NEW s \in Callers, JoinDone(s) PROVE TypeOK'
    BY <1>13 DEF JoinDone, stopVars
  <1>14. ASSUME Tier3Done PROVE TypeOK'
    BY <1>14 DEF Tier3Done, stopVars
  <1>15. ASSUME NEW j \in Jobs, JobStart(j) PROVE TypeOK'
    BY <1>15 DEF JobStart, stopVars
  <1>16. ASSUME NEW j \in Jobs, JobDone(j) PROVE TypeOK'
    BY <1>16 DEF JobDone, stopVars
  <1>17. ASSUME UNCHANGED vars PROVE TypeOK'
    BY <1>17 DEF vars, stopVars
  <1> QED
    BY <1>1, <1>2, <1>3, <1>4, <1>5, <1>6, <1>7, <1>8, <1>9, <1>10, <1>11, <1>12, <1>13, <1>14, <1>15, <1>16, <1>17
       DEF Next, CycleStep, LoopStep, StopStep

\* A runner enters a cycle only through the guard, and leaves with the flag.
LEMMA FlightStep == ASSUME Inv, [Next]_vars PROVE SingleFlight'
  <1> USE LifecycleAssumption DEF Inv, Runners, Callers, At, Alive, Phases, Cycling, TypeOK, SingleFlight
  <1>1. ASSUME NEW r \in Runners, CollectDone(r) PROVE SingleFlight'
    BY <1>1 DEF CollectDone, stopVars
  <1>2. ASSUME NEW r \in Runners, AnalyseDone(r) PROVE SingleFlight'
    BY <1>2 DEF AnalyseDone, stopVars
  <1>3. ASSUME NEW r \in Runners, PersistDone(r) PROVE SingleFlight'
    BY <1>3 DEF PersistDone, AfterCycle, LoopExits, stopVars
  <1>4. ASSUME NEW r \in Runners, CycleFails(r) PROVE SingleFlight'
    BY <1>4 DEF CycleFails, AfterCycle, LoopExits, stopVars
  <1>5. ASSUME NEW l \in Loops, StartRequest(l) PROVE SingleFlight'
    BY <1>5 DEF StartRequest, stopVars
  <1>6. ASSUME NEW l \in Loops, LoopBegins(l) PROVE SingleFlight'
    BY <1>6 DEF LoopBegins, EnterCycle, stopVars
  <1>7. ASSUME NEW l \in Loops, LoopWakes(l) PROVE SingleFlight'
    BY <1>7 DEF LoopWakes, EnterCycle, LoopExits, stopVars
  <1>8. ASSUME NEW l \in Loops, CancelDelivered(l) PROVE SingleFlight'
    <2>1. CASE pc[l] \in Cycling
      <3>1. At(Cycling)' = {}
        BY <1>8, <2>1 DEF CancelDelivered
      <3>2. ~inCycle'
        BY <1>8, <2>1 DEF CancelDelivered, InCycleAfterCancel
      <3> QED  BY <3>1, <3>2
    <2>2. CASE pc[l] \notin Cycling
      <3>1. At(Cycling)' = At(Cycling)
        BY <1>8, <2>2 DEF CancelDelivered
      <3>2. inCycle' <=> inCycle
        BY <1>8, <2>2 DEF CancelDelivered, InCycleAfterCancel
      <3> QED  BY <3>1, <3>2
    <2> QED  BY <2>1, <2>2
  <1>9. ASSUME NEW m \in Manuals, ManualStart(m) PROVE SingleFlight'
    BY <1>9 DEF ManualStart, EnterCycle, stopVars
  <1>10. ASSUME NEW s \in Stoppers, StopRequest(s) PROVE SingleFlight'
    BY <1>10 DEF StopRequest, StopBegins, AwaitTier3, JoinTask, stopVars
  <1>11. ASSUME ShutdownBegins PROVE SingleFlight'
    BY <1>11 DEF ShutdownBegins, StopBegins, AwaitTier3, JoinTask, stopVars
  <1>12. ASSUME NEW s \in Callers, DrainDone(s) PROVE SingleFlight'
    BY <1>12 DEF DrainDone, JoinTask, stopVars
  <1>13. ASSUME NEW s \in Callers, JoinDone(s) PROVE SingleFlight'
    BY <1>13 DEF JoinDone, stopVars
  <1>14. ASSUME Tier3Done PROVE SingleFlight'
    BY <1>14 DEF Tier3Done, stopVars
  <1>15. ASSUME NEW j \in Jobs, JobStart(j) PROVE SingleFlight'
    BY <1>15 DEF JobStart, stopVars
  <1>16. ASSUME NEW j \in Jobs, JobDone(j) PROVE SingleFlight'
    BY <1>16 DEF JobDone, stopVars
  <1>17. ASSUME UNCHANGED vars PROVE SingleFlight'
    BY <1>17 DEF vars, stopVars
  <1> QED
    BY <1>1, <1>2, <1>3, <1>4, <1>5, <1>6, <1>7, <1>8, <1>9, <1>10, <1>11, <1>12, <1>13, <1>14, <1>15, <1>16, <1>17
       DEF Next, CycleStep, LoopStep, StopStep

\* Who clears is_writing was the only runner in _persist().
LEMMA WritingStep == ASSUME Inv, [Next]_vars PROVE WritingMeansPersist'
  <1> USE LifecycleAssumption DEF Inv, Runners, Callers, At, Alive, Phases, Cycling, TypeOK, SingleFlight, WritingMeansPersist
  <1>1. ASSUME NEW r \in Runners, CollectDone(r) PROVE WritingMeansPersist'
    BY <1>1 DEF CollectDone, stopVars
  <1>2. ASSUME NEW r \in Runners, AnalyseDone(r) PROVE WritingMeansPersist'
    BY <1>2 DEF AnalyseDone, stopVars
  <1>3. ASSUME NEW r \in Runners, PersistDone(r) PROVE WritingMeansPersist'
    BY <1>3 DEF PersistDone, AfterCycle, LoopExits, stopVars
  <1>4. ASSUME NEW r \in Runners, CycleFails(r) PROVE WritingMeansPersist'
    BY <1>4 DEF CycleFails, AfterCycle, LoopExits, stopVars
  <1>5. ASSUME NEW l \in Loops, StartRequest(l) PROVE WritingMeansPersist'
    BY <1>5 DEF StartRequest, stopVars
  <1>6. ASSUME NEW l \in Loops, LoopBegins(l) PROVE WritingMeansPersist'
    BY <1>6 DEF LoopBegins, EnterCycle, stopVars
  <1>7. ASSUME NEW l \in Loops, LoopWakes(l) PROVE WritingMeansPersist'
    BY <1>7 DEF LoopWakes, EnterCycle, LoopExits, stopVars
  <1>8. ASSUME NEW l \in Loops, CancelDelivered(l) PROVE WritingMeansPersist'
    <2>1. CASE pc[l] = "persist"
      <3>1. At({"persist"})' = {}
        BY <1>8, <2>1 DEF CancelDelivered
      <3>2. ~writing'
        BY <1>8, <2>1 DEF CancelDelivered, WritingAfterCancel
      <3> QED  BY <3>1, <3>2
    <2>2. CASE pc[l] # "persist"
      <3>1. At({"persist"})' = At({"persist"})
        BY <1>8, <2>2 DEF CancelDelivered
      <3>2. writing' <=> writing
        BY <1>8, <2>2 DEF CancelDelivered, WritingAfterCancel
      <3> QED  BY <3>1, <3>2
    <2> QED  BY <2>1, <2>2
  <1>9. ASSUME NEW m \in Manuals, ManualStart(m) PROVE WritingMeansPersist'
    BY <1>9 DEF ManualStart, EnterCycle, stopVars
  <1>10. ASSUME NEW s \in Stoppers, StopRequest(s) PROVE WritingMeansPersist'
    BY <1>10 DEF StopRequest, StopBegins, AwaitTier3, JoinTask, stopVars
  <1>11. ASSUME ShutdownBegins PROVE WritingMeansPersist'
    BY <1>11 DEF ShutdownBegins, StopBegins, AwaitTier3, JoinTask, stopVars
  <1>12. ASSUME NEW s \in Callers, DrainDone(s) PROVE WritingMeansPersist'
    BY <1>12 DEF DrainDone, JoinTask, stopVars
  <1>13. ASSUME NEW s \in Callers, JoinDone(s) PROVE WritingMeansPersist'
    BY <1>13 DEF JoinDone, stopVars
  <1>14. ASSUME Tier3Done PROVE WritingMeansPersist'
    BY <1>14 DEF Tier3Done, stopVars
  <1>15. ASSUME NEW j \in Jobs, JobStart(j) PROVE WritingMeansPersist'
    BY <1>15 DEF JobStart, stopVars
  <1>16. ASSUME NEW j \in Jobs, JobDone(j) PROVE WritingMeansPersist'
    BY <1>16 DEF JobDone, stopVars
  <1>17. ASSUME UNCHANGED vars PROVE WritingMeansPersist'
    BY <1>17 DEF vars, stopVars
  <1> QED
    BY <1>1, <1>2, <1>3, <1>4, <1>5, <1>6, <1>7, <1>8, <1>9, <1>10, <1>11, <1>12, <1>13, <1>14, <1>15, <1>16, <1>17
       DEF Next, CycleStep, LoopStep, StopStep

\* A loop that has begun clears is_running when it ends.
LEMMA RunningStep == ASSUME Inv, [Next]_vars PROVE RunningMeansAlive'
  <1> USE LifecycleAssumption DEF Inv, Runners, Callers, At, Alive, Phases, Cycling, TypeOK, RunningMeansAlive
  <1>1. ASSUME NEW r \in Runners, CollectDone(r) PROVE RunningMeansAlive'
    BY <1>1 DEF CollectDone, stopVars
  <1>2. ASSUME NEW r \in Runners, AnalyseDone(r) PROVE RunningMeansAlive'
    BY <1>2 DEF AnalyseDone, stopVars
  <1>3. ASSUME NEW r \in Runners, PersistDone(r) PROVE RunningMeansAlive'
    BY <1>3 DEF PersistDone, AfterCycle, LoopExits, stopVars
  <1>4. ASSUME NEW r \in Runners, CycleFails(r) PROVE RunningMeansAlive'
    BY <1>4 DEF CycleFails, AfterCycle, LoopExits, stopVars
  <1>5. ASSUME NEW l \in Loops, StartRequest(l) PROVE RunningMeansAlive'
    BY <1>5 DEF StartRequest, stopVars
  <1>6. ASSUME NEW l \in Loops, LoopBegins(l) PROVE RunningMeansAlive'
    BY <1>6 DEF LoopBegins, EnterCycle, stopVars
  <1>7. ASSUME NEW l \in Loops, LoopWakes(l) PROVE RunningMeansAlive'
    BY <1>7 DEF LoopWakes, EnterCycle, LoopExits, stopVars
  <1>8. ASSUME NEW l \in Loops, CancelDelivered(l) PROVE RunningMeansAlive'
    BY <1>8 DEF CancelDelivered, InCycleAfterCancel, WritingAfterCancel, RunningAfterCancel, stopVars
  <1>9. ASSUME NEW m \in Manuals, ManualStart(m) PROVE RunningMeansAlive'
    BY <1>9 DEF ManualStart, EnterCycle, stopVars
  <1>10. ASSUME NEW s \in Stoppers, StopRequest(s) PROVE RunningMeansAlive'
    BY <1>10 DEF StopRequest, StopBegins, AwaitTier3, JoinTask, stopVars
  <1>11. ASSUME ShutdownBegins PROVE RunningMeansAlive'
    BY <1>11 DEF ShutdownBegins, StopBegins, AwaitTier3, JoinTask, stopVars
  <1>12. ASSUME NEW s \in Callers, DrainDone(s) PROVE RunningMeansAlive'
    BY <1>12 DEF DrainDone, JoinTask, stopVars
  <1>13. ASSUME NEW s \in Callers, JoinDone(s) PROVE RunningMeansAlive'
    BY <1>13 DEF JoinDone, stopVars
  <1>14. ASSUME Tier3Done PROVE RunningMeansAlive'
    BY <1>14 DEF Tier3Done, stopVars
  <1>15. ASSUME NEW j \in Jobs, JobStart(j) PROVE RunningMeansAlive'
    BY <1>15 DEF JobStart, stopVars
  <1>16. ASSUME NEW j \in Jobs, JobDone(j) PROVE RunningMeansAlive'
    BY <1>16 DEF JobDone, stopVars
  <1>17. ASSUME UNCHANGED vars PROVE RunningMeansAlive'
    BY <1>17 DEF vars, stopVars
  <1> QED
    BY <1>1, <1>2, <1>3, <1>4, <1>5, <1>6, <1>7, <1>8, <1>9, <1>10, <1>11, <1>12, <1>13, <1>14, <1>15, <1>16, <1>17
       DEF Next, CycleStep, LoopStep, StopStep

\* Awaiting a task keeps every cancelled loop awaited.
LEMMA JoinTaskJoins ==
  ASSUME TypeOK, CancelledJoined, NEW s \in Callers, stopPc[s] # "join", JoinTask(s)
  PROVE  CancelledJoined'
  <1> SUFFICES ASSUME NEW l \in cancelled'
               PROVE  \E c \in Callers : stopPc'[c] = "join" /\ joining'[c] = l
    BY DEF CancelledJoined
  <1>1. CASE l \in cancelled
    <2>1. PICK c \in Callers : stopPc[c] = "join" /\ joining[c] = l
      BY <1>1 DEF CancelledJoined
    <2>2. c # s
      BY <2>1
    <2> QED  BY <2>1, <2>2 DEF JoinTask, TypeOK
  <1>2. CASE l \notin cancelled
    <2>1. l = task /\ task \in Alive
      BY <1>2 DEF JoinTask
    <2> QED  BY <2>1 DEF JoinTask, TypeOK
  <1> QED  BY <1>1, <1>2

\* So does everything stop() does before.
LEMMA StopBeginsJoins ==
  ASSUME TypeOK, CancelledJoined, NEW s \in Callers, StopBegins(s)
  PROVE  CancelledJoined'
  <1>1. CASE /\ stopPc' = [stopPc EXCEPT ![s] = "drain"]
             /\ UNCHANGED <<joining, cancelled>>
    BY <1>1 DEF StopBegins, CancelledJoined, TypeOK
  <1>2. CASE JoinTask(s)
    BY <1>2, JoinTaskJoins DEF StopBegins
  <1> QED  BY <1>1, <1>2 DEF StopBegins, AwaitTier3

\* Only the end of the awaited loop ends the wait.
LEMMA JoinedStep == ASSUME Inv, [Next]_vars PROVE CancelledJoined'
  <1>1. TypeOK /\ CancelledJoined
    BY DEF Inv
  <1>2. ASSUME cancelled' \subseteq cancelled, UNCHANGED stopVars PROVE CancelledJoined'
    BY <1>1, <1>2 DEF CancelledJoined, stopVars
  <1>3. ASSUME NEW s \in Callers, DrainDone(s) PROVE CancelledJoined'
    BY <1>1, <1>3, JoinTaskJoins DEF DrainDone
  <1>4. ASSUME NEW s \in Callers, JoinDone(s) PROVE CancelledJoined'
    <2> SUFFICES ASSUME NEW l \in cancelled
                 PROVE  \E c \in Callers : stopPc'[c] = "join" /\ joining'[c] = l
      BY <1>4 DEF JoinDone, CancelledJoined
    <2>1. PICK c \in Callers : stopPc[c] = "join" /\ joining[c] = l
      BY <1>1 DEF CancelledJoined
    <2>2. c # s
      BY <1>1, <1>4, <2>1 DEF JoinDone, TypeOK
    <2> QED  BY <1>1, <1>4, <2>1, <2>2 DEF JoinDone, TypeOK
  <1>5. ASSUME \E s \in Stoppers : StopRequest(s) PROVE CancelledJoined'
    BY <1>1, <1>5, StopBeginsJoins DEF StopRequest, Callers
  <1>6. ASSUME ShutdownBegins PROVE CancelledJoined'
    BY <1>1, <1>6, StopBeginsJoins DEF ShutdownBegins, Callers
  <1>7. ASSUME NEW r \in Runners, CycleStep(r)
        PROVE  cancelled' \subseteq cancelled /\ UNCHANGED stopVars
    BY <1>7 DEF CycleStep, CollectDone, AnalyseDone, PersistDone, CycleFails
  <1>8. ASSUME NEW l \in Loops, StartRequest(l) \/ LoopStep(l)
        PROVE  cancelled' \subseteq cancelled /\ UNCHANGED stopVars
    BY <1>8 DEF StartRequest, LoopStep, LoopBegins, LoopWakes, CancelDelivered, stopVars
  <1>9. ASSUME \/ \E m \in Manuals : ManualStart(m)
               \/ Tier3Done
               \/ \E j \in Jobs : JobStart(j) \/ JobDone(j)
               \/ UNCHANGED vars
        PROVE  cancelled' \subseteq cancelled /\ UNCHANGED stopVars
    BY <1>9 DEF ManualStart, Tier3Done, JobStart, JobDone, vars
  <1> QED
    BY <1>2, <1>3, <1>4, <1>5, <1>6, <1>7, <1>8, <1>9 DEF Next, StopStep

\* Every step keeps the invariant.
LEMMA StepInv == Inv /\ [Next]_vars => Inv'
  BY TypeStep, FlightStep, WritingStep, RunningStep, JoinedStep DEF Inv

\* The invariant holds throughout.
LEMMA SpecInv == Spec => []Inv
  BY InitInv, StepInv, PTL DEF Spec

\* The variables keep their types.
THEOREM LifecycleTypeCorrect == Spec => []TypeOK
  <1>1. Inv => TypeOK  BY DEF Inv
  <1> QED  BY SpecInv, <1>1, PTL

\* run_cycle() is single-flight.
THEOREM CycleIsSingleFlight == Spec => []SingleFlight
  <1>1. Inv => SingleFlight  BY DEF Inv
  <1> QED  BY SpecInv, <1>1, PTL

\* is_writing tells the jobs the truth.
THEOREM WritingFlagIsExact == Spec => []WritingMeansPersist
  <1>1. Inv => WritingMeansPersist  BY DEF Inv
  <1> QED  BY SpecInv, <1>1, PTL

\* is_running is never TRUE without a loop.
THEOREM RunningFlagHasLoop == Spec => []RunningMeansAlive
  <1>1. Inv => RunningMeansAlive  BY DEF Inv
  <1> QED  BY SpecInv, <1>1, PTL

\* A step leaves a loop that polls alone where it is, or begins a stop(): with
\* no stop() under way no loop is cancelled, and while _running is TRUE a start
\* request is refused.
LEMMA LoneStep == ASSUME Inv, [Next]_vars, PollsAlone PROVE PollsAlone' \/ ~Quiet'
  <1>1. running /\ Quiet /\ TypeOK
    BY DEF PollsAlone, Inv
  <1>2. PICK l \in Loops : Alive = {l}
    BY DEF PollsAlone
  <1>3. pc[l] \notin {"off", "created"}
    BY <1>1, <1>2 DEF Inv, RunningMeansAlive, Alive
  <1>4. cancelled = {}
    BY <1>1 DEF Inv, CancelledJoined, Quiet
  <1>5. ASSUME UNCHANGED <<running, stopPc>>, Alive' = Alive PROVE PollsAlone'
    BY <1>1, <1>2, <1>5 DEF PollsAlone, Quiet
  <1>6. Loops \subseteq Runners /\ Loops \cap Manuals = {}
    BY LifecycleAssumption DEF Runners
  <1>7. ASSUME NEW r \in Runners, CycleStep(r)
        PROVE  UNCHANGED <<running, stopPc>> /\ Alive' = Alive
    <2>1. UNCHANGED <<running, stopPc>>
      BY <1>1, <1>7 DEF CycleStep, CollectDone, AnalyseDone, PersistDone, CycleFails, AfterCycle, stopVars
    <2>2. /\ pc[r] # "off"
          /\ \E p \in {"analyse", "persist", "sleep", "off"} :
                /\ pc' = [pc EXCEPT ![r] = p]
                /\ p = "off" => r \in Manuals
      BY <1>1, <1>7 DEF CycleStep, CollectDone, AnalyseDone, PersistDone, CycleFails, AfterCycle
    <2>3. \A k \in Loops : pc'[k] # "off" <=> pc[k] # "off"
      BY <1>1, <1>6, <2>2 DEF TypeOK
    <2> QED  BY <2>1, <2>3 DEF Alive
  <1>8. ASSUME NEW k \in Loops, StartRequest(k) PROVE FALSE
    BY <1>1, <1>8 DEF StartRequest
  <1>9. ASSUME NEW k \in Loops, LoopBegins(k) PROVE FALSE
    BY <1>2, <1>3, <1>9 DEF LoopBegins, Alive
  <1>10. ASSUME NEW k \in Loops, LoopWakes(k)
         PROVE  UNCHANGED <<running, stopPc>> /\ Alive' = Alive
    <2>1. UNCHANGED <<running, stopPc>> /\ EnterCycle(k, "sleep") /\ pc[k] = "sleep"
      BY <1>1, <1>10 DEF LoopWakes, stopVars
    <2>2. \A j \in Loops : pc'[j] # "off" <=> pc[j] # "off"
      BY <1>1, <1>6, <2>1 DEF EnterCycle, TypeOK
    <2> QED  BY <2>1, <2>2 DEF Alive
  <1>11. ASSUME NEW k \in Loops, CancelDelivered(k) PROVE FALSE
    BY <1>4, <1>11 DEF CancelDelivered
  <1>12. ASSUME NEW m \in Manuals, ManualStart(m)
         PROVE  UNCHANGED <<running, stopPc>> /\ Alive' = Alive
    <2>1. UNCHANGED <<running, stopPc>> /\ \E p \in Phases : pc' = [pc EXCEPT ![m] = p]
      BY <1>12 DEF ManualStart, EnterCycle, stopVars, Phases
    <2>2. \A j \in Loops : pc'[j] = pc[j]
      BY <1>1, <1>6, <2>1 DEF TypeOK
    <2> QED  BY <2>1, <2>2 DEF Alive
  <1>13. ASSUME NEW s \in Callers, StopBegins(s) PROVE ~Quiet'
    <2>1. stopPc' \in {[stopPc EXCEPT ![s] = "drain"], [stopPc EXCEPT ![s] = "join"]}
      BY <1>13 DEF StopBegins, AwaitTier3, JoinTask
    <2>2. stopPc'[s] # "idle"
      BY <1>1, <2>1 DEF TypeOK
    <2> QED  BY <2>2 DEF Quiet
  <1>14. ASSUME NEW s \in Callers, StopStep(s) PROVE FALSE
    BY <1>1, <1>14 DEF StopStep, DrainDone, JoinDone, Quiet
  <1>15. ASSUME Tier3Done \/ (\E j \in Jobs : JobStart(j) \/ JobDone(j)) \/ UNCHANGED vars
         PROVE  UNCHANGED <<running, stopPc>> /\ Alive' = Alive
    BY <1>15 DEF Tier3Done, JobStart, JobDone, vars, stopVars, Alive
  <1>16. ASSUME (\E s \in Stoppers : StopRequest(s)) \/ ShutdownBegins PROVE ~Quiet'
    BY <1>13, <1>16 DEF StopRequest, ShutdownBegins, Callers
  <1> QED
    BY <1>5, <1>7, <1>8, <1>9, <1>10, <1>11, <1>12, <1>14, <1>15, <1>16
       DEF Next, LoopStep

\* A loop that polls alone does so until stop() is called.
THEOREM PollsUntilStopped == Spec => LonePollerStays
  <1>1. Inv /\ [Next]_vars => [PollsAlone => PollsAlone' \/ ~Quiet']_vars
    BY LoneStep
  <1> QED
    BY <1>1, SpecInv, PTL DEF Spec, LonePollerStays

-----------------------------------------------------------------------------
(* The pipeline implements a lock: one grant, one return or neither per     *)
(* step.                                                                    *)

\* A runner that enters a cycle while there is none is granted the lock.
LEMMA EnterGrants ==
  ASSUME NEW r \in Runners, pc \in [Runners -> Phases], At(Cycling) = {},
         pc' = [pc EXCEPT ![r] = "collect"]
  PROVE  CycleLease!Grant(r)
  <1>1. held[r] = "none"
    BY DEF held, At
  <1>2. CycleLease!Running = {}
    BY DEF CycleLease!Running, held, At
  <1>3. CycleLease!Cardinality(CycleLease!Running) < 1
    <2>1. CycleLease!Cardinality(CycleLease!Running) = Cardinality({})
      BY <1>2 DEF CycleLease!Cardinality, Cardinality
    <2> QED  BY <2>1, FS_EmptySet
  <1>4. "cycle" \in {"cycle"} \ CycleLease!Leased
    BY DEF CycleLease!Leased, held, At
  <1>5. held' = [held EXCEPT ![r] = "cycle"]
    BY DEF held, Cycling
  <1> QED
    BY <1>1, <1>3, <1>4, <1>5 DEF CycleLease!Grant

\* A runner that leaves its cycle returns the lock.
LEMMA LeaveReturns ==
  ASSUME NEW r \in Runners, pc \in [Runners -> Phases], pc[r] \in Cycling,
         NEW p \in {"off", "sleep"}, pc' = [pc EXCEPT ![r] = p]
  PROVE  CycleLease!Return(r)
  <1>1. held[r] # "none"
    BY DEF held
  <1>2. held' = [held EXCEPT ![r] = "none"]
    BY DEF held, Cycling
  <1> QED
    BY <1>1, <1>2 DEF CycleLease!Return

\* Other moves of a runner do not show.
LEMMA MoveStutters ==
  ASSUME NEW r \in Runners, pc \in [Runners -> Phases], NEW p \in Phases,
         p \in Cycling <=> pc[r] \in Cycling, pc' = [pc EXCEPT ![r] = p]
  PROVE  UNCHANGED held
  BY DEF held

\* Every step is a step of the lock or leaves it alone.
LEMMA LeaseStep == ASSUME Inv, [Next]_vars PROVE [CycleLease!Next]_held
  <1> USE DEF CycleLease!Next
  <1>1. pc \in [Runners -> Phases] /\ (inCycle <=> At(Cycling) # {})
    BY DEF Inv, TypeOK, SingleFlight
  <1>2. Loops \subseteq Runners /\ Manuals \subseteq Runners
    BY DEF Runners
  <1>3. ASSUME NEW r \in Runners, CollectDone(r) \/ AnalyseDone(r)
        PROVE  UNCHANGED held
    BY <1>1, <1>3, MoveStutters DEF CollectDone, AnalyseDone, Cycling, Phases
  <1>4. ASSUME NEW r \in Runners, PersistDone(r) \/ CycleFails(r)
        PROVE  CycleLease!Return(r)
    <2>1. pc[r] \in Cycling /\ AfterCycle(r)
      BY <1>4 DEF PersistDone, CycleFails, Cycling
    <2>2. PICK p \in {"off", "sleep"} : pc' = [pc EXCEPT ![r] = p]
      BY <2>1 DEF AfterCycle, LoopExits
    <2> QED  BY <1>1, <2>1, <2>2, LeaveReturns
  <1>5. ASSUME NEW r \in Runners, NEW skipTo \in {"off", "sleep"},
               EnterCycle(r, skipTo), pc[r] \notin Cycling
        PROVE  CycleLease!Grant(r) \/ UNCHANGED held
    <2>1. CASE inCycle
      BY <1>1, <1>5, <2>1, MoveStutters DEF EnterCycle, Cycling, Phases
    <2>2. CASE ~inCycle
      BY <1>1, <1>5, <2>2, EnterGrants DEF EnterCycle
    <2> QED  BY <2>1, <2>2
  <1>6. ASSUME NEW l \in Loops, StartRequest(l) PROVE UNCHANGED held
    BY <1>1, <1>2, <1>6, MoveStutters DEF StartRequest, Cycling, Phases
  <1>7. ASSUME NEW l \in Loops, LoopBegins(l) \/ LoopWakes(l)
        PROVE  CycleLease!Grant(l) \/ UNCHANGED held
    <2>1. l \in Runners /\ pc[l] \notin Cycling
      BY <1>2, <1>7 DEF LoopBegins, LoopWakes, Cycling
    <2>2. CASE EnterCycle(l, "sleep")
      BY <1>5, <2>1, <2>2
    <2>3. CASE pc' = [pc EXCEPT ![l] = "off"]
      BY <1>1, <2>1, <2>3, MoveStutters DEF Cycling, Phases
    <2> QED  BY <1>7, <2>2, <2>3 DEF LoopBegins, LoopWakes, LoopExits
  <1>8. ASSUME NEW l \in Loops, CancelDelivered(l)
        PROVE  CycleLease!Return(l) \/ UNCHANGED held
    <2>1. l \in Runners /\ pc' = [pc EXCEPT ![l] = "off"]
      BY <1>2, <1>8 DEF CancelDelivered
    <2>2. CASE pc[l] \in Cycling
      BY <1>1, <2>1, <2>2, LeaveReturns
    <2>3. CASE pc[l] \notin Cycling
      BY <1>1, <2>1, <2>3, MoveStutters DEF Cycling, Phases
    <2> QED  BY <2>2, <2>3
  <1>9. ASSUME NEW m \in Manuals, ManualStart(m)
        PROVE  CycleLease!Grant(m) \/ UNCHANGED held
    BY <1>2, <1>5, <1>9 DEF ManualStart, Cycling
  <1>10. ASSUME UNCHANGED pc PROVE UNCHANGED held
    BY <1>10 DEF held
  <1>11. ASSUME NEW s \in Callers, StopBegins(s) \/ StopStep(s) PROVE UNCHANGED pc
    BY <1>11 DEF StopBegins, StopStep, DrainDone, JoinDone
  <1>12. ASSUME \/ \E s \in Stoppers : StopRequest(s)
                \/ ShutdownBegins
                \/ \E s \in Callers : StopStep(s)
                \/ Tier3Done
                \/ \E j \in Jobs : JobStart(j) \/ JobDone(j)
                \/ UNCHANGED vars
         PROVE  UNCHANGED pc
    BY <1>11, <1>12
       DEF StopRequest, ShutdownBegins, Tier3Done, JobStart, JobDone, vars, Callers
  <1> QED
    BY <1>2, <1>3, <1>4, <1>6, <1>7, <1>8, <1>9, <1>10, <1>12
       DEF Next, CycleStep, LoopStep

\* Every behaviour of the pipeline is one of a lock with one owner.
THEOREM CycleImplementsLock == Spec => ImplementsLock
  <1>1. Init => CycleLease!Init
    BY DEF Init, CycleLease!Init, held, Cycling
  <1>2. Inv /\ [Next]_vars => [CycleLease!Next]_held
    BY LeaseStep
  <1> QED
    BY <1>1, <1>2, SpecInv, PTL DEF Spec, ImplementsLock, CycleLease!Spec
=============================================================================
