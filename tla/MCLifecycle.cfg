SPECIFICATION FairSpec
CONSTANTS
    Loops = {l1, l2, l3}
    Manuals = {m1, m2}
    Stoppers = {s1}
    Shutdown = Shutdown
    Jobs = {j1}
    Nobody = Nobody
CHECK_DEADLOCK FALSE
INVARIANTS
    SingleFlight
    WritingMeansPersist
    RunningMeansAlive
PROPERTIES
    CycleEnds
    LonePollerStays
    PollingContinues
    ShutdownEndsLoops
