SPECIFICATION Spec
CONSTANTS
    Loops = {l1, l2}
    Manuals = {}
    Stoppers = {s1}
    Shutdown = Shutdown
    Jobs = {}
    Nobody = Nobody
CHECK_DEADLOCK FALSE
PROPERTIES
    RunsUntilStopped
