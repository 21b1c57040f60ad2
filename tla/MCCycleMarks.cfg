CONSTANTS
    Setups <- MarkSetups
    MaxRetries = 3
    MaxFaults = 0
SPECIFICATION Spec
INVARIANTS
    GeneratedRowsAreMarked
CHECK_DEADLOCK FALSE
