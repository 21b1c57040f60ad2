CONSTANTS
    Setups <- HistorySetups
    MaxRetries = 3
    MaxFaults = 0
SPECIFICATION Spec
INVARIANTS
    ChangesAreReal
CHECK_DEADLOCK FALSE
