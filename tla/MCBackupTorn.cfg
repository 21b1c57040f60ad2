SPECIFICATION FairSpec
CONSTANTS
    Attempts = 2
    MaxSnaps = 2
    MaxPeriod = 1
    MaxBackups = 1
CHECK_DEADLOCK FALSE
INVARIANTS
    BackupsRestore
