SPECIFICATION FairSpec
CONSTANTS
    Attempts = 2
    MaxSnaps = 2
    MaxPeriod = 2
    MaxBackups = 1
CHECK_DEADLOCK FALSE
INVARIANTS
    RowsKept
    CountIsHonest
    QuietBackupsRestore
PROPERTIES
    JobsEnd
