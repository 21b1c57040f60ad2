CONSTANTS
    Setups <- MCSetups
    MaxRetries = 3
    MaxFaults = 1
SPECIFICATION FairSpec
INVARIANTS
    ValuesAreHonest
    CountsAreFresh
    AlertBacked
PROPERTIES
    CycleTerminates
CHECK_DEADLOCK FALSE
