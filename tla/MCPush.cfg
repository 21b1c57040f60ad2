SPECIFICATION FairSpec
CONSTANTS
    Topics = {fetch, cycle}
    Star = Star
    Bridged = {fetch, cycle}
    Globbed = {fetch}
    Clients = {w1, w2}
    MaxEvents = 1
    MaxCommands = 1
CHECK_DEADLOCK FALSE
INVARIANTS
    BroadcastReachesAll
PROPERTIES
    GoneStaysGone
    DeadClientsLeave
