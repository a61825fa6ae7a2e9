SPECIFICATION FairSpec
CONSTANTS
    a = a
    b = b
    f = f
    Tasks = {1}
    NSteps = 2
    Tokens = {1, 2, 3, 4, 5, 6}
    NoToken = 0
    NoTask = 0
    MaxRetries = 1
    QueueWorkers = {a, b}
    Foreground = {}
    MaxCrashes = 1
    MaxStalls = 1
    MaxFaults = 1
    MaxRequests = 2
INVARIANTS
    TypeOK
    SettlingIsReplayable
    OneResidentPerTask
PROPERTIES
    NoBlindReplay
    EveryTransferConcludes
CHECK_DEADLOCK FALSE
