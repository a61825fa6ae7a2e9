SPECIFICATION Spec
CONSTANTS
    a = a
    b = b
    f = f
    Tasks = {1}
    NSteps = 2
    Tokens = {1, 2, 3, 4, 5, 6}
    NoToken = 0
    NoTask = 0
    MaxRetries = 1
    QueueWorkers = {a}
    Foreground = {}
    MaxCrashes = 1
    MaxStalls = 0
    MaxFaults = 1
    MaxRequests = 2
PROPERTIES
    UnhandledFailureIsNotReplayed
CHECK_DEADLOCK FALSE
