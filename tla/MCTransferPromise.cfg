SPECIFICATION Spec
CONSTANTS
    a = a
    b = b
    f = f
    Tasks = {1, 2}
    NSteps = 1
    Tokens = {1, 2, 3, 4, 5, 6, 7, 8, 9}
    NoToken = 0
    NoTask = 0
    MaxRetries = 0
    QueueWorkers = {a}
    Foreground = {f}
    MaxCrashes = 1
    MaxStalls = 0
    MaxFaults = 1
    MaxRequests = 2
PROPERTIES
    ImplementsPromise
CHECK_DEADLOCK FALSE
