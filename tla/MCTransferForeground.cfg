SPECIFICATION CountedSpec
CONSTANTS
    a = a
    f = f
    Tasks = {1}
    NSteps = 2
    Tokens = {1, 2, 3, 4, 5, 6}
    NoToken = 0
    NoTask = 0
    MaxRetries = 1
    QueueWorkers = {a}
    Foreground = {f}
    MaxCrashes = 1
    MaxStalls = 1
    MaxFaults = 1
    MaxRequests = 2
INVARIANTS
    OwnerIsNeverRefused
    ParkedIsAnswerable
    RecordsAreTrue
    ExecutionsAreBudgeted
    RenewedLeasesAreHeld
CHECK_DEADLOCK FALSE
