SPECIFICATION Spec
CONSTANTS
    Tx = {t1, t2}
    Base = Base
    None = None
    Torn = Torn
    MaxFaults = 2
    MaxCrashes = 2
    MaxStops = 1
    MaxBackups = 0
    MaxUninstalls = 0
    MaxResets = 1
    MaxTears = 0
INVARIANTS
    StoresAgree
    Recoverable
PROPERTIES
    CommitIsFinal
CHECK_DEADLOCK FALSE
