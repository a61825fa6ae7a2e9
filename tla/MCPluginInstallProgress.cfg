SPECIFICATION FairSpec
CONSTANTS
    Tx = {t1}
    Base = Base
    None = None
    Torn = Torn
    MaxFaults = 2
    MaxCrashes = 1
    MaxStops = 1
    MaxBackups = 1
    MaxUninstalls = 1
    MaxResets = 1
    MaxTears = 1
INVARIANTS
    StoresAgree
PROPERTIES
    EveryTransactionEnds
CHECK_DEADLOCK FALSE
