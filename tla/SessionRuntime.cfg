SPECIFICATION FairSpec
CONSTANTS
    Conn = {k1, k2}
    MaxSignals = 2
INVARIANTS
    TypeOK
    NothingOutlivesTheLaunch
PROPERTIES
    ReleasesInReverse
    TeardownBlockedOnlyBySilentClient
CHECK_DEADLOCK FALSE
