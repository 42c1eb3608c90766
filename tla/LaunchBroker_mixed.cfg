SPECIFICATION FairSpec
CONSTANTS
    c1 = c1
    c2 = c2
    Client <- TwoClients
    Launches <- MixedLaunches
    MaxFaults = 1
    KillPermitted = TRUE
    None = None
    NoSocket = NoSocket
    Stale = Stale
    Direct = Direct
INVARIANTS TypeOK StartedOnce CleanupAfterCommand
PROPERTIES LaunchesAsPromised LaunchEnds
CHECK_DEADLOCK FALSE
