SPECIFICATION HostSpec
CONSTANTS
    Command = {p1, p2}
    MaxCommands = 2
    RsSession = {p1, p2}
    MaxLaunches = 2
    HaProcess = {p1, p2}
    AssetA = {a1}
    AssetB = {b1}
    MaxVersion = 3
    MaxWork = 2
    MaxSnapshots = 2
    MaxNow = 2
    MaxResults = 1
    MaxFeeds = 2
    MaxDecls = 1
    CmProc = {p1, p2}
    EnvVar = {v1}
    MaxCmCommands = 2
    OpId = {o1, o2, o3}
    Nonce = {n1}
    MaxOps = 2
    MaxEpoch = 2
    BinaryVersions = {4, 5}
    MaxHostCommands = 3
    MaxPfEdits = 0
    MaxRemovalFailures = 1
    LcProcess = {p1, p2}
    LcHarness = {x1, x2}
    ManualHarness = {x2}
    MaxLcCommands = 3
    MaxImports = 2
    MaxEditsMade = 1
    AgentFindings = {"umask", "agent-env"}
    MaxDrift = 2
    MaxDoctorRuns = 2
    MaxLinuxCommands = 3
    MaxLinuxDrift = 1
SYMMETRY ProcessSymmetry
INVARIANTS
    HostTypeOK
    WritesWereApproved
    CapabilityBounded
    SentAsCheckpointed
    ContainmentOutlivesPrivilege
    
PROPERTIES
    ConfigurationKept
    HarnessRecordsTrue
    CredentialsKept
    OverwrittenWorkIsKept
CHECK_DEADLOCK FALSE
