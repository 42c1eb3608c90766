SPECIFICATION SessionsSpec
CONSTANTS
    Session = {s1, s2}
    MaxChanges = 1
    NoEntry = NoEntry
    SSHHost = {h1, h2, h3}
    Origin = h1
    MaxChunks = 2
    HomeSession = {s1, s2}
    MaxEdits = 4
    MaxRuns = 3
    MaxLines = 2
    HbConn = {k1, k2}
    Endpoint = {e1, e2, e3}
    SbSession = {s1, s2}
    MaxBoxes = 2
    SbOverlap = FALSE
    LhWord <- Words
    CommandLines <- AskedCommands
    EnvLists <- AskedPairs
    Transcript = {t1}
    NoTranscript = none
    MaxRecords = 2
    MaxTime = 2
    CsSink = {a1}
    CsSecret = {x1, x2}
    MaxFresh = 1
    NoMaterial = NoMaterial
    AclRoot = "root"
    AclPath = {"src", "main", ".git"}
    AclKind <- ProjectKind
    AclParent <- ProjectParent
    AclAbove <- ProjectAbove
    AclDepth <- ProjectDepth
    AclMaxDepth = 2
    AclMaxTargets = 2
    AclMaxChanges = 2
    GtDir = {"workspace", "repo"}
    GtBelow <- Below
    GtRoots = {"workspace"}
    GtForeign <- ForeignEntries
    GtSession = {g1}
SYMMETRY SessionSymmetry
INVARIANTS
    SessionsTypeOK
    RequestsInOrder
    OutputComplete
    NothingLeftBehind
    LaunchesAsAdmitted
    PermissionsAsReported
PROPERTIES
    QuietAfterClose
    NewerKept
    TrustHolds
CHECK_DEADLOCK FALSE
