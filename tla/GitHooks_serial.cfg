SPECIFICATION Spec
CONSTANTS
    b1 = b1
    h1 = h1
    Project = {p1}
    Hook = {h1, h2}
    Bundle = {b1, b2}
    HooksOf <- SameHooks
    NoBundle = NoBundle
    Malformed = Malformed
    Body = {bare}
    Bare = bare
    NoFile = NoFile
    NoRecord = NoRecord
    NoChain = NoChain
    Process = {s1}
    Modes = {"plain", "replace", "chain", "auto", "uninstall"}
    UserHooks = {}
    Overlap = FALSE
    AgentEdits = "idle"
    AgentMoves = {"bundle", "break", "path", "owner"}
    Faults = {"crash", "stuckFile", "noGitDir"}
SYMMETRY InstanceSymmetry
INVARIANTS TypeOK RecordedSnapshotWhole
PROPERTIES InstalledValidates UninstallRemovesRuntime
