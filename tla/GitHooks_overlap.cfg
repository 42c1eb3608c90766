SPECIFICATION Spec
CONSTANTS
    b1 = b1
    h1 = h1
    Project = {p1}
    Hook = {h1}
    Bundle = {b1, b2}
    HooksOf <- SameHooks
    NoBundle = NoBundle
    Malformed = Malformed
    Body = {bare}
    Bare = bare
    NoFile = NoFile
    NoRecord = NoRecord
    NoChain = NoChain
    Process = {s1, s2}
    Modes = {"plain", "uninstall", "rollback", "hook"}
    UserHooks = {}
    Overlap = TRUE
    AgentEdits = "always"
    AgentMoves = {"bundle"}
    Faults = {"crash", "tornSave", "partialRemoval", "stuckState"}
SYMMETRY InstanceSymmetry
PROPERTIES ApprovedContentOnly
