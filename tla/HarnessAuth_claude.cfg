\* Claude on macOS, default configuration: agent keychain, no host copy.
CONSTANTS
    Harness = {claude}
    Token = {t1, t2, t3}
    NoFile = NoFile
    Blank = Blank
    NoHarness = NoHarness
    Session = {s1}
    KeychainBacked = {claude}
    FiltersBlank = {claude}
    HostFile = {}
    HostKeychain = {}
    LogsOut = {claude}
    Overlap = FALSE
    HostLogins = "never"
    Faults = {"crash", "torn", "storeWrite", "archive", "agentRemove", "keychainWrite", "laterArtifact"}
SPECIFICATION Spec
SYMMETRY TokenSymmetry
INVARIANT TypeOK FilteredLatestKept
PROPERTY DivergenceArchived
