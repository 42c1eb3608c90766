\* Crashes stop and users return: issued tokens reach the host.
CONSTANTS
    Harness = {claude}
    Token = {t1, t2}
    NoFile = NoFile
    Blank = Blank
    NoHarness = NoHarness
    Session = {s1}
    KeychainBacked = {claude}
    FiltersBlank = {claude}
    HostFile = {}
    HostKeychain = {}
    LogsOut = {claude}
    Overlap = FALSE
    HostLogins = "never"
    Faults = {"crash", "torn", "keychainWrite", "laterArtifact"}
SPECIFICATION FairSpec
INVARIANT RecoveredStateHostOwned
PROPERTY EventuallyHostOwned
