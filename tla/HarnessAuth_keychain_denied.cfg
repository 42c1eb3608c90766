\* The agent keychain item cannot be read without interaction.
CONSTANTS
    Harness = {claude}
    Token = {t1, t2}
    NoFile = NoFile
    Blank = Blank
    NoHarness = NoHarness
    Session = {s1}
    KeychainBacked = {claude}
    FiltersBlank = {claude}
    HostFile = {}
    HostKeychain = {}
    LogsOut = {claude}
    Overlap = FALSE
    HostLogins = "never"
    Faults = {"keychainRead"}
SPECIFICATION Spec
SYMMETRY TokenSymmetry
INVARIANT LatestValueNeverSilentlyLost
