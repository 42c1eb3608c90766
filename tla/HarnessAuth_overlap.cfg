\* Two overlapping Claude processes on one agent home.
CONSTANTS
    Harness = {claude}
    Token = {t1, t2}
    NoFile = NoFile
    Blank = Blank
    NoHarness = NoHarness
    Session = {s1, s2}
    KeychainBacked = {claude}
    FiltersBlank = {claude}
    HostFile = {}
    HostKeychain = {}
    LogsOut = {claude}
    Overlap = TRUE
    HostLogins = "never"
    Faults = {"crash", "storeWrite", "agentWrite", "keychainRead", "keychainClear"}
SPECIFICATION Spec
SYMMETRY ProcessSymmetry
PROPERTY LoggedOutNeverPromoted
