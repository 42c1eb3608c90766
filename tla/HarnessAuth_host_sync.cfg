\* Codex with its host file and Claude with the opted-in host Keychain.
CONSTANTS
    Harness = {claude, codex}
    Token = {t1, t2, t3}
    NoFile = NoFile
    Blank = Blank
    NoHarness = NoHarness
    Session = {s1}
    KeychainBacked = {claude}
    FiltersBlank = {claude}
    HostFile = {codex}
    HostKeychain = {claude}
    LogsOut = {claude}
    Overlap = FALSE
    HostLogins = "idle"
    Faults = {"hostRead", "hostWrite"}
SPECIFICATION Spec
SYMMETRY TokenSymmetry
INVARIANT HostFileLatestKept
