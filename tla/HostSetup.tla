----------------------------- MODULE HostSetup -----------------------------
(***************************************************************************)
(* hazmat init and hazmat rollback on one host: the version migrations,    *)
(* the fifteen setup steps in their order, the record of the version, the  *)
(* reverse migrations and the eleven rollback steps.  A setup step returns *)
(* its first error and ends the command; a rollback step turns every error *)
(* into a warning and the next one runs.  A command that dies leaves what  *)
(* the steps so far have written, and the next command starts from there.  *)
(***************************************************************************)
EXTENDS Integers, SequencesExt, FiniteSets

CONSTANTS BinaryVersions,  \* the versions of the binaries init is run with, see Versions
          MaxHostCommands, \* how many init and rollback commands are run
          MaxPfEdits,      \* how often the user edits /etc/pf.conf
          MaxRemovalFailures \* how many removals fail

VARIABLES hsHost,     \* the artifacts present on the host
          hsPf,       \* the user's own lines of pf.conf, and of its newest backup
          hsVersion,  \* state.json: the recorded version, 0 none, -1 unreadable
          hsPhase,    \* where the running command is
          hsStep,     \* the step it is at
          hsOptions,  \* what the user chose for this command
          hsStuck,    \* sudoers entries a rollback failed to remove
          hsTorn,     \* whether the account's making or deleting was cut short
          hsCommands, hsFailures

hsVars == <<hsHost, hsPf, hsVersion, hsPhase, hsStep, hsOptions, hsStuck, hsTorn, hsCommands,
            hsFailures>>

(* 1..4 are the releases 0.1.0 to 0.4.0 of knownVersions; 5 stands for any *)
(* other string: a later release, a development build, a commit hash.      *)
KnownVersions == 1 .. 4
Versions == KnownVersions \union {5}

HsAssumption == /\ BinaryVersions \subseteq Versions
                /\ MaxHostCommands \in Nat
                /\ MaxPfEdits \in Nat
                /\ MaxRemovalFailures \in Nat
ASSUME HsAssumption

Sudoers == {"sudoers", "maintenanceSudoers"}
Firewall == {"pfAnchor", "pfRegistered"}
Account == {"userRecord", "agentHome", "hiddenAccount"}
InAgentHome == {"umask", "seatbelt", "npmrc", "pipConf", "workspaceLink"}
Artifacts == Sudoers \union Firewall \union Account \union InAgentHome \union
    {"devGroup", "homeTraverse", "localRepo", "wrappers", "completions",
     "safeDirectory", "dnsBlocklist", "launchDaemon", "launchHelper"}

SetupSteps == <<"setupAgentUser", "setupDevGroup", "setupHomeDirTraverse",
    "setupLocalRepo", "setupHardeningGaps", "setupSeatbelt", "setupWrappers",
    "setupPfFirewall", "setupDNSBlocklist", "setupLaunchDaemon",
    "setupLaunchHelper", "setupSudoers", "maybeSetupOptionalMaintenance",
    "setupSelectedHarness", "setupAgentCredentials">>

(* Slip: the anchor file alone counts as a configured firewall.            *)
SetupPfOnce == IF "pfAnchor" \in hsHost THEN <<>> ELSE <<"pfAnchor", "pfRegistered">>

(* The anchor file and its registration in pf.conf are tested apart.       *)
SetupPfFirewall ==
    (IF "pfAnchor" \in hsHost THEN <<>> ELSE <<"pfAnchor">>) \o
    (IF "pfRegistered" \in hsHost THEN <<>> ELSE <<"pfBackup", "pfRegistered">>)

(* A user that can be looked up is taken as made: its home and its hiding  *)
(* and password are not looked at again.                                   *)
SetupAgentUser ==
    IF "userRecord" \in hsHost THEN <<>> ELSE <<"userRecord", "agentHome", "hiddenAccount">>

(* The steps that write one artifact, again or for the first time.         *)
SetupDevGroup == <<"devGroup">>
SetupHomeDirTraverse == <<"homeTraverse">>
SetupLocalRepo == <<"localRepo">>
SetupHardeningGaps == <<"umask">>
SetupSeatbelt == <<"seatbelt">>
SetupDNSBlocklist == <<"dnsBlocklist">>
SetupLaunchDaemon == <<"launchDaemon">>
SetupLaunchHelper == <<"launchHelper">>
SetupSudoers == <<"sudoers">>

SetupWrappers == <<"wrappers", "completions", "safeDirectory">>

SelectedHarness == IF hsOptions.claude THEN <<"npmrc", "pipConf">> ELSE <<>>

OptionalMaintenance == IF hsOptions.maintenance THEN <<"maintenanceSudoers">> ELSE <<>>

(* What a setup step writes, in order.                                     *)
Writes(step) ==
    CASE step = "setupAgentUser"        -> SetupAgentUser
      [] step = "setupDevGroup"         -> SetupDevGroup
      [] step = "setupHomeDirTraverse"  -> SetupHomeDirTraverse
      [] step = "setupLocalRepo"        -> SetupLocalRepo
      [] step = "setupHardeningGaps"    -> SetupHardeningGaps
      [] step = "setupSeatbelt"         -> SetupSeatbelt
      [] step = "setupWrappers"         -> SetupWrappers
      [] step = "setupPfFirewall"       -> SetupPfFirewall
      [] step = "setupDNSBlocklist"     -> SetupDNSBlocklist
      [] step = "setupLaunchDaemon"     -> SetupLaunchDaemon
      [] step = "setupLaunchHelper"     -> SetupLaunchHelper
      [] step = "setupSudoers"          -> SetupSudoers
      [] step = "maybeSetupOptionalMaintenance" -> OptionalMaintenance
      [] step = "setupSelectedHarness"  -> SelectedHarness
      [] step = "setupAgentCredentials" -> <<>>

-----------------------------------------------------------------------------

Ends == /\ hsPhase' = "idle"
        /\ hsStep' = 0

NoOptions == [claude |-> FALSE, maintenance |-> FALSE, delete |-> FALSE, version |-> 0]

(* A fresh host, one that release 0.1.0 set up (it kept no state.json), or *)
(* one set up by 0.2.0.                                                    *)
SetUpBy(v) == Artifacts \ ({"npmrc", "pipConf", "completions", "maintenanceSudoers"}
                           \union (IF v = 1 THEN {"homeTraverse"} ELSE {"workspaceLink"}))

HsInit == /\ \/ hsHost = {} /\ hsVersion = 0
             \/ hsHost = SetUpBy(1) /\ hsVersion = 0
             \/ hsHost = SetUpBy(2) /\ hsVersion = 2
          /\ hsPf = [user |-> 0, backup |-> 0]
          /\ hsPhase = "idle"
          /\ hsStep = 0
          /\ hsOptions = NoOptions
          /\ hsStuck = {}
          /\ hsTorn = FALSE
          /\ hsCommands = 0
          /\ hsFailures = 0

Start(phase, options) ==
    /\ hsPhase = "idle"
    /\ hsCommands < MaxHostCommands
    /\ hsCommands' = hsCommands + 1
    /\ hsPhase' = phase
    /\ hsStep' = 1
    /\ hsOptions' = options

RunInit == /\ \E claude, maintenance \in BOOLEAN, v \in BinaryVersions :
                Start("migrate", [NoOptions EXCEPT !.claude = claude, !.maintenance = maintenance,
                                                   !.version = v])
           /\ UNCHANGED <<hsHost, hsPf, hsVersion, hsStuck, hsTorn, hsFailures>>

(* An unreadable state file is taken for a fresh install; without a record *)
(* the artifacts of 0.1.0 are looked for.                                  *)
InstalledVersion ==
    CASE hsVersion = -1 -> 0
      [] hsVersion = 0  -> IF "workspaceLink" \in hsHost THEN 1 ELSE 0
      [] OTHER          -> hsVersion

(* The chain of adjacent migrations from the installed to the binary's     *)
(* version: empty when either is not a known release.                      *)
PendingMigrations ==
    IF InstalledVersion \in KnownVersions /\ hsOptions.version \in KnownVersions
    THEN InstalledVersion .. hsOptions.version - 1
    ELSE {}

(* One migration forward: 0.1.0 to 0.2.0 takes the workspace link away, as *)
(* far as it can; the others leave the work to the setup steps.  Progress  *)
(* is recorded, a failure of that being a warning.                         *)
MigrateUp(from) ==
    /\ hsHost' \in (IF from = 1 THEN {hsHost, hsHost \ {"workspaceLink"}} ELSE {hsHost})
    /\ hsVersion' \in {from + 1, hsVersion}

RunMigrations ==
    /\ hsPhase = "migrate"
    /\ IF PendingMigrations = {} \/ hsStep > Cardinality(KnownVersions)
       THEN /\ hsPhase' = "setup"
            /\ hsStep' = 1
            /\ UNCHANGED <<hsHost, hsVersion>>
       ELSE /\ MigrateUp(InstalledVersion)
            /\ hsStep' = hsStep + 1
            /\ UNCHANGED hsPhase
    /\ UNCHANGED <<hsPf, hsOptions, hsStuck, hsTorn, hsCommands, hsFailures>>

(* The first k writes of the step have happened.                           *)
Written(writes, k) ==
    /\ hsHost' = hsHost \union (Range(SubSeq(writes, 1, k)) \ {"pfBackup"})
    /\ hsPf' = IF "pfBackup" \in Range(SubSeq(writes, 1, k))
               THEN [hsPf EXCEPT !.backup = hsPf.user] ELSE hsPf

RunSetupStep ==
    /\ hsPhase = "setup"
    /\ hsStep <= Len(SetupSteps)
    /\ LET writes == Writes(SetupSteps[hsStep])
       IN  Written(writes, Len(writes))
    /\ hsStep' = hsStep + 1
    /\ UNCHANGED <<hsVersion, hsPhase, hsOptions, hsStuck, hsTorn, hsCommands, hsFailures>>

(* A write fails or the process dies: the command ends where it is.        *)
SetupStepFails ==
    /\ hsPhase = "setup"
    /\ hsStep <= Len(SetupSteps)
    /\ LET writes == Writes(SetupSteps[hsStep])
       IN  \E k \in 0 .. Len(writes) :
             /\ Written(writes, k)
             /\ hsTorn' = (hsTorn \/ (k \in 1 .. Len(writes) - 1 /\ writes[1] = "userRecord"))
    /\ Ends
    /\ UNCHANGED <<hsVersion, hsOptions, hsStuck, hsCommands, hsFailures>>

(* SaveVersion truncates state.json and writes it; the error is a warning  *)
(* and a death between the two leaves it unreadable.                       *)
SaveVersion ==
    /\ hsPhase = "setup"
    /\ hsStep > Len(SetupSteps)
    /\ \/ /\ hsVersion' \in {hsOptions.version, hsVersion}
          /\ hsPhase' = "initialised"
       \/ /\ hsVersion' = -1
          /\ hsPhase' = "idle"
    /\ hsStep' = 0
    /\ UNCHANGED <<hsHost, hsPf, hsOptions, hsStuck, hsTorn, hsCommands, hsFailures>>

Return == /\ hsPhase \in {"initialised", "rolledBack"}
          /\ Ends
          /\ UNCHANGED <<hsHost, hsPf, hsVersion, hsOptions, hsStuck, hsTorn, hsCommands, hsFailures>>

-----------------------------------------------------------------------------

RunRollback == /\ \E delete \in BOOLEAN :
                    Start("down", [NoOptions EXCEPT !.delete = delete])
               /\ UNCHANGED <<hsHost, hsPf, hsVersion, hsStuck, hsTorn, hsFailures>>

(* The removals of a step that fail; how many may is bounded.              *)
Failing(removes) == {kept \in SUBSET removes : hsFailures + Cardinality(kept) <= MaxRemovalFailures}

(* What the reverse migration from a version removes, as far as it can.    *)
MigrateDown(v) == CASE v = 4 -> {"completions"}
                    [] v = 3 -> {"npmrc", "pipConf"}
                    [] v = 2 -> {"homeTraverse"}
                    [] OTHER -> {}

(* The reverse migrations run down from the recorded version; a version    *)
(* that no migration leads to has none, and an unreadable state file is    *)
(* left where it is.                                                       *)
RunDownMigrations ==
    /\ hsPhase = "down"
    /\ LET removes == UNION {MigrateDown(v) : v \in 2 .. (IF hsVersion \in KnownVersions
                                                          THEN hsVersion ELSE 0)}
       IN  \E kept \in Failing(removes \intersect hsHost) :
             /\ hsHost' = hsHost \ (removes \ kept)
             /\ hsFailures' = hsFailures + Cardinality(kept)
    /\ hsVersion' = IF hsVersion = -1 THEN -1 ELSE 0
    /\ hsPhase' = "rollback"
    /\ hsStep' = 1
    /\ UNCHANGED <<hsPf, hsOptions, hsStuck, hsTorn, hsCommands>>

(* What each rollback step removes, one removal after the other.           *)
RollbackSudoers == <<{"sudoers"}, {"maintenanceSudoers"}>>
RollbackLaunchDaemon == <<{"launchDaemon"}>>
RollbackPfFirewall == <<{"pfAnchor"}, {"pfRegistered"}>>
RollbackDNSBlocklist == <<{"dnsBlocklist"}>>
RollbackSeatbelt == <<{"seatbelt"}>>
RollbackWrappers == <<{"wrappers", "completions", "safeDirectory"}>>
RollbackHomeDirTraverse == <<{"homeTraverse"}>>
RollbackUmask == <<{"umask"}>>
RollbackLocalRepo == <<{"localRepo"}>>
RollbackAgentUser == <<{"userRecord", "hiddenAccount"}, {"agentHome"} \union InAgentHome>>
RollbackDevGroup == <<{"devGroup"}>>

(* Slip: the firewall is taken down before the sudoers entries.            *)
FirewallFirst ==
    RollbackLaunchDaemon \o RollbackPfFirewall \o RollbackSudoers \o RollbackDNSBlocklist \o RollbackSeatbelt \o RollbackWrappers \o
    RollbackHomeDirTraverse \o RollbackUmask \o RollbackLocalRepo

CoreRollbackSteps ==
    RollbackSudoers \o RollbackLaunchDaemon \o RollbackPfFirewall \o RollbackDNSBlocklist \o RollbackSeatbelt \o RollbackWrappers \o
    RollbackHomeDirTraverse \o RollbackUmask \o RollbackLocalRepo

DestructiveRollbackSteps ==
    IF hsOptions.delete THEN RollbackAgentUser \o RollbackDevGroup ELSE <<>>

RollbackSteps == CoreRollbackSteps \o DestructiveRollbackSteps

(* A step removes what it finds; a removal that fails is a warning.  To    *)
(* take the anchor out of pf.conf its newest backup is copied back, or the *)
(* anchor's lines are cut out when that fails.                             *)
RunRollbackStep ==
    /\ hsPhase = "rollback"
    /\ hsStep <= Len(RollbackSteps)
    /\ \E kept \in Failing(RollbackSteps[hsStep] \intersect hsHost) :
         LET removed == (RollbackSteps[hsStep] \intersect hsHost) \ kept
         IN  /\ hsHost' = hsHost \ removed
             /\ hsFailures' = hsFailures + Cardinality(kept)
             /\ hsStuck' = (hsStuck \ removed) \union (kept \intersect Sudoers)
             /\ hsTorn' = (hsTorn \/ kept \intersect Account # {})
             /\ hsPf' \in IF "pfRegistered" \in removed
                          THEN {hsPf, [hsPf EXCEPT !.user = hsPf.backup]} ELSE {hsPf}
    /\ hsStep' = hsStep + 1
    /\ UNCHANGED <<hsVersion, hsPhase, hsOptions, hsCommands>>

RollbackReturns ==
    /\ hsPhase = "rollback"
    /\ hsStep > Len(RollbackSteps)
    /\ hsPhase' = "rolledBack"
    /\ hsStep' = 0
    /\ UNCHANGED <<hsHost, hsPf, hsVersion, hsOptions, hsStuck, hsTorn, hsCommands, hsFailures>>

RollbackDies == /\ hsPhase = "rollback"
                /\ Ends
                /\ UNCHANGED <<hsHost, hsPf, hsVersion, hsOptions, hsStuck, hsTorn, hsCommands, hsFailures>>

(* The user adds lines of their own to /etc/pf.conf.                       *)
EditPfConf == /\ hsPhase = "idle"
              /\ hsPf.user < MaxPfEdits
              /\ hsPf' = [hsPf EXCEPT !.user = @ + 1]
              /\ UNCHANGED <<hsHost, hsVersion, hsPhase, hsStep, hsOptions, hsStuck, hsTorn, hsCommands, hsFailures>>

HsNext == \/ RunInit \/ RunMigrations \/ RunSetupStep \/ SetupStepFails \/ SaveVersion \/ Return
          \/ RunRollback \/ RunDownMigrations \/ RunRollbackStep \/ RollbackReturns \/ RollbackDies
          \/ EditPfConf

HsSpec == HsInit /\ [][HsNext]_hsVars

-----------------------------------------------------------------------------

HsTypeOK ==
    /\ hsHost \subseteq Artifacts
    /\ hsPf \in [user : 0 .. MaxPfEdits, backup : 0 .. MaxPfEdits]
    /\ hsVersion \in Versions \union {0, -1}
    /\ hsPhase \in {"idle", "migrate", "setup", "initialised", "down", "rollback", "rolledBack"}
    /\ hsStep \in 0 .. Len(SetupSteps) + 1
    /\ hsOptions \in [claude : BOOLEAN, maintenance : BOOLEAN, delete : BOOLEAN,
                     version : BinaryVersions \union {0}]
    /\ hsStuck \subseteq Sudoers
    /\ hsTorn \in BOOLEAN
    /\ hsCommands \in 0 .. MaxHostCommands
    /\ hsFailures \in 0 .. MaxRemovalFailures

Contained == (hsHost \intersect Sudoers # {}) => Firewall \subseteq hsHost

(* Across every order of interrupted, failed and repeated init and         *)
(* rollback commands, the user may launch the agent without a password     *)
(* only behind the firewall, but for an entry that a rollback tried and    *)
(* failed to remove.                                                       *)
ContainedOrStuck == Contained \/ (hsHost \intersect hsStuck # {})

(* An init that returns without an error has left every artifact of its    *)
(* steps on the host, whatever the commands before it had left, but for    *)
(* the account, which an earlier command may have left half made.          *)
InitConverges ==
    hsPhase = "initialised" =>
        Artifacts \ hsHost \subseteq
            {"workspaceLink", "maintenanceSudoers", "npmrc", "pipConf"}
              \union (IF hsTorn THEN Account ELSE {})

(* The sudoers entries never exist without the firewall, in init, in       *)
(* migration, after a failure and in rollback alike: what the repository's *)
(* tla/04_version_migration.md says of setup.                              *)
AgentContained == Contained

=============================================================================
