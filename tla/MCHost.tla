---------------------------------- MODULE MCHost ----------------------------------
(***************************************************************************)
(* What hazmat keeps on the host between sessions, for TLC: one run checks *)
(* the components that keep and repair it.  They share no state with one   *)
(* another, so that a behaviour is one of a single component: part says    *)
(* which, and the others stay as they are at rest.                         *)
(***************************************************************************)
EXTENDS Configuration, RepoSetup, HarnessAssets, Backup, RuntimeCapability,
        CredentialMigration, PlanescapeProvider, HostSetup, HarnessLifecycle,
        HostImport, DiagnosticRepair, LinuxSetup, TLC

VARIABLE part \* the component whose behaviour this is

Parts == {"config", "repo", "assets", "backup", "capability", "credentials",
          "provider", "setup", "harness", "import", "doctor", "linux"}

\* The components that are not running, each in one of its initial states.
ConfigRests ==
    /\ cfgFile = DefaultConfig(FALSE)
    /\ CfgInit

RepoRests ==
    /\ rsTools = {"g"} /\ rsPinned = {}
    /\ rsRoot = [t \in Suggestion |-> "clean"]
    /\ RsInit

AssetsRests ==
    /\ haSrc = [a \in Asset |-> 0]
    /\ HaInit

CredentialsRests ==
    /\ cmDisk = Clean
    /\ CmInit

SetupRests ==
    /\ hsHost = {} /\ hsVersion = 0
    /\ HsInit

LifecycleRests ==
    /\ lcFile = [EmptySnapshot EXCEPT !.init = FALSE]
    /\ LcInit

ImportRests ==
    /\ imHost = [command |-> 1, gitIdentity |-> NoMap, accountState |-> NoMap, credential |-> 1]
    /\ imAgent = [command |-> 0, gitIdentity |-> NoMap, accountState |-> NoMap, credential |-> 0]
    /\ imStored = [accountState |-> NoMap, credential |-> 0]
    /\ ImInit

HostInit ==
    /\ part \in Parts
    /\ IF part = "config" THEN CfgInit ELSE ConfigRests
    /\ IF part = "repo" THEN RsInit ELSE RepoRests
    /\ IF part = "assets" THEN HaInit ELSE AssetsRests
    /\ BkInit
    /\ RcInit
    /\ IF part = "credentials" THEN CmInit ELSE CredentialsRests
    /\ PsInit
    /\ IF part = "setup" THEN HsInit ELSE SetupRests
    /\ IF part = "harness" THEN LcInit ELSE LifecycleRests
    /\ IF part = "import" THEN ImInit ELSE ImportRests
    /\ DrInit
    /\ LsInit

HostVars ==
    <<part, cfgVars, rsVars, haVars, bkVars, rcVars, cmVars, psVars, hsVars, lcVars,
      imVars, drVars, lsVars>>

ConfigMoves ==
    /\ part = "config" /\ CfgNext
    /\ UNCHANGED <<part, rsVars, haVars, bkVars, rcVars, cmVars, psVars, hsVars,
                   lcVars, imVars, drVars, lsVars>>

RepoMoves ==
    /\ part = "repo" /\ RsNext
    /\ UNCHANGED <<part, cfgVars, haVars, bkVars, rcVars, cmVars, psVars, hsVars,
                   lcVars, imVars, drVars, lsVars>>

AssetsMoves ==
    /\ part = "assets" /\ HaNext
    /\ UNCHANGED <<part, cfgVars, rsVars, bkVars, rcVars, cmVars, psVars, hsVars,
                   lcVars, imVars, drVars, lsVars>>

BackupMoves ==
    /\ part = "backup" /\ BkNext
    /\ UNCHANGED <<part, cfgVars, rsVars, haVars, rcVars, cmVars, psVars, hsVars,
                   lcVars, imVars, drVars, lsVars>>

CapabilityMoves ==
    /\ part = "capability" /\ RcNext
    /\ UNCHANGED <<part, cfgVars, rsVars, haVars, bkVars, cmVars, psVars, hsVars,
                   lcVars, imVars, drVars, lsVars>>

CredentialsMoves ==
    /\ part = "credentials" /\ CmNext
    /\ UNCHANGED <<part, cfgVars, rsVars, haVars, bkVars, rcVars, psVars, hsVars,
                   lcVars, imVars, drVars, lsVars>>

ProviderMoves ==
    /\ part = "provider" /\ PsNext
    /\ UNCHANGED <<part, cfgVars, rsVars, haVars, bkVars, rcVars, cmVars, hsVars,
                   lcVars, imVars, drVars, lsVars>>

SetupMoves ==
    /\ part = "setup" /\ HsNext
    /\ UNCHANGED <<part, cfgVars, rsVars, haVars, bkVars, rcVars, cmVars, psVars,
                   lcVars, imVars, drVars, lsVars>>

LifecycleMoves ==
    /\ part = "harness" /\ LcNext
    /\ UNCHANGED <<part, cfgVars, rsVars, haVars, bkVars, rcVars, cmVars, psVars,
                   hsVars, imVars, drVars, lsVars>>

ImportMoves ==
    /\ part = "import" /\ ImNext
    /\ UNCHANGED <<part, cfgVars, rsVars, haVars, bkVars, rcVars, cmVars, psVars,
                   hsVars, lcVars, drVars, lsVars>>

DoctorMoves ==
    /\ part = "doctor" /\ DrNext
    /\ UNCHANGED <<part, cfgVars, rsVars, haVars, bkVars, rcVars, cmVars, psVars,
                   hsVars, lcVars, imVars, lsVars>>

LinuxSetupMoves ==
    /\ part = "linux" /\ LsNext
    /\ UNCHANGED <<part, cfgVars, rsVars, haVars, bkVars, rcVars, cmVars, psVars,
                   hsVars, lcVars, imVars, drVars>>

HostNext ==
    \/ ConfigMoves \/ RepoMoves \/ AssetsMoves \/ BackupMoves
    \/ CapabilityMoves \/ CredentialsMoves \/ ProviderMoves \/ SetupMoves
    \/ LifecycleMoves \/ ImportMoves \/ DoctorMoves \/ LinuxSetupMoves

HostSpec == HostInit /\ [][HostNext]_HostVars

----------------------------------------------------------------------------

\* The types of the running component's variables.
HostTypeOK ==
    /\ part = "config" => CfgTypeOK
    /\ part = "repo" => RsTypeOK
    /\ part = "assets" => HaTypeOK
    /\ part = "backup" => BkTypeOK
    /\ part = "capability" => RcTypeOK
    /\ part = "credentials" => CmTypeOK
    /\ part = "provider" => PsTypeOK
    /\ part = "setup" => HsTypeOK
    /\ part = "harness" => LcTypeOK
    /\ part = "import" => ImTypeOK
    /\ part = "doctor" => DrTypeOK
    /\ part = "linux" => LsTypeOK

\* What hazmat records of the harnesses and their assets is what is there,
\* and it destroys nothing there that is not its own.
HarnessRecordsTrue == []InstalledIsManaged /\ []RecordsMatchHistory /\ UnmanagedSurvives

\* On neither platform, and whatever fails or is interrupted, does the right
\* to start the agent outlive what contains it.
ContainmentOutlivesPrivilege == ContainedOrStuck /\ PrivilegeLast

\* What init and the doctor report done is done.
SetupClaimsHold == InitConverges /\ ReceiptsStayTrue

\* Work that a restore clears, or an import replaces, is in a snapshot, or was
\* the user's decision.
OverwrittenWorkIsKept == []ClearedWorkIsInSnapshot /\ ImportKeepsWhatDiffers

\* Processes are alike.
ProcessSymmetry == Permutations(CmProc)
=============================================================================
