-------------------------- MODULE HarnessLifecycle --------------------------
(***************************************************************************)
(* The commands that install, import and uninstall harnesses, and the      *)
(* records they keep in state.json beside the version init writes there.   *)
(* Every command loads the whole file, changes its part and writes the     *)
(* whole file back: os.WriteFile truncates it first, nothing locks it.     *)
(***************************************************************************)
EXTENDS Integers, FiniteSets

CONSTANTS LcProcess,      \* hazmat commands that may run at the same time
          LcHarness,      \* managed harnesses
          ManualHarness,  \* those whose binary the user installs (Hermes, Pi, Cursor Agent)
          MaxLcCommands   \* how many commands are run

VARIABLES lcFile,      \* state.json: a snapshot, or Torn
          lcArtifact,  \* the managed code of each harness in the agent's home
          lcCommand,   \* what each process runs, and where it is
          lcHistory,   \* what the completed commands should have left recorded
          lcClean,     \* no two read-modify-writes overlapped, none was cut short
          lcCount

lcVars == <<lcFile, lcArtifact, lcCommand, lcHistory, lcClean, lcCount>>

ASSUME LcAssumption == ManualHarness \subseteq LcHarness /\ MaxLcCommands \in Nat

(* A harness's entry: the state version alone, or also a time of import.   *)
Records == {"none", "installed", "imported"}

Snapshots == [init : BOOLEAN, rec : [LcHarness -> Records]]

(* What Load returns for an absent file.                                   *)
EmptySnapshot == [init |-> FALSE, rec |-> [h \in LcHarness |-> "none"]]

Torn == [torn |-> TRUE]

(* "drifted": something else stands at a managed path, a link, another     *)
(* npm package, a file where a directory was.                              *)
ArtifactStates == {"absent", "managed", "drifted"}

LcIdle == [op |-> "none", at |-> "idle"]

Operations == {"update", "import", "uninstall", "init"}

LcTypeOK ==
    /\ lcFile \in Snapshots \union {Torn}
    /\ lcArtifact \in [LcHarness -> ArtifactStates]
    /\ DOMAIN lcCommand = LcProcess
    /\ \A p \in LcProcess :
         \/ lcCommand[p] = LcIdle
         \/ /\ lcCommand[p].op \in Operations
            /\ lcCommand[p].h \in LcHarness
            /\ lcCommand[p].at \in {"apply", "install", "directories", "load", "remove", "truncate", "fill"}
            /\ lcCommand[p].snapshot \in Snapshots
    /\ lcHistory \in [LcHarness -> Records]
    /\ lcClean \in BOOLEAN
    /\ lcCount \in 0 .. MaxLcCommands

(* state.json of a host that init has set up, or none.                     *)
LcInit == /\ \E i \in BOOLEAN : lcFile = [EmptySnapshot EXCEPT !.init = i]
          /\ lcArtifact = [h \in LcHarness |-> "absent"]
          /\ lcCommand = [p \in LcProcess |-> LcIdle]
          /\ lcHistory = [h \in LcHarness |-> "none"]
          /\ lcClean = TRUE
          /\ lcCount = 0

LcBegin(p, op, h, at, plan) ==
    /\ lcCommand[p] = LcIdle
    /\ lcCount < MaxLcCommands
    /\ lcCount' = lcCount + 1
    /\ lcCommand' = [lcCommand EXCEPT
           ![p] = [op |-> op, h |-> h, at |-> at, plan |-> plan, snapshot |-> EmptySnapshot]]
    /\ UNCHANGED <<lcFile, lcArtifact, lcHistory, lcClean>>

Goto(p, at) == lcCommand' = [lcCommand EXCEPT ![p].at = at]

LcReturn(p) == lcCommand' = [lcCommand EXCEPT ![p] = LcIdle]

NoPlan == [exists |-> FALSE, recorded |-> FALSE]

-----------------------------------------------------------------------------
(* Inspection *)

(* A harness the user installs has no artifact that Hazmat owns.           *)
InspectArtifact(h) == [exists |-> h \notin ManualHarness /\ lcArtifact[h] # "absent",
                       drift  |-> h \notin ManualHarness /\ lcArtifact[h] = "drifted"]

(* An executable of the harness is found at its path.                      *)
ProbeInstalled(h) == lcArtifact[h] # "absent"

(* ... and, where Hazmat owns it, it has not drifted.                      *)
managedHarnessInstalledForLaunch(h) == ProbeInstalled(h) /\ ~InspectArtifact(h).drift

(* The line hazmat harness status shows.  It changes nothing.              *)
classifyHarnessLifecycleStatus(h) ==
    CASE lcFile = Torn -> "state unreadable"
      [] lcFile # Torn /\ ~managedHarnessInstalledForLaunch(h) /\ lcFile.rec[h] # "none"
           -> "recorded, binary missing"
      [] lcFile # Torn /\ ~managedHarnessInstalledForLaunch(h) /\ lcFile.rec[h] = "none"
           -> "not installed"
      [] lcFile # Torn /\ managedHarnessInstalledForLaunch(h) /\ lcFile.rec[h] = "none"
           -> "installed, unrecorded"
      [] OTHER -> "ok"

-----------------------------------------------------------------------------
(* Install and update *)

runManagedHarnessUpdate(p, h) == LcBegin(p, "update", h, "install", NoPlan)

(* A launch plans an update when the harness is not there, the user        *)
(* approves the plan, and Apply looks again before it updates.             *)
PlanLaunchUpdate(p, h) == /\ ~managedHarnessInstalledForLaunch(h)
                          /\ LcBegin(p, "update", h, "apply", NoPlan)

ApplyLaunchUpdate(p) ==
    /\ lcCommand[p].at = "apply"
    /\ IF managedHarnessInstalledForLaunch(lcCommand[p].h) THEN LcReturn(p) ELSE Goto(p, "install")
    /\ UNCHANGED <<lcFile, lcArtifact, lcHistory, lcClean, lcCount>>

(* The installer always runs, installed or not: the script checks the      *)
(* digest of what it downloads and replaces what stands at the path.       *)
RunInstallOrUpdateStep(p) ==
    /\ lcCommand[p].at = "install"
    /\ lcCommand[p].h \notin ManualHarness
    /\ lcArtifact' = [lcArtifact EXCEPT ![lcCommand[p].h] = "managed"]
    /\ Goto(p, "directories")
    /\ UNCHANGED <<lcFile, lcHistory, lcClean, lcCount>>

(* No network, no release, no digest: nothing has been touched.            *)
ResolveFails(p) ==
    /\ lcCommand[p].at = "install"
    /\ LcReturn(p)
    /\ UNCHANGED <<lcFile, lcArtifact, lcHistory, lcClean, lcCount>>

(* The script fails half way and leaves a partial tree, or nothing.        *)
InstallFails(p) ==
    /\ lcCommand[p].at = "install"
    /\ lcCommand[p].h \notin ManualHarness
    /\ \E a \in {"absent", "drifted"} : lcArtifact' = [lcArtifact EXCEPT ![lcCommand[p].h] = a]
    /\ LcReturn(p)
    /\ UNCHANGED <<lcFile, lcHistory, lcClean, lcCount>>

(* Hermes, Pi and Cursor Agent are only looked for.                        *)
VerifyManualBinary(p) ==
    /\ lcCommand[p].at = "install"
    /\ lcCommand[p].h \in ManualHarness
    /\ IF ProbeInstalled(lcCommand[p].h) THEN Goto(p, "directories") ELSE LcReturn(p)
    /\ UNCHANGED <<lcFile, lcArtifact, lcHistory, lcClean, lcCount>>

(* The path shim, the configuration and the state directories come last;   *)
(* when one fails the harness is installed and not recorded.               *)
PrepareDirectories(p) ==
    /\ lcCommand[p].at = "directories"
    /\ Goto(p, "load") \/ LcReturn(p)
    /\ UNCHANGED <<lcFile, lcArtifact, lcHistory, lcClean, lcCount>>

(* hazmat config import: the files are copied before the time is recorded. *)
RunImport(p, h) == LcBegin(p, "import", h, "load", NoPlan)

-----------------------------------------------------------------------------
(* state.json *)

Writing(p) == lcCommand[p].at \in {"truncate", "fill"}

(* A snapshot is taken while another process is about to write its own.    *)
Overlaps(p) == \E q \in LcProcess \ {p} : Writing(q)

RecordInstalled(r) == IF r = "none" THEN "installed" ELSE r

RecordImportRun(r) == "imported"

Mutate(op, r) ==
    CASE op = "update" -> RecordInstalled(r)
      [] op = "import" -> RecordImportRun(r)
      [] op = "uninstall" -> "none"
      [] op = "init" -> r

(* Update and import read the file and set their harness's entry.  A file  *)
(* that cannot be parsed is a warning: the command is done all the same.   *)
UpdateHarnessState(p) ==
    LET c == lcCommand[p] IN
    /\ c.at = "load" /\ c.op \in {"update", "import"}
    /\ IF lcFile = Torn
       THEN LcReturn(p) /\ UNCHANGED lcClean
       ELSE /\ lcCommand' = [lcCommand EXCEPT ![p].at = "truncate",
                 ![p].snapshot = [lcFile EXCEPT !.rec[c.h] = Mutate(c.op, @)]]
            /\ lcClean' = (lcClean /\ ~Overlaps(p))
    /\ UNCHANGED <<lcFile, lcArtifact, lcHistory, lcCount>>

(* Slip: the file is removed whenever init left no version.                *)
EmptiedWithoutInit(s) == ~s.init

(* The entry is deleted; the file goes with the last entry unless init     *)
(* wrote a version.                                                        *)
Emptied(s) == ~s.init /\ \A h \in LcHarness : s.rec[h] = "none"

RemoveHarnessState(p) ==
    LET c == lcCommand[p]
        s == [lcFile EXCEPT !.rec[c.h] = "none"]
    IN
    /\ c.at = "load" /\ c.op = "uninstall"
    /\ IF lcFile = Torn \/ lcFile.rec[c.h] = "none"
       THEN LcReturn(p) /\ UNCHANGED <<lcFile, lcHistory, lcClean>>
       ELSE /\ lcClean' = (lcClean /\ ~Overlaps(p))
            /\ IF Emptied(s)
               THEN /\ lcFile' = EmptySnapshot
                    /\ lcHistory' = [lcHistory EXCEPT ![c.h] = "none"]
                    /\ LcReturn(p)
               ELSE /\ lcCommand' = [lcCommand EXCEPT ![p].at = "truncate", ![p].snapshot = s]
                    /\ UNCHANGED <<lcFile, lcHistory>>
    /\ UNCHANGED <<lcArtifact, lcCount>>

(* Slip: the version is saved without the harness records.                 *)
FreshSnapshot == [EmptySnapshot EXCEPT !.init = TRUE]

(* Init takes an unreadable file for an empty one.                         *)
VersionSnapshot ==
    [(IF lcFile = Torn THEN EmptySnapshot ELSE lcFile) EXCEPT !.init = TRUE]

RunSaveVersion(p, h) == LcBegin(p, "init", h, "load", NoPlan)

LcSaveVersion(p) ==
    /\ lcCommand[p].at = "load" /\ lcCommand[p].op = "init"
    /\ lcCommand' = [lcCommand EXCEPT ![p].at = "truncate", ![p].snapshot = VersionSnapshot]
    /\ lcClean' = (lcClean /\ ~Overlaps(p) /\ lcFile # Torn)
    /\ UNCHANGED <<lcFile, lcArtifact, lcHistory, lcCount>>

(* os.WriteFile, part one: the file is empty and does not parse.           *)
LcTruncate(p) ==
    /\ lcCommand[p].at = "truncate"
    /\ lcFile' = Torn
    /\ Goto(p, "fill")
    /\ UNCHANGED <<lcArtifact, lcHistory, lcClean, lcCount>>

(* Part two, at the writer's own offset: a text that another has written   *)
(* in between may be longer and keep its end, and then it does not parse.  *)
(* A file that was removed in between stays away.                          *)
Fill(p) ==
    LET c == lcCommand[p] IN
    /\ c.at = "fill"
    /\ lcFile' \in CASE lcFile = Torn -> {c.snapshot}
                     [] lcFile = EmptySnapshot -> {EmptySnapshot}
                     [] OTHER -> {c.snapshot, Torn}
    /\ lcHistory' = [lcHistory EXCEPT ![c.h] = Mutate(c.op, @)]
    /\ LcReturn(p)
    /\ UNCHANGED <<lcArtifact, lcClean, lcCount>>

-----------------------------------------------------------------------------
(* Uninstall *)

(* The plan refuses an unreadable state file, ends where there is nothing  *)
(* to remove, and refuses drift unless forced.  The user is asked next.    *)
PlanUninstall(p, h) ==
    /\ lcFile # Torn
    /\ LET plan == [exists |-> InspectArtifact(h).exists, recorded |-> lcFile.rec[h] # "none"] IN
         /\ plan.exists \/ plan.recorded
         /\ \E force \in BOOLEAN : InspectArtifact(h).drift => force
         /\ LcBegin(p, "uninstall", h, "remove", plan)

(* Whatever stands at the planned paths by then is removed.                *)
ExecuteUninstallPlan(p) ==
    LET c == lcCommand[p] IN
    /\ c.at = "remove"
    /\ lcArtifact' = IF c.plan.exists THEN [lcArtifact EXCEPT ![c.h] = "absent"] ELSE lcArtifact
    /\ IF c.plan.recorded THEN Goto(p, "load") ELSE LcReturn(p)
    /\ UNCHANGED <<lcFile, lcHistory, lcClean, lcCount>>

(* A declined question, or a removal that failed: the record stays.        *)
UninstallStops(p) ==
    /\ lcCommand[p].at = "remove"
    /\ LcReturn(p)
    /\ UNCHANGED <<lcFile, lcArtifact, lcHistory, lcClean, lcCount>>

-----------------------------------------------------------------------------

(* Rollback removes state.json unless it cannot be read, and the agent's   *)
(* home with its code when the account is deleted.                         *)
RollbackState ==
    /\ \A p \in LcProcess : lcCommand[p] = LcIdle
    /\ lcCount < MaxLcCommands
    /\ lcCount' = lcCount + 1
    /\ lcFile' = IF lcFile = Torn THEN Torn ELSE EmptySnapshot
    /\ lcHistory' = [h \in LcHarness |-> "none"]
    /\ lcArtifact' \in {lcArtifact, [h \in LcHarness |-> "absent"]}
    /\ UNCHANGED <<lcCommand, lcClean>>

(* The agent owns the directories: it may replace or delete the code; the  *)
(* user installs what Hazmat does not.                                     *)
AgentChanges(h) ==
    /\ \/ /\ lcArtifact[h] = "managed"
          /\ lcArtifact' \in {[lcArtifact EXCEPT ![h] = a] : a \in {"absent", "drifted"}}
       \/ /\ h \in ManualHarness /\ lcArtifact[h] = "absent"
          /\ lcArtifact' = [lcArtifact EXCEPT ![h] = "managed"]
    /\ UNCHANGED <<lcFile, lcCommand, lcHistory, lcClean, lcCount>>

(* A command dies; between the two parts of the write the file stays torn. *)
LcCrash(p) ==
    /\ lcCommand[p] # LcIdle
    /\ LcReturn(p)
    /\ lcClean' = (lcClean /\ lcCommand[p].at # "fill")
    /\ UNCHANGED <<lcFile, lcArtifact, lcHistory, lcCount>>

LcNext ==
    \/ \E p \in LcProcess, h \in LcHarness :
         \/ runManagedHarnessUpdate(p, h)
         \/ PlanLaunchUpdate(p, h)
         \/ RunImport(p, h)
         \/ RunSaveVersion(p, h)
         \/ PlanUninstall(p, h)
    \/ \E p \in LcProcess :
         \/ ApplyLaunchUpdate(p)
         \/ RunInstallOrUpdateStep(p)
         \/ ResolveFails(p)
         \/ InstallFails(p)
         \/ VerifyManualBinary(p)
         \/ PrepareDirectories(p)
         \/ UpdateHarnessState(p)
         \/ RemoveHarnessState(p)
         \/ LcSaveVersion(p)
         \/ LcTruncate(p)
         \/ Fill(p)
         \/ ExecuteUninstallPlan(p)
         \/ UninstallStops(p)
         \/ LcCrash(p)
    \/ RollbackState
    \/ \E h \in LcHarness : AgentChanges(h)

LcSpec == LcInit /\ [][LcNext]_lcVars

-----------------------------------------------------------------------------

(* state.json says what the completed commands did: installing, importing  *)
(* or uninstalling one harness, and init's rewriting of the version, leave *)
(* the records of the others alone, and the status command reports exactly *)
(* the recorded harnesses whose binary is gone.  It holds as long as no    *)
(* two commands overlapped between their read and their write and none     *)
(* died while the file was truncated: nothing in the code rules either out.*)
RecordsMatchHistory ==
    (lcClean /\ \A p \in LcProcess : lcCommand[p].at # "fill")
       => /\ lcFile # Torn
          /\ lcFile.rec = lcHistory
          /\ \A h \in LcHarness :
               (classifyHarnessLifecycleStatus(h) = "recorded, binary missing")
                  <=> (lcHistory[h] # "none" /\ ~managedHarnessInstalledForLaunch(h))
=============================================================================
