----------------------------- MODULE SessionHome -----------------------------
(***************************************************************************)
(* Session-local homes: the launch plan and what blocks it, the home that  *)
(* is laid out, bridged and seeded from the persistent agent home, the     *)
(* write-back of the paths a session may change, checked against the       *)
(* fingerprints taken when they were copied in, and the cleanup of homes   *)
(* left behind. Sessions overlap, and the agent home has other writers.    *)
(***************************************************************************)
EXTENDS Naturals, FiniteSets

CONSTANTS
    HomeSession, \* sessions
    MaxEdits     \* changes by sessions and by others

ASSUME SessionHomeAssumption == MaxEdits \in Nat

\* A path of the agent home, by the policy the manifest gives it. Its content
\* is a version; 0 is absent.
HomeEntry == {"seed", "bridge", "adapter", "checked"}
Version == 0..(MaxEdits + 1)

VARIABLES
    persistent, \* persistent[e]: what the agent home holds
    adapter,    \* the adapter-required path has an implemented adapter
    homeStep,   \* homeStep[s]: where session s is
    homeDir,    \* homeDir[s]: its directory is there, with its marker
    runtime,    \* runtime[s]: the session's copy of the checked path
    source,     \* source[s]: the fingerprint taken at the copy
    temp,       \* temp[s]: the copy beside the persistent path
    backup,     \* backup[s]: the old persistent path, renamed aside
    recovery,   \* recovery[s]: the copy kept after a conflict
    outcome,    \* outcome[s]: what the write-back reported
    edits,      \* versions made so far
    raced,      \* versions that appeared while another session was replacing
    destroyed   \* versions of the checked path that nobody holds any more

homeVars == <<persistent, adapter, homeStep, homeDir, runtime, source, temp,
              backup, recovery, outcome, edits, raced, destroyed>>
wbVars == <<source, temp, backup, recovery, outcome>>

HomeInit ==
    /\ persistent \in [HomeEntry -> {0, 1}] /\ adapter \in BOOLEAN
    /\ persistent["seed"] = 1 /\ persistent["bridge"] = 0
    /\ homeStep = [s \in HomeSession |-> "plan"]
    /\ homeDir = [s \in HomeSession |-> FALSE]
    /\ runtime = [s \in HomeSession |-> 0] /\ source = [s \in HomeSession |-> 0]
    /\ temp = [s \in HomeSession |-> 0] /\ backup = [s \in HomeSession |-> 0]
    /\ recovery = [s \in HomeSession |-> 0]
    /\ outcome = [s \in HomeSession |-> "none"]
    /\ edits = 1 /\ raced = {} /\ destroyed = {}

HomeGo(s, here, there) ==
    homeStep[s] = here /\ homeStep' = [homeStep EXCEPT ![s] = there]

\* The sessions that have compared and are about to replace the path.
Replacing == {s \in HomeSession : homeStep[s] \in {"temp", "aside", "swap"}}

----------------------------------------------------------------------------
(* Planning and materialising.                                             *)

\* sessionHomeAdapterDecision: the copy of executable tooling is implemented,
\* other adapters are manual or unsupported.
AdapterImplemented == adapter

\* sessionHomeActivationBlockers: a path that needs an adapter and is there.
Blockers == persistent["adapter"] # 0 /\ ~AdapterImplemented

\* newSessionHomeLaunchPlan: a plan with blockers does not launch.
PlanHome(s) ==
    /\ HomeGo(s, "plan", IF Blockers THEN "blocked" ELSE "layout")
    /\ UNCHANGED <<persistent, adapter, homeDir, runtime, wbVars, edits, raced,
                   destroyed>>

\* createSessionHomeLayout: the directory, then its marker.
CreateLayout(s) ==
    /\ HomeGo(s, "layout", "bridge")
    /\ homeDir' = [homeDir EXCEPT ![s] = TRUE]
    /\ UNCHANGED <<persistent, adapter, runtime, wbVars, edits, raced, destroyed>>

\* materializeSessionHomeBridges: a durable root is made and linked to.
Bridge(s) ==
    /\ HomeGo(s, "bridge", "seed") /\ homeDir[s]
    /\ persistent' = [persistent EXCEPT !["bridge"] = 1]
    /\ UNCHANGED <<adapter, homeDir, runtime, wbVars, edits, raced, destroyed>>

\* A seed is copied once, to a path that is not there yet.
Seed(s) ==
    /\ HomeGo(s, "seed", "fingerprint") /\ homeDir[s]
    /\ UNCHANGED <<persistent, adapter, homeDir, runtime, wbVars, edits, raced,
                   destroyed>>

\* materializeSessionHomeCheckedWritebackEntries takes the fingerprint ...
Fingerprint(s) ==
    /\ HomeGo(s, "fingerprint", IF persistent["checked"] = 0 THEN "run" ELSE "copy")
    /\ homeDir[s]
    /\ source' = [source EXCEPT ![s] = persistent["checked"]]
    /\ outcome' = [outcome EXCEPT ![s] = IF persistent["checked"] = 0
                                         THEN "source-missing" ELSE "copied-in"]
    /\ UNCHANGED <<persistent, adapter, homeDir, runtime, temp, backup, recovery,
                   edits, raced, destroyed>>

\* ... and then copies the path, which may have changed by then.
CopyIn(s) ==
    /\ HomeGo(s, "copy", IF persistent["checked"] = 0 THEN "failed" ELSE "run")
    /\ homeDir[s]
    /\ runtime' = [runtime EXCEPT ![s] = persistent["checked"]]
    /\ UNCHANGED <<persistent, adapter, homeDir, wbVars, edits, raced, destroyed>>

----------------------------------------------------------------------------
(* The session runs, and others write to the agent home.                   *)

EditInSession(s) ==
    /\ homeStep[s] = "run" /\ homeDir[s] /\ edits < MaxEdits
    /\ edits' = edits + 1 /\ runtime' = [runtime EXCEPT ![s] = edits']
    /\ UNCHANGED <<persistent, adapter, homeStep, homeDir, wbVars, raced,
                   destroyed>>

DeleteInSession(s) ==
    /\ homeStep[s] = "run" /\ homeDir[s] /\ runtime[s] # 0
    /\ runtime' = [runtime EXCEPT ![s] = 0]
    /\ UNCHANGED <<persistent, adapter, homeStep, homeDir, wbVars, edits, raced,
                   destroyed>>

\* Another writer replaces the path (a session without a home of its own).
EditByOther ==
    /\ edits < MaxEdits /\ edits' = edits + 1
    /\ persistent' = [persistent EXCEPT !["checked"] = edits']
    /\ raced' = IF Replacing = {} THEN raced ELSE raced \union {edits'}
    /\ UNCHANGED <<adapter, homeStep, homeDir, runtime, wbVars, destroyed>>

EndRun(s) ==
    /\ HomeGo(s, "run", "compare")
    /\ UNCHANGED <<persistent, adapter, homeDir, runtime, wbVars, edits, raced,
                   destroyed>>

----------------------------------------------------------------------------
(* writeBackSessionHomeCheckedWritebackReceipts.                           *)

\* Slip: only the session's own change is looked at.
CompareRuntimeOnly(s) ==
    /\ \/ /\ runtime[s] = source[s] /\ HomeGo(s, "compare", "done")
          /\ outcome' = [outcome EXCEPT ![s] = "unchanged"]
       \/ /\ runtime[s] # source[s] /\ runtime[s] # 0 /\ HomeGo(s, "compare", "temp")
          /\ UNCHANGED outcome
    /\ UNCHANGED <<persistent, adapter, homeDir, runtime, source, temp, backup,
                   recovery, edits, raced, destroyed>>

\* Both sides are fingerprinted; a path changed on both is a conflict, and
\* the session's copy is kept under the session directory.
Compare(s) ==
    /\ \/ /\ runtime[s] = source[s] /\ HomeGo(s, "compare", "done")
          /\ outcome' = [outcome EXCEPT ![s] = "unchanged"] /\ UNCHANGED recovery
       \/ /\ runtime[s] # source[s] /\ persistent["checked"] # source[s]
          /\ HomeGo(s, "compare", "done")
          /\ outcome' = [outcome EXCEPT ![s] = "conflict"]
          /\ recovery' = [recovery EXCEPT ![s] = runtime[s]]
       \/ /\ runtime[s] # source[s] /\ persistent["checked"] = source[s]
          /\ runtime[s] = 0 /\ HomeGo(s, "compare", "done")
          /\ outcome' = [outcome EXCEPT ![s] = "runtime-missing"]
          /\ UNCHANGED recovery
       \/ /\ runtime[s] # source[s] /\ persistent["checked"] = source[s]
          /\ runtime[s] # 0 /\ HomeGo(s, "compare", "temp")
          /\ UNCHANGED <<outcome, recovery>>
    /\ UNCHANGED <<persistent, adapter, homeDir, runtime, source, temp, backup,
                   edits, raced, destroyed>>

\* copySessionHomePathToPersistentTemp.
CopyOut(s) ==
    /\ HomeGo(s, "temp", IF runtime[s] = 0 THEN "failed" ELSE "aside")
    /\ temp' = [temp EXCEPT ![s] = runtime[s]]
    /\ UNCHANGED <<persistent, adapter, homeDir, runtime, source, backup,
                   recovery, outcome, edits, raced, destroyed>>

\* Slip: the old path is removed instead of renamed.
RemoveOld(s) ==
    /\ HomeGo(s, "aside", "swap")
    /\ persistent' = [persistent EXCEPT !["checked"] = 0]
    /\ UNCHANGED <<adapter, homeDir, runtime, wbVars, edits, raced, destroyed>>

\* replaceSessionHomePersistentPath: the old path, if any, is renamed aside,
MoveAside(s) ==
    /\ HomeGo(s, "aside", "swap")
    /\ backup' = [backup EXCEPT ![s] = persistent["checked"]]
    /\ persistent' = [persistent EXCEPT !["checked"] = 0]
    /\ UNCHANGED <<adapter, homeDir, runtime, source, temp, recovery, outcome,
                   edits, raced, destroyed>>

\* the new one renamed into its place (over what appeared there meanwhile),
SwapIn(s) ==
    /\ HomeGo(s, "swap", "drop")
    /\ persistent' = [persistent EXCEPT !["checked"] = temp[s]]
    /\ temp' = [temp EXCEPT ![s] = 0]
    /\ destroyed' = destroyed \union ({persistent["checked"]} \ {0})
    /\ raced' = IF Replacing = {s} THEN raced ELSE raced \union {temp[s]}
    /\ UNCHANGED <<adapter, homeDir, runtime, source, backup, recovery, outcome, edits>>

\* or, when that fails, the old one renamed back.
SwapFails(s) ==
    /\ HomeGo(s, "swap", "failed")
    /\ persistent' = [persistent EXCEPT !["checked"] =
           IF backup[s] # 0 THEN backup[s] ELSE @]
    /\ destroyed' = IF backup[s] # 0 THEN destroyed \union ({persistent["checked"]} \ {0})
                    ELSE destroyed
    /\ raced' = IF Replacing = {s} THEN raced ELSE raced \union {backup[s]}
    /\ temp' = [temp EXCEPT ![s] = 0] /\ backup' = [backup EXCEPT ![s] = 0]
    /\ UNCHANGED <<adapter, homeDir, runtime, source, recovery, outcome, edits>>

\* The old path is removed last.
DropBackup(s) ==
    /\ HomeGo(s, "drop", "done")
    /\ backup' = [backup EXCEPT ![s] = 0]
    /\ outcome' = [outcome EXCEPT ![s] = "written"]
    /\ destroyed' = destroyed \union ({backup[s]} \ {0, source[s]})
    /\ UNCHANGED <<persistent, adapter, homeDir, runtime, source, temp, recovery,
                   edits, raced>>

KillHome(s) ==
    /\ homeStep[s] \notin {"plan", "blocked", "done", "failed"}
    /\ homeStep' = [homeStep EXCEPT ![s] = "failed"]
    /\ UNCHANGED <<persistent, adapter, homeDir, runtime, wbVars, edits, raced,
                   destroyed>>

\* cleanupStaleSessionHomes: a directory whose marker is old goes, with the
\* copies in it, although its session may still run; what it links to stays.
\* A session that is being prepared has a marker that is not old.
CleanupHome(s) ==
    /\ homeDir[s] /\ homeStep[s] \notin {"bridge", "seed", "fingerprint", "copy"}
    /\ homeDir' = [homeDir EXCEPT ![s] = FALSE]
    /\ runtime' = [runtime EXCEPT ![s] = 0] /\ recovery' = [recovery EXCEPT ![s] = 0]
    /\ UNCHANGED <<persistent, adapter, homeStep, source, temp, backup, outcome,
                   edits, raced, destroyed>>

HomeNext ==
    \/ EditByOther
    \/ \E s \in HomeSession :
         \/ PlanHome(s) \/ CreateLayout(s) \/ Bridge(s) \/ Seed(s) \/ Fingerprint(s)
         \/ CopyIn(s) \/ EditInSession(s) \/ DeleteInSession(s) \/ EndRun(s)
         \/ Compare(s) \/ CopyOut(s) \/ MoveAside(s) \/ SwapIn(s) \/ SwapFails(s)
         \/ DropBackup(s) \/ KillHome(s) \/ CleanupHome(s)

HomeSpec == HomeInit /\ [][HomeNext]_homeVars

----------------------------------------------------------------------------
(* Properties.                                                             *)

\* The type of the state.
HomeTypeOK ==
    /\ persistent \in [HomeEntry -> Version] /\ adapter \in BOOLEAN
    /\ homeStep \in [HomeSession -> {"plan", "blocked", "layout", "bridge", "seed",
          "fingerprint", "copy", "run", "compare", "temp", "aside", "swap", "drop",
          "done", "failed"}]
    /\ homeDir \in [HomeSession -> BOOLEAN]
    /\ \A f \in {runtime, source, temp, backup, recovery} : f \in [HomeSession -> Version]
    /\ raced \subseteq Version /\ destroyed \subseteq Version

\* A write-back destroys nothing but the version its session started from,
\* unless another writer changed the path while it was being replaced: the
\* fingerprints are compared once, and two renames follow.
OnlyRacingVersionsDestroyed ==
    destroyed \subseteq raced

\* Wherever a write-back is killed, a checked path that was there is still
\* there, or beside it under its backup name.
PathRecoverable ==
    [][(persistent["checked"] # 0 /\ persistent'["checked"] = 0) =>
          \E s \in HomeSession : backup'[s] = persistent["checked"]]_homeVars

\* What a write-back owes the agent home (session_home_writeback.go): nothing is
\* destroyed but what it replaces on purpose, and at every instant the path, or
\* its backup, is there.
HomeSurvives == []OnlyRacingVersionsDestroyed /\ PathRecoverable
=============================================================================
