------------------------------- MODULE Backup -------------------------------
(***************************************************************************)
(* Snapshots of a project and their restoration: the local repository and  *)
(* its retention policy, the snapshot taken before a session, the cloud    *)
(* repository, "hazmat backup --cloud" and "hazmat restore". The project   *)
(* holds files that snapshots include and files that they leave out (the   *)
(* exclude rules). The library that stores snapshots is external: it saves *)
(* what it is given and returns it.                                        *)
(***************************************************************************)
EXTENDS Naturals, Sequences

CONSTANTS
    MaxWork,       \* versions of the project's files ever written
    MaxSnapshots   \* snapshots per repository

BackupAssumption == MaxWork \in Nat \ {0} /\ MaxSnapshots \in Nat
ASSUME BackupAssumption

VARIABLES
    bkTree,     \* the project: versions of the included and of the excluded files, 0: none
    bkWork,     \* versions written so far
    bkRepo,     \* the local repository: "absent", "made", "connected" or "policy"
    bkKeep,     \* the retention of the repository's policy: "none", "default" or "config"
    bkLocal,    \* local snapshots, oldest first: versions of the included files
    bkCloud,    \* cloud snapshots
    bkRemote,   \* the cloud repository: "unset", "set" (credentials), "connected"
    bkSession,  \* a session: "none", "starting", "running"
    bkStep,     \* where the restore is
    bkFrom,     \* the repository it restores from
    bkTarget,   \* the version it restores
    bkBefore,   \* the project when it took its snapshot
    bkSafe      \* the snapshot was taken

bkVars == <<bkTree, bkWork, bkRepo, bkKeep, bkLocal, bkCloud, bkRemote, bkSession,
            bkStep, bkFrom, bkTarget, bkBefore, bkSafe>>
bkRestore == <<bkStep, bkFrom, bkTarget, bkBefore, bkSafe>>
bkStores == <<bkRepo, bkKeep, bkLocal, bkCloud, bkRemote>>

NoTree == [src |-> 0, left |-> 0]

BkInit ==
    /\ bkTree = [src |-> 1, left |-> 1] /\ bkWork = 1
    /\ bkRepo = "absent" /\ bkKeep = "none" /\ bkLocal = <<>> /\ bkCloud = <<>>
    /\ bkRemote = "unset" /\ bkSession = "none"
    /\ bkStep = "idle" /\ bkFrom = "local" /\ bkTarget = 0 /\ bkBefore = NoTree /\ bkSafe = FALSE

----------------------------------------------------------------------------
(* The repositories.                                                       *)

\* initLocalRepo: storage, connection and policy, each of which may fail. The
\* configuration file is there from the connection on, and says "initialised".
MakeRepo ==
    /\ bkRepo = "absent" /\ bkRepo' = "made"
    /\ UNCHANGED <<bkTree, bkWork, bkKeep, bkLocal, bkCloud, bkRemote, bkSession, bkRestore>>

SetRetentionPolicy == bkKeep' = "default"

ConnectRepo ==
    /\ bkRepo = "made"
    /\ \/ bkRepo' = "connected" /\ UNCHANGED bkKeep
       \/ bkRepo' = "policy" /\ SetRetentionPolicy
    /\ UNCHANGED <<bkTree, bkWork, bkLocal, bkCloud, bkRemote, bkSession, bkRestore>>

\* updateRetentionFromConfig, after "config set backup.retention".
UpdateRetention ==
    /\ bkRepo \in {"connected", "policy"} /\ bkKeep # "config"
    /\ bkKeep' = "config" /\ bkRepo' = "policy"
    /\ UNCHANGED <<bkTree, bkWork, bkLocal, bkCloud, bkRemote, bkSession, bkRestore>>

\* "config cloud", and openCloudRepo's first connection; a failed Initialize
\* is only noted, because the bucket may already hold the repository.
ConfigureCloud ==
    /\ \/ bkRemote = "unset" /\ bkRemote' = "set"
       \/ bkRemote = "set" /\ bkRemote' = "connected"
    /\ UNCHANGED <<bkTree, bkWork, bkRepo, bkKeep, bkLocal, bkCloud, bkSession, bkRestore>>

\* openLocalRepo: usable once the configuration file exists.
LocalOpens == bkRepo \in {"connected", "policy"}

\* snapshotDir: uploaded, saved and flushed, or not there at all.
Saved(snapshots) == Append(snapshots, bkTree.src)

----------------------------------------------------------------------------
(* Sessions and backups.                                                   *)

\* PreSessionSnapshot: a failure, or --no-backup, does not stop the session.
StartSession ==
    /\ bkSession = "none"
    /\ \/ /\ LocalOpens /\ Len(bkLocal) < MaxSnapshots
          /\ bkLocal' = Saved(bkLocal)
       \/ UNCHANGED bkLocal
    /\ bkSession' = "running"
    /\ UNCHANGED <<bkTree, bkWork, bkRepo, bkKeep, bkCloud, bkRemote, bkRestore>>

\* The agent, or the user, changes files of either kind.
Work ==
    /\ bkWork < MaxWork /\ bkWork' = bkWork + 1
    /\ \E kind \in {"src", "left"} : bkTree' = [bkTree EXCEPT ![kind] = bkWork + 1]
    /\ UNCHANGED <<bkStores, bkSession, bkRestore>>

EndSession ==
    /\ bkSession = "running" /\ bkSession' = "none"
    /\ UNCHANGED <<bkTree, bkWork, bkStores, bkRestore>>

\* runCloudBackup.
CloudBackup ==
    /\ bkRemote = "connected" /\ Len(bkCloud) < MaxSnapshots
    /\ bkCloud' = Saved(bkCloud)
    /\ UNCHANGED <<bkTree, bkWork, bkRepo, bkKeep, bkLocal, bkRemote, bkSession, bkRestore>>

----------------------------------------------------------------------------
(* Restore.                                                                *)

\* runProjectRestore --session=N counts from the newest.
LocalTarget ==
    /\ bkStep = "idle" /\ LocalOpens
    /\ \E n \in 1..Len(bkLocal) : bkTarget' = bkLocal[Len(bkLocal) + 1 - n]
    /\ bkFrom' = "local" /\ bkStep' = "snapshot"
    /\ UNCHANGED <<bkTree, bkWork, bkStores, bkSession, bkBefore, bkSafe>>

\* runCloudRestore takes the latest cloud snapshot of the project and does not
\* ask.
CloudTarget ==
    /\ bkStep = "idle" /\ bkRemote = "connected" /\ bkCloud # <<>>
    /\ bkTarget' = bkCloud[Len(bkCloud)]
    /\ bkFrom' = "cloud" /\ bkStep' = "snapshot"
    /\ UNCHANGED <<bkTree, bkWork, bkStores, bkSession, bkBefore, bkSafe>>

\* Slip: a cloud restore goes straight on.
NoPreRestoreForCloud ==
    /\ bkStep = "snapshot"
    /\ \/ /\ bkFrom = "local" /\ LocalOpens /\ Len(bkLocal) < MaxSnapshots
          /\ bkLocal' = Saved(bkLocal) /\ bkSafe' = TRUE
       \/ bkFrom = "cloud" /\ bkSafe' = TRUE /\ UNCHANGED bkLocal
    /\ bkBefore' = bkTree /\ bkStep' = "clear"
    /\ UNCHANGED <<bkTree, bkWork, bkRepo, bkKeep, bkCloud, bkRemote, bkSession, bkFrom, bkTarget>>

\* The snapshot of the present state; a failure is a warning.
PreRestoreSnapshot ==
    /\ bkStep = "snapshot"
    /\ \/ /\ LocalOpens /\ Len(bkLocal) < MaxSnapshots
          /\ bkLocal' = Saved(bkLocal) /\ bkSafe' = TRUE
       \/ bkSafe' = FALSE /\ UNCHANGED bkLocal
    /\ bkBefore' = bkTree /\ bkStep' = "clear"
    /\ UNCHANGED <<bkTree, bkWork, bkRepo, bkKeep, bkCloud, bkRemote, bkSession, bkFrom, bkTarget>>

\* restoreSnapshotTo removes what the project holds, excluded files included.
ClearProject ==
    /\ bkStep = "clear"
    /\ bkTree' = NoTree /\ bkStep' = "restore"
    /\ UNCHANGED <<bkWork, bkStores, bkSession, bkFrom, bkTarget, bkBefore, bkSafe>>

\* And writes the snapshot's files.
RestoreFiles ==
    /\ bkStep = "restore"
    /\ bkTree' = [bkTree EXCEPT !.src = bkTarget] /\ bkStep' = "done"
    /\ UNCHANGED <<bkWork, bkStores, bkSession, bkFrom, bkTarget, bkBefore, bkSafe>>

\* An error of the restore, or the end of the process: nothing is put back.
RestoreFails ==
    /\ bkStep \in {"snapshot", "clear", "restore"}
    /\ bkStep' = "failed"
    /\ UNCHANGED <<bkTree, bkWork, bkStores, bkSession, bkFrom, bkTarget, bkBefore, bkSafe>>

RestoreEnds ==
    /\ bkStep \in {"done", "failed"}
    /\ bkStep' = "idle" /\ bkTarget' = 0 /\ bkBefore' = NoTree /\ bkSafe' = FALSE /\ bkFrom' = "local"
    /\ UNCHANGED <<bkTree, bkWork, bkStores, bkSession>>

BkNext ==
    \/ MakeRepo \/ ConnectRepo \/ UpdateRetention \/ ConfigureCloud
    \/ StartSession \/ Work \/ EndSession \/ CloudBackup
    \/ LocalTarget \/ CloudTarget \/ PreRestoreSnapshot \/ ClearProject
    \/ RestoreFiles \/ RestoreFails \/ RestoreEnds

BkSpec == BkInit /\ [][BkNext]_bkVars

----------------------------------------------------------------------------
InRange(v, snapshots) == \E i \in 1..Len(snapshots) : snapshots[i] = v

\* The state has its types.
BkTypeOK ==
    /\ bkTree \in [src : 0..MaxWork, left : 0..MaxWork] /\ bkWork \in 1..MaxWork
    /\ bkRepo \in {"absent", "made", "connected", "policy"}
    /\ bkKeep \in {"none", "default", "config"}
    /\ Len(bkLocal) <= MaxSnapshots /\ Len(bkCloud) <= MaxSnapshots
    /\ bkStep \in {"idle", "snapshot", "clear", "restore", "done", "failed"}
    /\ bkFrom \in {"local", "cloud"} /\ bkTarget \in 0..MaxWork /\ bkSafe \in BOOLEAN

\* From the moment a restore, local or cloud, may remove the project's files
\* until it is over, failed or not, the included files it found are in a local
\* snapshot, unless the user was warned that they are not.
ClearedWorkIsInSnapshot ==
    bkStep \in {"clear", "restore", "done", "failed"} /\ bkSafe => InRange(bkBefore.src, bkLocal)

\* What the help of "hazmat restore" says: "Current state is snapshotted first
\* ("pre-restore") so the restore is reversible."
RestoreIsReversible ==
    bkStep = "done" /\ bkSafe => bkTree.left \in {bkBefore.left, bkWork}
=============================================================================
