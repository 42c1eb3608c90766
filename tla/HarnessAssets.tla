---------------------------- MODULE HarnessAssets ----------------------------
(***************************************************************************)
(* Prompt assets of a harness (instructions, commands, skills) copied from *)
(* the host user's home into the agent's home. A manifest shared by all    *)
(* harnesses lists the copies hazmat manages; a sync previews what it will *)
(* do, and applies it under one lock. The sources change under it, and a   *)
(* session of the agent may write the copies at any moment.                *)
(***************************************************************************)
EXTENDS Naturals, FiniteSets

CONSTANTS
    HaProcess,      \* hazmat processes
    AssetA, AssetB, \* the assets of two harnesses
    MaxVersion      \* contents ever written

Asset == AssetA \union AssetB
Harness == {AssetA, AssetB}   \* a harness is the set of its assets
Version == 0..MaxVersion      \* 0: there is no such file

AssetsAssumption == MaxVersion \in Nat \ {0}
ASSUME AssetsAssumption

VARIABLES
    haSrc,      \* haSrc[a]: the content of the source of asset a
    haDst,      \* haDst[a]: the content of its copy and who wrote it
    haManifest, \* the assets that the manifest lists
    haLock,     \* the holders of the manifest's lock
    haClock,    \* contents written so far
    haStep,     \* haStep[p]: what process p does next
    haWant,     \* haWant[p]: the harness it syncs
    haDesired,  \* haDesired[p]: the sources as it collected them
    haMan,      \* haMan[p]: its copy of the manifest
    haTodo,     \* haTodo[p]: the assets it has not looked at
    haAsset,    \* haAsset[p]: the asset it is installing
    haTemp,     \* haTemp[p]: the content of its temporary file
    haSeen,     \* haSeen[p]: the copy it judged
    haAside,    \* haAside[p]: the copy it moved out of the way
    haLoose     \* assets that a sync put in place and did not list

haVars == <<haSrc, haDst, haManifest, haLock, haClock, haStep, haWant, haDesired, haMan, haTodo,
            haAsset, haTemp, haSeen, haAside, haLoose>>
haFiles == <<haSrc, haDst, haManifest, haClock, haLoose>>
haItem == <<haAsset, haTemp, haSeen, haAside>>

NoCopy == [v |-> 0, by |-> "none"]

HaInit ==
    /\ haSrc \in [Asset -> {0, 1}] /\ haDst = [a \in Asset |-> NoCopy]
    /\ haManifest = {} /\ haLock = {} /\ haClock = 1 /\ haLoose = {}
    /\ haStep = [p \in HaProcess |-> "idle"] /\ haWant = [p \in HaProcess |-> {}]
    /\ haDesired = [p \in HaProcess |-> [a \in Asset |-> 0]]
    /\ haMan = [p \in HaProcess |-> {}] /\ haTodo = [p \in HaProcess |-> {}]
    /\ haAsset = [p \in HaProcess |-> {}] /\ haTemp = [p \in HaProcess |-> 0]
    /\ haSeen = [p \in HaProcess |-> NoCopy] /\ haAside = [p \in HaProcess |-> NoCopy]

HaGo(p, here, there) == haStep[p] = here /\ haStep' = [haStep EXCEPT ![p] = there]

\* The end of a sync, with its lock; "loose" are installs it did not record.
EndSync(p, loose) ==
    /\ haStep' = [haStep EXCEPT ![p] = "idle"] /\ haWant' = [haWant EXCEPT ![p] = {}]
    /\ haDesired' = [haDesired EXCEPT ![p] = [a \in Asset |-> 0]]
    /\ haMan' = [haMan EXCEPT ![p] = {}] /\ haTodo' = [haTodo EXCEPT ![p] = {}]
    /\ haAsset' = [haAsset EXCEPT ![p] = {}] /\ haTemp' = [haTemp EXCEPT ![p] = 0]
    /\ haSeen' = [haSeen EXCEPT ![p] = NoCopy] /\ haAside' = [haAside EXCEPT ![p] = NoCopy]
    /\ haLock' = haLock \ {p} /\ haLoose' = loose

----------------------------------------------------------------------------
(* The world.                                                              *)

\* The user edits, adds or removes a source.
EditSource(a) ==
    /\ haClock < MaxVersion
    /\ \/ haSrc' = [haSrc EXCEPT ![a] = haClock + 1] /\ haClock' = haClock + 1
       \/ haSrc[a] # 0 /\ haSrc' = [haSrc EXCEPT ![a] = 0] /\ haClock' = haClock + 1
    /\ UNCHANGED <<haDst, haManifest, haLock, haStep, haWant, haDesired, haMan, haTodo, haItem,
                   haLoose>>

\* A session of the agent writes the copy: something of its own, or, by
\* chance, what the source holds.
AgentWrites(a) ==
    /\ haClock < MaxVersion /\ haClock' = haClock + 1
    /\ \E v \in {haClock + 1, haSrc[a]} \ {0} :
         haDst' = [haDst EXCEPT ![a] = [v |-> v, by |-> "agent"]]
    /\ UNCHANGED <<haSrc, haManifest, haLock, haStep, haWant, haDesired, haMan, haTodo, haItem,
                   haLoose>>

----------------------------------------------------------------------------
(* The sync.                                                               *)

\* collectDesiredHarnessAssets: the sources that exist, resolve within their
\* root to a plain file or directory, and can be read.
Desired(want) == [a \in Asset |-> IF a \in want THEN haSrc[a] ELSE 0]

\* diffHarnessAssetState: whether the preview found anything to do.
HasWork(want, desired, managed) ==
    \E a \in want : IF desired[a] = 0 THEN a \in managed
                    ELSE haDst[a].v # desired[a] \/ a \notin managed

Preview(p) ==
    /\ \E want \in Harness :
         /\ HasWork(want, Desired(want), haManifest)
         /\ haWant' = [haWant EXCEPT ![p] = want]
         /\ haDesired' = [haDesired EXCEPT ![p] = Desired(want)]
    /\ HaGo(p, "idle", "lock")
    /\ UNCHANGED <<haFiles, haLock, haMan, haTodo, haItem>>

\* Slip: the lock of one harness does not keep out the sync of the other.
LockPerHarness(p) ==
    /\ \A q \in haLock : haWant[q] # haWant[p]
    /\ haLock' = haLock \union {p}

\* withHarnessAssetLock: one lock for the manifest of all harnesses.
LockManifest(p) ==
    /\ haLock = {} /\ haLock' = {p}

\* harnessAssetPreviewIsFresh looks at the sources that the preview found,
\* not at those that appeared since.
Fresh(p) == \A a \in haWant[p] : haDesired[p][a] # 0 => haSrc[a] = haDesired[p][a]

\* Under the lock the manifest is read, and a stale preview collected again.
Begin(p) ==
    /\ HaGo(p, "lock", "judge") /\ LockManifest(p)
    /\ haDesired' = IF Fresh(p) THEN haDesired
                    ELSE [haDesired EXCEPT ![p] = Desired(haWant[p])]
    /\ haMan' = [haMan EXCEPT ![p] = haManifest]
    /\ haTodo' = [haTodo EXCEPT ![p] = haWant[p]]
    /\ UNCHANGED <<haFiles, haWant, haItem>>

\* Slip: an unmanaged file that differs is replaced like a managed one.
MayInstallOver(p, a) == haDst[a].v # haDesired[p][a]

\* Whether the copy is installed: a managed one that differs or is missing,
\* an unmanaged one only where there is none.
MustInstall(p, a) ==
    IF a \in haMan[p] THEN haDst[a].v # haDesired[p][a] ELSE haDst[a].v = 0

\* One desired asset, in the order of the paths: nothing to do, an install,
\* the adoption of a file that matches, or a conflict that is skipped.
Judge(p, a) ==
    /\ haStep[p] = "judge" /\ a \in haTodo[p] /\ haDesired[p][a] # 0
    /\ haTodo' = [haTodo EXCEPT ![p] = @ \ {a}]
    /\ IF MustInstall(p, a)
       THEN /\ haStep' = [haStep EXCEPT ![p] = "copy"]
            /\ haAsset' = [haAsset EXCEPT ![p] = {a}]
            /\ haSeen' = [haSeen EXCEPT ![p] = haDst[a]]
            /\ UNCHANGED haMan
       ELSE /\ haMan' = IF haDst[a].v = haDesired[p][a]
                        THEN [haMan EXCEPT ![p] = @ \union {a}] ELSE haMan
            /\ UNCHANGED <<haStep, haAsset, haSeen>>
    /\ UNCHANGED <<haFiles, haLock, haWant, haDesired, haTemp, haAside>>

\* installHarnessAssetEntry: the source, as it is now, into a temporary file;
\* a source that is gone is a skipped install.
Copy(p) ==
    /\ \E a \in haAsset[p] :
         \/ /\ haSrc[a] # 0 /\ haTemp' = [haTemp EXCEPT ![p] = haSrc[a]]
            /\ HaGo(p, "copy", "swap") /\ UNCHANGED <<haAsset, haSeen>>
         \/ /\ HaGo(p, "copy", "judge") /\ haAsset' = [haAsset EXCEPT ![p] = {}]
            /\ haSeen' = [haSeen EXCEPT ![p] = NoCopy] /\ UNCHANGED haTemp
    /\ UNCHANGED <<haFiles, haLock, haWant, haDesired, haMan, haTodo, haAside>>

\* replaceHarnessAssetPath: what is there is renamed aside ...
MoveAside(p) ==
    /\ \E a \in haAsset[p] : /\ haDst' = [haDst EXCEPT ![a] = NoCopy]
                             /\ haAside' = [haAside EXCEPT ![p] = haDst[a]]
    /\ HaGo(p, "swap", "place")
    /\ UNCHANGED <<haSrc, haManifest, haClock, haLoose, haLock, haWant, haDesired, haMan, haTodo,
                   haAsset, haTemp, haSeen>>

\* ... the new file renamed into its place, and the old one removed. Where
\* that fails the install counts as skipped, and is not listed. Where the
\* rename fails the old file comes back, unless that fails too.
Place(p) ==
    /\ \E a \in haAsset[p] :
         \/ /\ haDst' = [haDst EXCEPT ![a] = [v |-> haTemp[p], by |-> "hazmat"]]
            /\ haMan' = [haMan EXCEPT ![p] = @ \union {a}] /\ UNCHANGED haLoose
         \/ /\ haAside[p] # NoCopy
            /\ haDst' = [haDst EXCEPT ![a] = [v |-> haTemp[p], by |-> "hazmat"]]
            /\ haLoose' = haLoose \union ({a} \ haMan[p]) /\ UNCHANGED haMan
         \/ /\ haAside[p] # NoCopy
            /\ haDst' = [haDst EXCEPT ![a] = haAside[p]]
            /\ UNCHANGED <<haMan, haLoose>>
         \/ UNCHANGED <<haDst, haMan, haLoose>>
    /\ HaGo(p, "place", "judge") /\ haAsset' = [haAsset EXCEPT ![p] = {}]
    /\ haTemp' = [haTemp EXCEPT ![p] = 0] /\ haSeen' = [haSeen EXCEPT ![p] = NoCopy]
    /\ haAside' = [haAside EXCEPT ![p] = NoCopy]
    /\ UNCHANGED <<haSrc, haManifest, haClock, haLock, haWant, haDesired, haTodo>>

\* Entries of the harness that are no longer desired: the copy is removed,
\* and a removal that fails ends the sync before the manifest is written.
DeleteOne(p, a) ==
    /\ haStep[p] = "judge" /\ a \in haTodo[p] \intersect haMan[p] /\ haDesired[p][a] = 0
    /\ \A b \in haTodo[p] : haDesired[p][b] = 0
    /\ \/ /\ haDst' = [haDst EXCEPT ![a] = NoCopy]
          /\ haMan' = [haMan EXCEPT ![p] = @ \ {a}]
          /\ haTodo' = [haTodo EXCEPT ![p] = @ \ {a}]
          /\ UNCHANGED <<haLock, haStep, haWant, haDesired, haItem, haLoose>>
       \/ EndSync(p, haLoose \union (haMan[p] \ haManifest)) /\ UNCHANGED haDst
    /\ UNCHANGED <<haSrc, haManifest, haClock>>

\* writeHarnessAssetsState: the whole manifest, by a rename.
WriteManifest(p) ==
    /\ haStep[p] = "judge"
    /\ \A a \in haTodo[p] : haDesired[p][a] = 0 /\ a \notin haMan[p]
    /\ haManifest' = haMan[p]
    /\ EndSync(p, haLoose \ haMan[p])
    /\ UNCHANGED <<haSrc, haDst, haClock>>

\* The process dies, and the kernel releases its lock.
HaCrash(p) ==
    /\ haStep[p] # "idle"
    /\ EndSync(p, haLoose \union (haMan[p] \ haManifest))
    /\ UNCHANGED <<haSrc, haDst, haManifest, haClock>>

HaNext ==
    \/ \E a \in Asset : EditSource(a) \/ AgentWrites(a)
    \/ \E p \in HaProcess :
         \/ Preview(p) \/ Begin(p) \/ Copy(p) \/ MoveAside(p) \/ Place(p)
         \/ WriteManifest(p) \/ HaCrash(p)
         \/ \E a \in Asset : Judge(p, a) \/ DeleteOne(p, a)

HaSpec == HaInit /\ [][HaNext]_haVars

----------------------------------------------------------------------------

\* Types of the variables.
HaTypeOK ==
    /\ haSrc \in [Asset -> Version]
    /\ haDst \in [Asset -> [v : Version, by : {"none", "agent", "hazmat"}]]
    /\ haManifest \subseteq Asset /\ haLock \subseteq HaProcess /\ haClock \in Version
    /\ haStep \in [HaProcess -> {"idle", "lock", "judge", "copy", "swap", "place"}]
    /\ haWant \in [HaProcess -> SUBSET Asset] /\ haDesired \in [HaProcess -> [Asset -> Version]]
    /\ haMan \in [HaProcess -> SUBSET Asset] /\ haTodo \in [HaProcess -> SUBSET Asset]
    /\ haAsset \in [HaProcess -> SUBSET Asset] /\ haTemp \in [HaProcess -> Version]
    /\ haSeen \in [HaProcess -> [v : Version, by : {"none", "agent", "hazmat"}]]
    /\ haAside \in [HaProcess -> [v : Version, by : {"none", "agent", "hazmat"}]]
    /\ haLoose \subseteq Asset

\* What the agent wrote is destroyed by a sync only where the manifest gave
\* the path to hazmat, or where it was written after the sync had looked.
UnmanagedSurvives ==
    [][\A a \in Asset :
         (haDst[a].by = "agent" /\ haDst'[a].by # "agent") =>
            \E p \in HaProcess :
               \/ a \in haMan[p]
               \/ a \in haAsset[p] /\ haSeen[p] # haDst[a]]_haVars

\* Outside a sync the manifest lists every copy hazmat wrote, except those of
\* a sync that failed or died first, or that counted as skipped what it had put
\* in place: syncs of two harnesses, which share the manifest, lose nothing to
\* each other.
InstalledIsManaged ==
    (\A p \in HaProcess : haStep[p] \in {"idle", "lock"}) =>
        \A a \in Asset : haDst[a].by = "hazmat" => a \in haManifest \union haLoose
=============================================================================
