---------------------------- MODULE HarnessAuth ----------------------------
(***************************************************************************)
(* The life of one harness credential file (hazmat/harness_auth_runtime.go *)
(* with hazmat/claude_keychain_harvest.go and hazmat/secret_store.go).     *)
(*                                                                         *)
(* A credential has up to four homes: the host-owned store under           *)
(* ~/.hazmat/secrets, the copy materialized for a session under the agent  *)
(* home, the agent login keychain, and the host user's own copy (a file    *)
(* for Codex and OpenCode, a Keychain item for Claude).  A hazmat process  *)
(* moves it between them in three phases: startup recovery of residue      *)
(* (migrateHarnessAuthArtifact), materialization at launch                 *)
(* (materializeHarnessAuthArtifact) and harvest when the session ends      *)
(* (harvestHarnessAuthArtifact).  Every write of those functions is a step *)
(* of its own, so a crash, a Ctrl-C or another process fits between any    *)
(* two of them; reads that follow one another are one step.                *)
(***************************************************************************)
EXTENDS Naturals, FiniteSets

CONSTANTS
    Harness,         \* the harnesses with a raw credential artifact
    Token,           \* credential contents that are worth keeping
    NoFile,          \* no file, or no keychain item
    Blank,           \* the logged-out object, or a file truncated by a write
    NoHarness,       \* the harness of a process that is not running
    Session,         \* hazmat processes
    KeychainBacked,  \* harnesses with agent-keychain hooks (Claude on macOS)
    FiltersBlank,    \* harnesses with a Harvestable predicate (Claude)
    HostFile,        \* harnesses with a HostPath (Codex, OpenCode)
    HostKeychain,    \* harnesses with host Keychain hooks (Claude, opt-in)
    LogsOut,         \* harnesses that may blank the credential they were given
    Overlap,         \* may two processes run at the same time?
    HostLogins,      \* "never", "idle" or "always": when the host user logs in
    Faults           \* what may go wrong in this instance

FaultKinds ==
    { "crash", "torn", "storeWrite", "archive", "agentWrite", "agentRemove",
      "keychainRead", "keychainWrite", "keychainClear", "hostRead",
      "hostWrite", "laterArtifact" }

HostSided == HostFile \cup HostKeychain

ASSUME HarnessAuthAssumption ==
    /\ Blank # NoFile /\ Blank \notin Token /\ NoFile \notin Token
    /\ NoHarness \notin Harness
    /\ KeychainBacked \subseteq Harness /\ FiltersBlank \subseteq Harness
    /\ HostFile \subseteq Harness /\ HostKeychain \subseteq Harness
    /\ HostFile \cap HostKeychain = {} /\ LogsOut \subseteq Harness
    /\ Overlap \in BOOLEAN
    /\ HostLogins \in {"never", "idle", "always"}
    /\ Faults \subseteq FaultKinds

VARIABLES
    store,      \* host-owned store, per harness
    agentFile,  \* the file under the agent home
    keychain,   \* the item in the agent login keychain
    hostCopy,   \* the host user's own copy
    conflicts,  \* contents archived under <store>.conflicts
    order,      \* which of store and hostCopy its timestamp says is newer
    minted,     \* history: tokens issued so far
    latest,     \* history: the token issued last for a harness
    \* the local state of every hazmat process:
    pc,         \* its next step
    sel,        \* the harness it was started for
    phase,      \* which caller reconcile returns to
    prefer,     \* PreferAgentKeychain
    data,       \* the content it is about to write
    seen,       \* the store content it read before
    base        \* the baseline returned by materialization

files == <<store, agentFile, keychain, hostCopy, conflicts, order>>
issue == <<minted, latest>>
locals == <<sel, phase, prefer, data, seen, base>>
vars == <<store, agentFile, keychain, hostCopy, conflicts, order, minted,
          latest, pc, sel, phase, prefer, data, seen, base>>

Value == Token \cup {NoFile, Blank}

Steps ==
    { "idle", "reconcile", "foldWrite", "foldClear",
      "mRead", "mDrop", "mArchive", "mStore", "mRemove", "prepared", "probe",
      "sync", "load", "fileWrite", "kcDelete", "kcAdd", "ready", "running",
      "hRead", "hDrop", "hArchive", "hStore", "hRemove", "hPublish" }

Init ==
    /\ store = [h \in Harness |-> NoFile]
    /\ agentFile = [h \in Harness |-> NoFile]
    /\ keychain = [h \in Harness |-> NoFile]
    /\ hostCopy = [h \in Harness |-> NoFile]
    /\ conflicts = [h \in Harness |-> {}]
    /\ order = [h \in Harness |-> "tie"]
    /\ minted = {}
    /\ latest = [h \in Harness |-> NoFile]
    /\ pc = [s \in Session |-> "idle"]
    /\ sel = [s \in Session |-> NoHarness]
    /\ phase = [s \in Session |-> "recover"]
    /\ prefer = [s \in Session |-> FALSE]
    /\ data = [s \in Session |-> NoFile]
    /\ seen = [s \in Session |-> NoFile]
    /\ base = [s \in Session |-> NoFile]

-----------------------------------------------------------------------------
(* Vocabulary                                                              *)

\* Slip: the Harvestable predicate is not consulted.
HarvestableUnfiltered(h, v) == v # NoFile

\* isHarvestable: without a predicate every present content is.
Harvestable(h, v) == v \in Token \/ (v = Blank /\ h \notin FiltersBlank)

May(fault) == fault \in Faults

At(s, step) == pc[s] = step

H(s) == sel[s]

\* On to another step, with nothing or only the content in hand changed.
Goto(s, step) ==
    /\ pc' = [pc EXCEPT ![s] = step]
    /\ UNCHANGED locals

GotoWith(s, step, v, old) ==
    /\ pc' = [pc EXCEPT ![s] = step]
    /\ data' = [data EXCEPT ![s] = v]
    /\ seen' = [seen EXCEPT ![s] = old]
    /\ UNCHANGED <<sel, phase, prefer, base>>

\* The cleanup closure runs: harvest, with reconcile first.
GotoHarvest(s) ==
    /\ pc' = [pc EXCEPT ![s] = "reconcile"]
    /\ phase' = [phase EXCEPT ![s] = "harvest"]
    /\ UNCHANGED <<sel, prefer, data, seen, base>>

\* The process is gone, with its baseline and every other local.
Leave(s) ==
    /\ pc' = [pc EXCEPT ![s] = "idle"]
    /\ sel' = [sel EXCEPT ![s] = NoHarness]
    /\ phase' = [phase EXCEPT ![s] = "recover"]
    /\ prefer' = [prefer EXCEPT ![s] = FALSE]
    /\ data' = [data EXCEPT ![s] = NoFile]
    /\ seen' = [seen EXCEPT ![s] = NoFile]
    /\ base' = [base EXCEPT ![s] = NoFile]

\* What hostStoredSecretFileModTime and mdat say after the store, or the host
\* copy, is written now.  File times are exact; parseSecurityKeychainModifiedTime
\* reads whole seconds, so a new Keychain item can look older than the store.
StoreStamp(h) ==
    IF h \notin HostSided \/ order[h] = "store" THEN {order[h]}
                                                ELSE {"store", "tie"}

HostStamp(h) ==
    IF order[h] = "host" THEN {"host"}
    ELSE IF h \in HostKeychain /\ order[h] = "store" THEN {"host", "tie", "store"}
    ELSE {"host", "tie"}

WriteStore(h, v) ==
    /\ store' = [store EXCEPT ![h] = v]
    /\ \E o \in StoreStamp(h) : order' = [order EXCEPT ![h] = o]

WriteHost(h, v) ==
    /\ hostCopy' = [hostCopy EXCEPT ![h] = v]
    /\ \E o \in HostStamp(h) : order' = [order EXCEPT ![h] = o]

\* os.WriteFile and tee truncate before they write: a write that fails, or is
\* cut short by a crash, leaves the old content or an empty file.  A Keychain
\* item is replaced as a whole.
SpoilStore(h) ==
    \/ UNCHANGED <<store, order>>
    \/ May("torn") /\ WriteStore(h, Blank)

SpoilAgent(h) ==
    \/ UNCHANGED agentFile
    \/ May("torn") /\ agentFile' = [agentFile EXCEPT ![h] = Blank]

SpoilHost(h) ==
    \/ UNCHANGED <<hostCopy, order>>
    \/ May("torn") /\ h \in HostFile /\ WriteHost(h, Blank)

-----------------------------------------------------------------------------
(* Startup recovery: applyHarnessAuthArtifacts at the end of session       *)
(* resolution.  Only the artifacts of the selected harness are looked at.  *)

Begin(s, h, p) ==
    /\ At(s, "idle")
    /\ Overlap \/ \A r \in Session : At(r, "idle")
    /\ p => h \in KeychainBacked
    /\ pc' = [pc EXCEPT ![s] = "reconcile"]
    /\ sel' = [sel EXCEPT ![s] = h]
    /\ prefer' = [prefer EXCEPT ![s] = p]
    /\ UNCHANGED <<files, issue, phase, data, seen, base>>

\* Slip: the caller is confused with a step.
AfterFoldToCaller(s) == phase[s]

\* Where reconcileKeychainResidueIntoAgentFile returns to.
AfterFold(s) == IF phase[s] = "recover" THEN "mRead" ELSE "hRead"

\* Slip: keychain residue is never looked at.
ReconcileFileOnly(s) ==
    /\ At(s, "reconcile")
    /\ Goto(s, AfterFold(s))
    /\ UNCHANGED <<files, issue>>

Reconcile(s) ==
    /\ At(s, "reconcile")
    /\ \/ /\ H(s) \notin KeychainBacked
          /\ Goto(s, AfterFold(s))
       \/ /\ H(s) \in KeychainBacked
          /\ Harvestable(H(s), agentFile[H(s)])
          /\ Goto(s, "foldClear")
       \/ /\ H(s) \in KeychainBacked
          /\ ~Harvestable(H(s), agentFile[H(s)])
          /\ Harvestable(H(s), keychain[H(s)])
          /\ GotoWith(s, "foldWrite", keychain[H(s)], seen[s])
       \/ /\ H(s) \in KeychainBacked
          /\ ~Harvestable(H(s), agentFile[H(s)])
          /\ ~Harvestable(H(s), keychain[H(s)]) \/ May("keychainRead")
          /\ Goto(s, AfterFold(s))
    /\ UNCHANGED <<files, issue>>

FoldWrite(s) ==
    /\ At(s, "foldWrite")
    /\ \/ /\ agentFile' = [agentFile EXCEPT ![H(s)] = data[s]]
          /\ Goto(s, "foldClear")
       \/ /\ May("agentWrite")
          /\ SpoilAgent(H(s))
          /\ Goto(s, AfterFold(s))
    /\ UNCHANGED <<store, keychain, hostCopy, conflicts, order, issue>>

\* Slip: the folded item stays in the keychain.
FoldClearForgotten(s) ==
    /\ At(s, "foldClear")
    /\ Goto(s, AfterFold(s))
    /\ UNCHANGED <<files, issue>>

FoldClear(s) ==
    /\ At(s, "foldClear")
    /\ \/ keychain' = [keychain EXCEPT ![H(s)] = NoFile]
       \/ May("keychainClear") /\ UNCHANGED keychain
    /\ Goto(s, AfterFold(s))
    /\ UNCHANGED <<store, agentFile, hostCopy, conflicts, order, issue>>

\* Slips: a differing agent copy is taken for an old one, or replaces the store
\* without an archive.
MigrateNextStoreWins(stored, legacy, h) ==
    IF legacy = NoFile THEN "prepared"
    ELSE IF ~Harvestable(h, legacy) THEN "mDrop"
    ELSE IF stored = NoFile THEN "mStore" ELSE "mRemove"

MigrateNextUnarchived(stored, legacy, h) ==
    IF legacy = NoFile THEN "prepared"
    ELSE IF ~Harvestable(h, legacy) THEN "mDrop"
    ELSE IF stored = legacy THEN "mRemove" ELSE "mStore"

\* The reads and the switch of migrateHarnessAuthArtifact.
MigrateNext(stored, legacy, h) ==
    IF legacy = NoFile THEN "prepared"
    ELSE IF ~Harvestable(h, legacy) THEN "mDrop"
    ELSE IF stored = NoFile THEN "mStore"
    ELSE IF stored = legacy THEN "mRemove" ELSE "mArchive"

\* Slip: a leftover of an earlier session aborts the launch.
MigrateReadAborts(s) ==
    /\ At(s, "mRead")
    /\ IF agentFile[H(s)] = NoFile THEN Goto(s, "prepared") ELSE Leave(s)
    /\ UNCHANGED <<files, issue>>

MigrateRead(s) ==
    /\ At(s, "mRead")
    /\ GotoWith(s, MigrateNext(store[H(s)], agentFile[H(s)], H(s)),
                agentFile[H(s)], store[H(s)])
    /\ UNCHANGED <<files, issue>>

\* A non-harvestable leftover is removed, or left with a note.
MigrateDrop(s) ==
    /\ At(s, "mDrop")
    /\ \/ agentFile' = [agentFile EXCEPT ![H(s)] = NoFile]
       \/ May("agentRemove") /\ UNCHANGED agentFile
    /\ Goto(s, "prepared")
    /\ UNCHANGED <<store, keychain, hostCopy, conflicts, order, issue>>

\* A failed archive or store write becomes a note: the launch goes on with the
\* agent-side copy still in place.
MigrateArchive(s) ==
    /\ At(s, "mArchive")
    /\ \/ /\ conflicts' = [conflicts EXCEPT ![H(s)] = @ \cup {seen[s]}]
          /\ Goto(s, "mStore")
       \/ /\ May("archive")
          /\ Goto(s, "prepared")
          /\ UNCHANGED conflicts
    /\ UNCHANGED <<store, agentFile, keychain, hostCopy, order, issue>>

MigrateStore(s) ==
    /\ At(s, "mStore")
    /\ \/ WriteStore(H(s), data[s]) /\ Goto(s, "mRemove")
       \/ /\ May("storeWrite")
          /\ SpoilStore(H(s))
          /\ Goto(s, "prepared")
    /\ UNCHANGED <<agentFile, keychain, hostCopy, conflicts, issue>>

MigrateRemove(s) ==
    /\ At(s, "mRemove")
    /\ \/ agentFile' = [agentFile EXCEPT ![H(s)] = NoFile]
       \/ May("agentRemove") /\ UNCHANGED agentFile
    /\ Goto(s, "prepared")
    /\ UNCHANGED <<store, keychain, hostCopy, conflicts, order, issue>>

-----------------------------------------------------------------------------
(* Launch: prepareHarnessAuthRuntime                                       *)

\* The version probe of the agent-owned binary (a no-op for other harnesses)
\* runs after recovery and before anything is materialized.
Launch(s) ==
    /\ At(s, "prepared")
    /\ Goto(s, "probe")
    /\ UNCHANGED <<files, issue>>

ProbeDone(s) ==
    /\ At(s, "probe")
    /\ Goto(s, "sync")
    /\ UNCHANGED <<files, issue>>

\* syncHostFileBeforeLaunch and syncHostKeychainBeforeLaunch.  A host copy that
\* is not harvestable, or a Keychain item that cannot be read, counts as absent.
HostSeen(h) ==
    {Harvestable(h, hostCopy[h])}
      \cup (IF h \in HostKeychain /\ May("hostRead") THEN {FALSE} ELSE {})

\* publishHostKeychainAfterHarvest skips content that is not harvestable, which
\* for a store file can only be the blank one.
Publishable(h, v) == h \in HostFile \/ Harvestable(h, v)

\* Slips: the store wins whatever the timestamps say, or a tie goes to the host.
SyncChoicesStoreWins(h) ==
    IF store[h] = NoFile
      THEN IF Harvestable(h, hostCopy[h]) THEN {"toStore"} ELSE {"none"}
    ELSE IF store[h] = hostCopy[h] THEN {"none"} ELSE {"toHost"}

SyncChoicesTieToHost(h) ==
    IF store[h] = NoFile
      THEN IF Harvestable(h, hostCopy[h]) THEN {"toStore"} ELSE {"none"}
    ELSE IF ~Harvestable(h, hostCopy[h]) THEN {"toHost"}
    ELSE IF store[h] = hostCopy[h] THEN {"none"}
    ELSE IF order[h] = "store" THEN {"toHost"} ELSE {"toStore"}

\* What the sync does: "none", "toStore", "toHost" or "refuse".
SyncChoices(h) ==
    UNION { IF store[h] = NoFile
              THEN IF ok THEN {"toStore"} ELSE {"none"}
            ELSE IF ~ok THEN {"toHost"}
            ELSE IF store[h] = hostCopy[h] THEN {"none"}
            ELSE (IF order[h] = "host" THEN {"toStore"}
                  ELSE IF order[h] = "store" THEN {"toHost"} ELSE {"refuse"})
                 \cup (IF h \in HostKeychain /\ May("hostRead")
                         THEN {"refuse"} ELSE {})   \* mdat unknown
          : ok \in HostSeen(h) }

SyncHost(s) ==
    /\ At(s, "sync")
    /\ \/ /\ H(s) \notin HostSided \/ "none" \in SyncChoices(H(s))
          /\ Goto(s, "load")
          /\ UNCHANGED <<store, hostCopy, order>>
       \/ /\ H(s) \in HostSided /\ "toStore" \in SyncChoices(H(s))
          /\ WriteStore(H(s), hostCopy[H(s)])
          /\ Goto(s, "load")
          /\ UNCHANGED hostCopy
       \/ /\ H(s) \in HostSided /\ "toHost" \in SyncChoices(H(s))
          /\ IF Publishable(H(s), store[H(s)])
               THEN WriteHost(H(s), store[H(s)])
               ELSE UNCHANGED <<hostCopy, order>>
          /\ Goto(s, "load")
          /\ UNCHANGED store
       \/ /\ H(s) \in HostSided /\ "refuse" \in SyncChoices(H(s))
          /\ Leave(s)
          /\ UNCHANGED <<store, hostCopy, order>>
       \/ /\ H(s) \in HostSided /\ "toStore" \in SyncChoices(H(s))
          /\ May("storeWrite")
          /\ SpoilStore(H(s))
          /\ Leave(s)
          /\ UNCHANGED hostCopy
       \/ /\ H(s) \in HostSided /\ "toHost" \in SyncChoices(H(s))
          /\ Publishable(H(s), store[H(s)]) /\ May("hostWrite")
          /\ SpoilHost(H(s))
          /\ Leave(s)
          /\ UNCHANGED store
    /\ UNCHANGED <<agentFile, keychain, conflicts, issue>>

\* materializeHarnessAuthArtifact: a file that is already there is never
\* overwritten, and the store content read here is the harvest baseline.
LoadNext(s) ==
    LET h == H(s)
    IN  IF agentFile[h] # NoFile \/ store[h] = NoFile THEN {"ready"}
        ELSE IF ~prefer[s] THEN {"fileWrite"}
        ELSE (IF keychain[h] # NoFile THEN {"ready"} ELSE {"kcDelete"})
             \cup (IF May("keychainRead") THEN {"kcDelete"} ELSE {})

MaterializeLoad(s) ==
    /\ At(s, "load")
    /\ \E step \in LoadNext(s) :
          pc' = [pc EXCEPT ![s] = step]
    /\ data' = [data EXCEPT ![s] = store[H(s)]]
    /\ base' = [base EXCEPT ![s] = store[H(s)]]
    /\ UNCHANGED <<files, issue, sel, phase, prefer, seen>>

MaterializeFile(s) ==
    /\ At(s, "fileWrite")
    /\ \/ /\ agentFile' = [agentFile EXCEPT ![H(s)] = data[s]]
          /\ Goto(s, "ready")
       \/ /\ May("agentWrite")
          /\ SpoilAgent(H(s))
          /\ Leave(s)
    /\ UNCHANGED <<store, keychain, hostCopy, conflicts, order, issue>>

\* writeClaudeAgentKeychainCredential: nothing for blank content, otherwise
\* delete (result ignored), then add, which refuses a duplicate.
KeychainDelete(s) ==
    /\ At(s, "kcDelete")
    /\ \/ /\ data[s] = Blank
          /\ Goto(s, "ready")
          /\ UNCHANGED keychain
       \/ /\ data[s] # Blank
          /\ keychain' = [keychain EXCEPT ![H(s)] = NoFile]
          /\ Goto(s, "kcAdd")
       \/ /\ data[s] # Blank /\ May("keychainClear")
          /\ Goto(s, "kcAdd")
          /\ UNCHANGED keychain
    /\ UNCHANGED <<store, agentFile, hostCopy, conflicts, order, issue>>

KeychainAdd(s) ==
    /\ At(s, "kcAdd")
    /\ \/ /\ keychain[H(s)] = NoFile
          /\ keychain' = [keychain EXCEPT ![H(s)] = data[s]]
          /\ Goto(s, "ready")
       \/ /\ keychain[H(s)] # NoFile \/ May("keychainWrite")
          /\ Leave(s)
          /\ UNCHANGED keychain
    /\ UNCHANGED <<store, agentFile, hostCopy, conflicts, order, issue>>

\* A later artifact of the same harness (Claude's state file) cannot be
\* materialized: the error returns without running the cleanups collected so
\* far, and what was materialized stays behind.
LaterArtifactFails(s) ==
    /\ At(s, "ready") /\ May("laterArtifact")
    /\ Leave(s)
    /\ UNCHANGED <<files, issue>>

\* A later runtime step fails (Claude settings, Git HTTPS, Git SSH, policy):
\* the session does not start, but its cleanup runs.
LaterStepFails(s) ==
    /\ At(s, "ready")
    /\ GotoHarvest(s)
    /\ UNCHANGED <<files, issue>>

StartSession(s) ==
    /\ At(s, "ready")
    /\ Goto(s, "running")
    /\ UNCHANGED <<files, issue>>

-----------------------------------------------------------------------------
(* The harness inside the session (external), and the host user            *)

Issue(h, t) ==
    /\ t \notin minted
    /\ minted' = minted \cup {t}
    /\ latest' = [latest EXCEPT ![h] = t]

\* A login or an OAuth refresh written to the credential file.
AgentRotatesFile(s, t) ==
    /\ At(s, "running")
    /\ Issue(H(s), t)
    /\ agentFile' = [agentFile EXCEPT ![H(s)] = t]
    /\ UNCHANGED <<store, keychain, hostCopy, conflicts, order, pc, locals>>

\* A keychain-backed refresh: the token lands in the agent login keychain and
\* the file, if there is one, becomes the logged-out object.
AgentRotatesKeychain(s, t) ==
    /\ At(s, "running") /\ prefer[s]
    /\ Issue(H(s), t)
    /\ keychain' = [keychain EXCEPT ![H(s)] = t]
    /\ agentFile' = [agentFile EXCEPT ![H(s)] =
                        IF agentFile[H(s)] = NoFile THEN NoFile ELSE Blank]
    /\ UNCHANGED <<store, hostCopy, conflicts, order, pc, locals>>

\* The harness rewrites the credential it was given into the logged-out shape,
\* or deletes it, before any refresh.
AgentLogsOut(s) ==
    /\ At(s, "running") /\ H(s) \in LogsOut
    /\ agentFile[H(s)] = base[s] /\ base[s] \in Token
    /\ \E v \in {Blank, NoFile} : agentFile' = [agentFile EXCEPT ![H(s)] = v]
    /\ UNCHANGED <<store, keychain, hostCopy, conflicts, order, issue, pc, locals>>

SessionExits(s) ==
    /\ At(s, "running")
    /\ GotoHarvest(s)
    /\ UNCHANGED <<files, issue>>

\* The host user signs in with the plain harness, outside Hazmat.
HostLogin(h, t) ==
    /\ h \in HostSided
    /\ HostLogins # "never"
    /\ HostLogins = "always" \/ \A s \in Session : At(s, "idle")
    /\ Issue(h, t)
    /\ WriteHost(h, t)
    /\ UNCHANGED <<store, agentFile, keychain, conflicts, pc, locals>>

-----------------------------------------------------------------------------
(* Harvest: harvestHarnessAuthArtifact                                     *)

\* hostChangedSinceMaterialize, for a store that differs from the agent copy.
MustArchive(stored, fresh, b) ==
    stored # NoFile /\ stored # fresh /\ (b = NoFile \/ stored # b)

HarvestNext(stored, fresh, b, h) ==
    IF ~Harvestable(h, fresh) THEN "hDrop"
    ELSE IF MustArchive(stored, fresh, b) THEN "hArchive" ELSE "hStore"

HarvestRead(s) ==
    /\ At(s, "hRead")
    /\ \/ /\ agentFile[H(s)] = NoFile
          /\ Leave(s)
       \/ /\ agentFile[H(s)] # NoFile
          /\ GotoWith(s, HarvestNext(store[H(s)], agentFile[H(s)], base[s], H(s)),
                      agentFile[H(s)], store[H(s)])
    /\ UNCHANGED <<files, issue>>

HarvestDrop(s) ==
    /\ At(s, "hDrop")
    /\ \/ agentFile' = [agentFile EXCEPT ![H(s)] = NoFile]
       \/ May("agentRemove") /\ UNCHANGED agentFile
    /\ Leave(s)
    /\ UNCHANGED <<store, keychain, hostCopy, conflicts, order, issue>>

HarvestArchive(s) ==
    /\ At(s, "hArchive")
    /\ \/ /\ conflicts' = [conflicts EXCEPT ![H(s)] = @ \cup {seen[s]}]
          /\ Goto(s, "hStore")
       \/ /\ May("archive")
          /\ Leave(s)
          /\ UNCHANGED conflicts
    /\ UNCHANGED <<store, agentFile, keychain, hostCopy, order, issue>>

HarvestStore(s) ==
    /\ At(s, "hStore")
    /\ \/ WriteStore(H(s), data[s]) /\ Goto(s, "hRemove")
       \/ /\ May("storeWrite")
          /\ SpoilStore(H(s))
          /\ Leave(s)
    /\ UNCHANGED <<agentFile, keychain, hostCopy, conflicts, issue>>

HarvestRemove(s) ==
    /\ At(s, "hRemove")
    /\ \/ agentFile' = [agentFile EXCEPT ![H(s)] = NoFile]
       \/ May("agentRemove") /\ UNCHANGED agentFile
    /\ Goto(s, "hPublish")
    /\ UNCHANGED <<store, keychain, hostCopy, conflicts, order, issue>>

\* publishHostFileAfterHarvest and publishHostKeychainAfterHarvest: neither
\* looks at what the host copy holds by now.
HarvestPublish(s) ==
    /\ At(s, "hPublish")
    /\ \/ H(s) \in HostSided /\ WriteHost(H(s), data[s])
       \/ H(s) \in HostSided /\ May("hostWrite") /\ SpoilHost(H(s))
       \/ H(s) \notin HostSided /\ UNCHANGED <<hostCopy, order>>
    /\ Leave(s)
    /\ UNCHANGED <<store, agentFile, keychain, conflicts, issue>>

-----------------------------------------------------------------------------
(* A process dies: killed, Ctrl-C outside runSessionCommand, or a read     *)
(* error that makes a phase return early.  The write it was in may be torn.*)

Crash(s) ==
    /\ May("crash")
    /\ ~At(s, "idle")
    /\ Leave(s)
    /\ UNCHANGED <<keychain, conflicts, issue>>
    /\ \/ UNCHANGED <<store, agentFile, hostCopy, order>>
       \/ /\ \/ pc[s] \in {"mStore", "hStore"}
             \/ At(s, "sync") /\ H(s) \in HostSided
                /\ "toStore" \in SyncChoices(H(s))
          /\ SpoilStore(H(s))
          /\ UNCHANGED <<agentFile, hostCopy>>
       \/ /\ pc[s] \in {"foldWrite", "fileWrite"}
          /\ SpoilAgent(H(s))
          /\ UNCHANGED <<store, hostCopy, order>>
       \/ /\ \/ At(s, "hPublish")
             \/ At(s, "sync") /\ "toHost" \in SyncChoices(H(s))
          /\ SpoilHost(H(s))
          /\ UNCHANGED <<store, agentFile>>

Recovery(s) ==
    \/ Reconcile(s) \/ FoldWrite(s) \/ FoldClear(s)
    \/ MigrateRead(s) \/ MigrateDrop(s) \/ MigrateArchive(s)
    \/ MigrateStore(s) \/ MigrateRemove(s)

Materialization(s) ==
    \/ Launch(s) \/ ProbeDone(s) \/ SyncHost(s) \/ MaterializeLoad(s)
    \/ MaterializeFile(s) \/ KeychainDelete(s) \/ KeychainAdd(s)
    \/ LaterArtifactFails(s) \/ LaterStepFails(s) \/ StartSession(s)

Harvest(s) ==
    \/ HarvestRead(s) \/ HarvestDrop(s) \/ HarvestArchive(s)
    \/ HarvestStore(s) \/ HarvestRemove(s) \/ HarvestPublish(s)

Agent(s) ==
    \/ \E t \in Token : AgentRotatesFile(s, t) \/ AgentRotatesKeychain(s, t)
    \/ AgentLogsOut(s)

Next ==
    \/ \E s \in Session :
          \/ \E h \in Harness, p \in BOOLEAN : Begin(s, h, p)
          \/ Recovery(s) \/ Materialization(s) \/ Agent(s)
          \/ SessionExits(s) \/ Harvest(s) \/ Crash(s)
    \/ \E h \in Harness, t \in Token : HostLogin(h, t)

Spec == Init /\ [][Next]_vars

\* Processes keep running, sessions end and users come back to every harness;
\* and a crash does not hit every attempt at the same step of recovery.
FairSpec ==
    /\ Spec
    /\ \A s \in Session :
          /\ WF_vars(Recovery(s) \/ Materialization(s) \/ Harvest(s)
                     \/ SessionExits(s))
          /\ SF_vars(Reconcile(s)) /\ SF_vars(FoldWrite(s))
          /\ SF_vars(FoldClear(s)) /\ SF_vars(MigrateRead(s))
          /\ SF_vars(MigrateArchive(s)) /\ SF_vars(MigrateStore(s))
    /\ \A h \in Harness :
          SF_vars(\E s \in Session, p \in BOOLEAN : Begin(s, h, p))

-----------------------------------------------------------------------------
(* Properties                                                              *)

\* Every copy holds a credential content, every process a known step.
CopiesOK ==
    /\ store \in [Harness -> Value]
    /\ agentFile \in [Harness -> Value]
    /\ keychain \in [Harness -> Value]
    /\ hostCopy \in [Harness -> Value]
    /\ conflicts \in [Harness -> SUBSET Value]
    /\ order \in [Harness -> {"store", "host", "tie"}]
    /\ minted \subseteq Token
    /\ latest \in [Harness -> Token \cup {NoFile}]

ProcessesOK ==
    /\ pc \in [Session -> Steps]
    /\ sel \in [Session -> Harness \cup {NoHarness}]
    /\ phase \in [Session -> {"recover", "harvest"}]
    /\ prefer \in [Session -> BOOLEAN]
    /\ data \in [Session -> Value]
    /\ seen \in [Session -> Value]
    /\ base \in [Session -> Value]

\* The two together are the module's type invariant.
TypeOK == CopiesOK /\ ProcessesOK

\* The artifacts with a logged-out filter and no host-side copy.
Protected == FiltersBlank \ HostSided

\* The token issued last is still somewhere.
Kept(h) ==
    latest[h] \in {NoFile, store[h], agentFile[h], keychain[h], hostCopy[h]}
                    \cup conflicts[h]

\* Whatever sequence of recovery, launch, refresh, harvest, crash and failed
\* writes happens, the credential issued last is in the store, the agent file,
\* the agent keychain, the host copy or the conflict archive.
LatestValueNeverSilentlyLost == \A h \in Harness : Kept(h)

\* The same for the artifacts with a logged-out filter and no host-side copy
\* (Claude with the default configuration), whatever the other harnesses do.
FilteredLatestKept == \A h \in Protected : Kept(h)

\* The same for the harnesses that are synchronised with a file of the host
\* user's (Codex, OpenCode), who may log in there between sessions.
HostFileLatestKept == \A h \in HostFile : Kept(h)

\* A stored token is replaced only when it is already archived, when a harvest
\* replaces the very baseline it was launched with, or when the launch sync
\* found the host copy strictly newer.
DivergenceArchived ==
    [][\A h \in Harness :
         (store[h] \in Token /\ store'[h] # store[h]) =>
            \/ store[h] \in conflicts[h]
            \/ \E s \in Session :
                  /\ H(s) = h
                  /\ \/ At(s, "hStore") /\ store[h] = base[s]
                     \/ At(s, "sync") /\ order[h] = "host"]_vars

\* Once recovery is over and until something is materialized, and so also while
\* the agent-owned binary is probed outside the sandbox, neither agent-side
\* sink of a protected harness holds anything and its latest token is
\* host-owned.
RecoveredStateHostOwned ==
    \A s \in Session :
        pc[s] \in {"prepared", "probe", "sync", "load"} /\ H(s) \in Protected =>
            /\ agentFile[H(s)] = NoFile
            /\ keychain[H(s)] = NoFile
            /\ latest[H(s)] \in {NoFile, store[H(s)]} \cup conflicts[H(s)]

\* A harness with a logged-out filter never has its stored token replaced by
\* the logged-out object, not even by processes that overlap.
LoggedOutNeverPromoted ==
    [][\A h \in FiltersBlank : store'[h] = Blank => store[h] = Blank]_vars

\* Harvest overwrites a host credential with agent-side auth only when it is
\* the session baseline or archived.
PublishReplacesBaselineOnly ==
    [][\A s \in Session, h \in Harness :
         (At(s, "hPublish") /\ H(s) = h /\ hostCopy'[h] # hostCopy[h]) =>
            \/ hostCopy[h] \notin Token
            \/ hostCopy[h] = base[s]
            \/ hostCopy[h] \in conflicts[h]]_vars

\* A token issued inside a session is eventually host-owned, or superseded by
\* a later one, even if processes crash on the way.
EventuallyHostOwned ==
    \A h \in Harness, t \in Token :
        (latest[h] = t) ~> (latest[h] # t \/ t \in {store[h]} \cup conflicts[h])

-----------------------------------------------------------------------------
(* The inductive invariant behind FilteredLatestKept.                      *)

\* What must not fail for it to hold: writes of the agent file, and reads and
\* deletions of the agent keychain item.
ReliableSinks ==
    /\ ~Overlap
    /\ Faults \cap {"agentWrite", "keychainRead", "keychainClear"} = {}

\* One process at a time, and a process that runs has a harness.
Exclusive ==
    \A s, r \in Session : ~At(s, "idle") /\ ~At(r, "idle") => s = r

Selected ==
    \A s \in Session :
        /\ ~At(s, "idle") => H(s) \in Harness
        /\ prefer[s] => H(s) \in KeychainBacked

\* Only issued tokens are around.
Known == minted \cup {NoFile, Blank}

Issued ==
    /\ \A h \in Harness :
          /\ store[h] \in Known /\ agentFile[h] \in Known
          /\ keychain[h] \in Known /\ hostCopy[h] \in Known
          /\ latest[h] \in Known
    /\ \A s \in Session : data[s] \in Known /\ base[s] \in Known

\* The credential in use, in the order reconcile and harvest look for it, is
\* the latest one, unless the latest one is archived.
Current(h) ==
    latest[h] \in conflicts[h] \cup
        {NoFile, IF agentFile[h] \in Token THEN agentFile[h]
                 ELSE IF keychain[h] \in Token THEN keychain[h]
                 ELSE store[h]}

CurrentAll ==
    \A h \in Protected :
        /\ Current(h)
        /\ keychain[h] # Blank
        /\ h \notin KeychainBacked => keychain[h] = NoFile

\* After the fold the keychain is empty until a token is added to it again.
Folded ==
    Steps \ {"idle", "reconcile", "foldWrite", "foldClear", "ready", "running"}

\* What a process knows about the copies at each step.
Locals(s) ==
    LET h == H(s)
    IN  /\ pc[s] \in Folded => keychain[h] = NoFile
        /\ pc[s] = "foldWrite" =>
              data[s] = keychain[h] /\ data[s] \in Token /\ agentFile[h] \notin Token
        /\ pc[s] = "foldClear" => agentFile[h] \in Token
        /\ pc[s] \in {"mDrop", "hDrop"} => agentFile[h] \notin Token
        /\ pc[s] \in {"mArchive", "mStore", "hArchive", "hStore"} =>
              data[s] = agentFile[h] /\ data[s] \in Token
        /\ pc[s] \in {"mRemove", "hRemove"} =>
              agentFile[h] = store[h] /\ store[h] \in Token
        /\ pc[s] \in {"fileWrite", "kcDelete", "kcAdd"} =>
              agentFile[h] = NoFile /\ data[s] = store[h] /\ data[s] # NoFile
        /\ pc[s] \in {"kcDelete", "kcAdd"} => h \in KeychainBacked
        /\ pc[s] = "kcAdd" => data[s] # Blank
        /\ pc[s] \in {"fileWrite", "kcDelete", "kcAdd", "ready", "running"} =>
              base[s] = store[h]
        /\ pc[s] = "ready" => (agentFile[h] \in Token => keychain[h] = NoFile)
        /\ pc[s] = "running" =>
              (agentFile[h] \in Token /\ agentFile[h] = base[s]
                 => keychain[h] = NoFile)

LocalsAll == \A s \in Session : H(s) \in Protected => Locals(s)

SafeInv ==
    /\ TypeOK /\ Exclusive /\ Selected /\ Issued
    /\ CurrentAll /\ LocalsAll

-----------------------------------------------------------------------------
(* The inductive invariants behind the other properties.                   *)

\* RecoveredStateHostOwned: recovery leaves no agent file, provided also that
\* archives, store writes and removals succeed.
ReliableRecovery ==
    ReliableSinks /\ Faults \cap {"archive", "storeWrite", "agentRemove"} = {}

RecoveredInv ==
    /\ SafeInv
    /\ \A s \in Session :
          H(s) \in Protected /\ pc[s] \in {"prepared", "probe", "sync", "load"}
             => agentFile[H(s)] = NoFile

\* LoggedOutNeverPromoted: a process that is to write the store of a filtered
\* harness has a token in hand.
PromotesTokens ==
    \A s \in Session :
        H(s) \in FiltersBlank /\ pc[s] \in {"mArchive", "mStore", "hArchive", "hStore"}
           => data[s] \in Token

\* Reconcile runs for recovery, or once more for the harvest.
Folding(s, caller) ==
    phase[s] = caller /\ pc[s] \in {"reconcile", "foldWrite", "foldClear"}

\* DivergenceArchived: what a process knows of the store it is about to replace.
\* From the launch to the harvest the store is the baseline.
Course(s) ==
    /\ pc[s] = "idle" => phase[s] = "recover"
    /\ pc[s] = "mArchive" => seen[s] = store[H(s)]
    /\ pc[s] = "mStore" => store[H(s)] \in {NoFile} \cup conflicts[H(s)]
    /\ Folding(s, "harvest")
       \/ pc[s] \in {"fileWrite", "kcDelete", "kcAdd", "ready", "running",
                     "hRead", "hArchive", "hStore"}
       => base[s] = store[H(s)]

CourseInv ==
    /\ CopiesOK /\ ProcessesOK /\ Selected /\ Exclusive
    /\ \A s \in Session : Course(s)

\* HostFileLatestKept: what must not happen for it to hold.  A process that dies
\* or fails to clear its agent file leaves an old token that the next recovery
\* would take for newer than a login made meanwhile.
QuietHost ==
    /\ ~Overlap /\ HostLogins # "always"
    /\ Faults \cap {"crash", "torn", "storeWrite", "agentRemove"} = {}
    /\ HostFile \cap (KeychainBacked \cup HostKeychain) = {}
    /\ HostFile \cap LogsOut \subseteq FiltersBlank

\* The latest token is in the store or in the host copy, and the launch sync
\* will not replace it by the other.
Settled(h) ==
    \/ latest[h] = NoFile
    \/ latest[h] = store[h]
       /\ ~(order[h] = "host" /\ hostCopy[h] \notin {NoFile, store[h]})
    \/ latest[h] = hostCopy[h]
       /\ ~(order[h] = "store" /\ store[h] \notin {NoFile, hostCopy[h]})

\* No process works on the harness: its agent file is gone, or holds what an
\* abandoned launch materialized.
AtRest(h) == Settled(h) /\ agentFile[h] \in {NoFile, store[h]}

\* In a session it is in the agent file, if that holds a token.
InSession(h) ==
    /\ latest[h] \in {NoFile, IF agentFile[h] \in Token THEN agentFile[h]
                              ELSE store[h]}
    /\ hostCopy[h] = store[h]

HostCourse(s) ==
    LET h == H(s)
    IN  /\ pc[s] \notin {"foldWrite", "foldClear", "kcDelete", "kcAdd",
                         "mArchive", "mStore", "hArchive"}
        /\ Folding(s, "recover")
           \/ pc[s] \in {"mRead", "mDrop", "mRemove", "prepared", "probe", "sync"}
              => AtRest(h)
        /\ pc[s] \in {"prepared", "probe", "sync", "load", "fileWrite"}
              => agentFile[h] = NoFile
        /\ Folding(s, "harvest")
           \/ pc[s] \in {"load", "fileWrite", "ready", "running", "hRead", "hDrop",
                         "hStore"}
              => InSession(h)
        /\ pc[s] = "fileWrite" => data[s] = store[h]
        /\ pc[s] = "ready" => agentFile[h] \in {NoFile, store[h]}
        /\ Folding(s, "harvest")
           \/ pc[s] \in {"fileWrite", "ready", "running", "hRead", "hDrop", "hStore"}
              => base[s] = store[h]
        /\ pc[s] = "hDrop" => agentFile[h] \notin Token
        /\ pc[s] = "hStore" => data[s] = agentFile[h] /\ data[s] \in Token
        /\ pc[s] \in {"hRemove", "hPublish"}
              => /\ latest[h] \in {NoFile, store[h]}
                 /\ data[s] = store[h] /\ data[s] \in Token /\ order[h] # "host"
        /\ pc[s] = "hRemove" => agentFile[h] = store[h]
        /\ pc[s] = "hPublish" => agentFile[h] = NoFile

\* None of its places holds an empty file, except one the harness emptied itself.
Unspoiled(h) ==
    /\ store[h] # Blank /\ hostCopy[h] # Blank
    /\ agentFile[h] = Blank => h \in FiltersBlank

HostInv ==
    /\ CopiesOK /\ ProcessesOK /\ Selected /\ Exclusive
    /\ \A s \in Session : pc[s] = "idle" => phase[s] = "recover"
    /\ \A h \in HostFile :
          /\ Unspoiled(h)
          /\ (\A s \in Session : pc[s] = "idle" \/ H(s) # h) => AtRest(h)
          /\ \A s \in Session : H(s) = h => HostCourse(s)

=============================================================================
