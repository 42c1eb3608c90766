------------------------------ MODULE GitHooks ------------------------------
(***************************************************************************)
(* Repo-local Git hooks (hazmat/hook_approval.go, hook_runtime.go,         *)
(* hook_cli.go and rollbackProjectHooks in rollback.go).                   *)
(*                                                                         *)
(* A repository declares a hook bundle, which a contained agent can edit.  *)
(* The host user approves a bundle; hazmat keeps a record of the approval  *)
(* and a snapshot of the bundle outside the repository, and installs       *)
(* dispatchers that run the snapshot only.  Dispatchers live in the        *)
(* managed hooks directory with refusing ones in .git/hooks, or as a block *)
(* in the hook files of another owner of core.hooksPath (chain mode).      *)
(*                                                                         *)
(* Commands are processes: every file they write is a step of its own, so  *)
(* that a crash, the agent or another command fits in between.  A bundle   *)
(* stands for its own hash.                                                *)
(***************************************************************************)
EXTENDS FiniteSets

CONSTANTS
    Project,      \* repositories
    Hook,         \* hook types
    Bundle,       \* valid hook bundles, each also its hash
    HooksOf,      \* the hook types a bundle declares
    NoBundle,     \* no manifest in the repository
    Malformed,    \* a manifest that does not load
    Body,         \* what an owner's hook file holds besides Hazmat's block
    Bare,         \* the body of a hook file that Hazmat itself created
    NoFile,       \* no hook file
    NoRecord,     \* a project without approval
    NoChain,      \* an approval without composed hooks
    Process,      \* hazmat commands
    Modes,        \* which commands this instance runs
    UserHooks,    \* hook types for which the user has a .git/hooks file
    Overlap,      \* may two commands run at the same time?
    AgentEdits,   \* "never", "idle" or "always": when the agent edits
    AgentMoves,   \* what the agent edits
    Faults        \* what may go wrong in this instance

InstallModes == {"plain", "replace", "chain", "auto"}

AllModes == InstallModes \cup {"uninstall", "rollback", "hook"}

ASSUME GitHooksAssumption ==
    /\ Project # {}
    /\ HooksOf \in [Bundle -> SUBSET Hook]
    /\ NoBundle \notin Bundle /\ Malformed \notin Bundle
    /\ NoBundle # Malformed /\ Bare \in Body
    /\ NoFile \notin [body : Body, mark : {"clean", "block", "mangled"}]
    /\ \A c \in SUBSET (Hook \X Body) : c # NoChain
    /\ \A r \in [bundle : Bundle, chain : {NoChain} \cup SUBSET (Hook \X Body)] :
          r # NoRecord
    /\ Modes \subseteq AllModes /\ UserHooks \subseteq Hook
    /\ Overlap \in BOOLEAN /\ AgentEdits \in {"never", "idle", "always"}
    /\ AgentMoves \subseteq {"bundle", "break", "path", "owner"}
    /\ Faults \subseteq
          {"crash", "tornSave", "partialRemoval", "stuckFile", "stuckState",
           "noGitDir"}

VARIABLES
    repo,       \* the bundle under .hazmat/hooks
    hooksPath,  \* core.hooksPath: "unset", "managed" or "owner" (repo-relative)
    managed,    \* dispatchers in the managed directory
    fallback,   \* entries of .git/hooks: "none", "hazmat" or "user"
    owner,      \* hook files of the repo-relative core.hooksPath owner
    kept,       \* history: what an uninstall could not, or did not try to, remove
    wrapper,    \* is the Git wrapper installed?
    approvals,  \* ~/.hazmat/hook-approvals.yaml
    snapshot,   \* ~/.hazmat/git-hooks: "none", "partial" or "whole"
    consented,  \* history: bundles the user agreed to and has not withdrawn
    ps          \* the running commands

inRepo == <<repo, hooksPath, managed, fallback, owner, kept>>
onHost == <<wrapper, approvals, snapshot>>
vars == <<repo, hooksPath, managed, fallback, owner, kept, wrapper, approvals,
          snapshot, consented, ps>>

Places == {"managed", "fallback"}

\* The traces of an installation: dispatchers, wrapper and core.hooksPath.
Trace == (Places \X Hook) \cup {<<"wrapper">>, <<"path">>}

OwnerFile == [body : Body, mark : {"clean", "block", "mangled"}] \cup {NoFile}

Chain == SUBSET (Hook \X Body)

Record == [bundle : Bundle, chain : {NoChain} \cup Chain]

Steps ==
    { "idle", "inspect", "prompt", "snapshot", "aLoad", "aSave", "stale",
      "build", "dispatchers", "path", "blocks", "cLoad", "cSave",
      "uInspect", "uLoad", "uPath", "uBlocks", "uHooks", "uWrapper",
      "uaLoad", "uaSave", "uSnap", "rbLoad", "rbNext", "rbFile", "rbRoot",
      "exec" }

NoApprovals == [p \in Project |-> NoRecord]

\* A command that is not running; the project in it is arbitrary.
Idle ==
    [ pc |-> "idle", mode |-> "hook", proj |-> CHOOSE p \in Project : TRUE,
      content |-> NoBundle, rec |-> NoRecord, loaded |-> NoApprovals,
      todo |-> {}, chain |-> {}, left |-> {} ]

Init ==
    /\ repo \in [Project -> Bundle \cup {NoBundle}]
    /\ hooksPath \in [Project -> {"unset", "owner"}]
    /\ managed = [p \in Project |-> {}]
    /\ fallback = [p \in Project |->
                     [h \in Hook |-> IF h \in UserHooks THEN "user" ELSE "none"]]
    /\ \E file \in {NoFile} \cup [body : Body, mark : {"clean"}] :
          owner = [p \in Project |->
                     [h \in Hook |-> IF hooksPath[p] = "owner" THEN file ELSE NoFile]]
    /\ kept = [p \in Project |-> {}]
    /\ wrapper = [p \in Project |-> FALSE]
    /\ approvals = NoApprovals
    /\ snapshot = [p \in Project |-> [b \in Bundle |-> "none"]]
    /\ consented = [p \in Project |-> {}]
    /\ ps = [s \in Process |-> Idle]

-----------------------------------------------------------------------------
(* Vocabulary                                                              *)

May(fault) == fault \in Faults

At(s, step) == ps[s].pc = step

P(s) == ps[s].proj

Go(s, step) == ps' = [ps EXCEPT ![s].pc = step]

Leave(s) == ps' = [ps EXCEPT ![s] = Idle]

\* An uninstall that ends, well or badly: rollback goes on with the next one.
Finish(s) == IF ps[s].mode = "rollback" THEN Go(s, "rbNext") ELSE Leave(s)

Approved(p) == approvals[p] # NoRecord /\ approvals[p].bundle = repo[p]

HooksOfRecord(r) == IF r = NoRecord THEN {} ELSE HooksOf[r.bundle]

ChainOf(r) == IF r = NoRecord \/ r.chain = NoChain THEN {} ELSE r.chain

\* validateHookDispatcherLayout on .git/hooks.
FallbackLayout(p, hooks) ==
    \A h \in Hook : fallback[p][h] = IF h \in hooks THEN "hazmat" ELSE "none"

\* validateProjectHookChainRuntime: the hash of a file is its body and block.
ChainLayout(p, hooks) ==
    /\ hooksPath[p] = "owner"
    /\ {c[1] : c \in approvals[p].chain} = hooks
    /\ \A c \in approvals[p].chain :
          owner[p][c[1]] = [body |-> c[2], mark |-> "block"]

\* validateProjectHookRuntime.
Valid(p) ==
    /\ repo[p] \in Bundle
    /\ Approved(p)
    /\ IF approvals[p].chain # NoChain
         THEN ChainLayout(p, HooksOf[repo[p]])
         ELSE hooksPath[p] = "managed" /\ managed[p] = HooksOf[repo[p]]
    /\ FallbackLayout(p, HooksOf[repo[p]])
    /\ snapshot[p][repo[p]] = "whole"

-----------------------------------------------------------------------------
(* A command begins                                                        *)

First(mode) ==
    IF mode \in InstallModes THEN "inspect"
    ELSE IF mode = "uninstall" THEN "uInspect" ELSE "rbLoad"

Begin(s, p, mode) ==
    /\ At(s, "idle")
    /\ Overlap \/ \A r \in Process : At(r, "idle")
    /\ mode \in Modes \ {"hook"}
    /\ ps' = [ps EXCEPT ![s] =
                 [Idle EXCEPT !.pc = First(mode), !.mode = mode, !.proj = p]]
    /\ UNCHANGED <<inRepo, onHost, consented>>

-----------------------------------------------------------------------------
(* Approval: runHooksInstall, maybePromptProjectHooks and                  *)
(* recordProjectHookApproval                                               *)

\* maybePromptProjectHooks keeps quiet about a foreign owner of core.hooksPath
\* as long as nothing of Hazmat's is installed.
KeepsQuiet(p) ==
    \/ Valid(p)
    \/ /\ approvals[p].chain = NoChain
       /\ hooksPath[p] = "owner"
       /\ managed[p] = {} /\ ~wrapper[p]
       /\ \A h \in HooksOf[repo[p]] : fallback[p][h] # "hazmat"

\* Slip: a repository without a manifest is not turned away.
InspectUnchecked(s) ==
    /\ At(s, "inspect")
    /\ ps' = [ps EXCEPT ![s].pc = "prompt", ![s].content = repo[P(s)]]
    /\ UNCHANGED <<inRepo, onHost, consented>>

Inspect(s) ==
    /\ At(s, "inspect")
    /\ \/ repo[P(s)] \notin Bundle /\ Leave(s)
       \/ /\ repo[P(s)] \in Bundle /\ ~Approved(P(s))
          /\ ps' = [ps EXCEPT ![s].pc = "prompt", ![s].content = repo[P(s)]]
       \/ /\ repo[P(s)] \in Bundle /\ Approved(P(s))
          /\ \/ ps[s].mode = "auto" /\ Leave(s)
             \/ /\ ps[s].mode = "auto" => ~KeepsQuiet(P(s))
                /\ Go(s, "build")
    /\ UNCHANGED <<inRepo, onHost, consented>>

\* The user reviews the bundle that was loaded, and agrees or declines.
Prompt(s) ==
    /\ At(s, "prompt")
    /\ \/ /\ consented' = [consented EXCEPT ![P(s)] = @ \cup {ps[s].content}]
          /\ Go(s, "snapshot")
       \/ Leave(s) /\ UNCHANGED consented
    /\ UNCHANGED <<inRepo, onHost>>

\* Slip: the bundle is read from the repository again after the review.
WriteSnapshotReread(s) ==
    /\ At(s, "snapshot") /\ repo[P(s)] \in Bundle
    /\ snapshot' = [snapshot EXCEPT ![P(s)][repo[P(s)]] =
                       IF @ = "none" THEN "whole" ELSE @]
    /\ ps' = [ps EXCEPT ![s].pc = "aLoad", ![s].content = repo[P(s)]]
    /\ UNCHANGED <<inRepo, wrapper, approvals, consented>>

\* A snapshot directory appears by rename; one that is there is reused.
WriteSnapshot(s) ==
    /\ At(s, "snapshot")
    /\ snapshot' = [snapshot EXCEPT ![P(s)][ps[s].content] =
                       IF @ = "none" THEN "whole" ELSE @]
    /\ Go(s, "aLoad")
    /\ UNCHANGED <<inRepo, wrapper, approvals, consented>>

\* The bundle of the record that the new approval replaces.
StaleBundles(s) ==
    {b \in Bundle : /\ ps[s].loaded[P(s)] # NoRecord
                    /\ b = ps[s].loaded[P(s)].bundle
                    /\ b # ps[s].content}

\* Slip: the stale snapshot is removed before the new record is saved.
LoadApprovalsPrune(s) ==
    /\ At(s, "aLoad")
    /\ ps' = [ps EXCEPT ![s].pc = "aSave", ![s].loaded = approvals]
    /\ snapshot' = [snapshot EXCEPT ![P(s)] =
                       [b \in Bundle |-> IF b = ps[s].content THEN @[b] ELSE "none"]]
    /\ UNCHANGED <<inRepo, wrapper, approvals, consented>>

LoadApprovals(s) ==
    /\ At(s, "aLoad")
    /\ ps' = [ps EXCEPT ![s].pc = "aSave", ![s].loaded = approvals]
    /\ UNCHANGED <<inRepo, onHost, consented>>

\* The whole file is rewritten from what was loaded; the new record has no
\* chain, whatever the replaced one had.
SaveApproval(s) ==
    /\ At(s, "aSave")
    /\ approvals' = [ps[s].loaded EXCEPT ![P(s)] =
                        [bundle |-> ps[s].content, chain |-> NoChain]]
    /\ Go(s, "stale")
    /\ UNCHANGED <<inRepo, wrapper, snapshot, consented>>

\* Removing a snapshot withdraws the consent to its bundle, but not one that
\* another command has just been given and has yet to write a snapshot for.
Withdrawn(s, p, bundles) ==
    bundles \ {ps[r].content : r \in {q \in Process \ {s} :
                                        At(q, "snapshot") /\ P(q) = p}}

RemoveStale(s) ==
    /\ At(s, "stale")
    /\ snapshot' = [snapshot EXCEPT ![P(s)] =
                       [b \in Bundle |-> IF b \in StaleBundles(s) THEN "none" ELSE @[b]]]
    /\ consented' = [consented EXCEPT ![P(s)] = @ \ Withdrawn(s, P(s), StaleBundles(s))]
    /\ Go(s, "build")
    /\ UNCHANGED <<inRepo, wrapper, approvals>>

-----------------------------------------------------------------------------
(* Installation: installProjectHookRuntimeWithOptions and                  *)
(* installProjectHookRuntimeChained.  Bundle and record are read again.    *)

PathAllows(p, mode) ==
    \/ mode = "replace"
    \/ mode = "chain" /\ hooksPath[p] = "owner"
    \/ mode \in {"plain", "auto"} /\ hooksPath[p] # "owner"

\* refuseUnknownHookEntries looks at the names of the entries only.
NoUnknownEntry(p) ==
    \A h \in Hook \ HooksOf[repo[p]] : fallback[p][h] = "none"

InstallAllowed(p, mode) ==
    /\ repo[p] \in Bundle /\ Approved(p)
    /\ PathAllows(p, mode)
    /\ NoUnknownEntry(p)

Build(s) ==
    /\ At(s, "build")
    /\ \/ /\ InstallAllowed(P(s), ps[s].mode)
          /\ ps' = [ps EXCEPT ![s].pc = "dispatchers",
                              ![s].content = repo[P(s)],
                              ![s].todo = HooksOf[repo[P(s)]]]
       \/ ~InstallAllowed(P(s), ps[s].mode) /\ Leave(s)
    /\ UNCHANGED <<inRepo, onHost, consented>>

Written(mode, h) ==
    (IF mode = "chain" THEN {"fallback"} ELSE Places) \X {h}

WriteDispatcher(s) ==
    /\ At(s, "dispatchers")
    /\ \E h \in ps[s].todo :
          /\ fallback' = [fallback EXCEPT ![P(s)][h] = "hazmat"]
          /\ managed' = IF ps[s].mode = "chain" THEN managed
                        ELSE [managed EXCEPT ![P(s)] = @ \cup {h}]
          /\ kept' = [kept EXCEPT ![P(s)] = @ \ Written(ps[s].mode, h)]
          /\ ps' = [ps EXCEPT ![s].todo = @ \ {h}]
    /\ UNCHANGED <<repo, hooksPath, owner, onHost, consented>>

WriteWrapper(s) ==
    /\ At(s, "dispatchers") /\ ps[s].todo = {}
    /\ wrapper' = [wrapper EXCEPT ![P(s)] = TRUE]
    /\ kept' = [kept EXCEPT ![P(s)] = @ \ {<<"wrapper">>}]
    /\ IF ps[s].mode = "chain"
         THEN ps' = [ps EXCEPT ![s].pc = "blocks",
                               ![s].todo = HooksOf[ps[s].content]]
         ELSE Go(s, "path")
    /\ UNCHANGED <<repo, hooksPath, managed, fallback, owner, approvals, snapshot,
                   consented>>

SetHooksPath(s) ==
    /\ At(s, "path")
    /\ hooksPath' = [hooksPath EXCEPT ![P(s)] = "managed"]
    /\ kept' = [kept EXCEPT ![P(s)] = @ \ {<<"path">>}]
    /\ Go(s, "cLoad")
    /\ UNCHANGED <<repo, managed, fallback, owner, onHost, consented>>

\* installProjectHookChainBlock, then the hash of the file it leaves.
BodyOf(file) == IF file = NoFile THEN Bare ELSE file.body

Mangled(file) == file # NoFile /\ file.mark = "mangled"

AddBlock(s) ==
    /\ At(s, "blocks")
    /\ \E h \in ps[s].todo :
          LET file == owner[P(s)][h]
          IN  \/ Mangled(file) /\ Leave(s) /\ UNCHANGED owner
              \/ /\ ~Mangled(file)
                 /\ owner' = [owner EXCEPT ![P(s)][h] =
                                 [body |-> BodyOf(file), mark |-> "block"]]
                 /\ ps' = [ps EXCEPT ![s].todo = @ \ {h},
                                     ![s].chain = @ \cup {<<h, BodyOf(file)>>}]
    /\ UNCHANGED <<repo, hooksPath, managed, fallback, kept, onHost, consented>>

DropManagedDir(s) ==
    /\ At(s, "blocks") /\ ps[s].todo = {}
    /\ managed' = [managed EXCEPT ![P(s)] = {}]
    /\ kept' = [kept EXCEPT ![P(s)] = @ \ ({"managed"} \X Hook)]
    /\ Go(s, "cLoad")
    /\ UNCHANGED <<repo, hooksPath, fallback, owner, onHost, consented>>

\* updateProjectHookApprovalChain
LoadForChain(s) ==
    /\ At(s, "cLoad")
    /\ ps' = [ps EXCEPT ![s].pc = "cSave", ![s].loaded = approvals]
    /\ UNCHANGED <<inRepo, onHost, consented>>

\* Slip: taking over from an owner leaves the old chain in the record.
SaveChainKept(s) ==
    /\ At(s, "cSave")
    /\ \/ ps[s].loaded[P(s)] = NoRecord /\ UNCHANGED approvals
       \/ /\ ps[s].loaded[P(s)] # NoRecord
          /\ approvals' = IF ps[s].mode = "chain"
                            THEN [ps[s].loaded EXCEPT ![P(s)].chain = ps[s].chain]
                            ELSE ps[s].loaded
    /\ Leave(s)
    /\ UNCHANGED <<inRepo, wrapper, snapshot, consented>>

SaveChain(s) ==
    /\ At(s, "cSave")
    /\ \/ ps[s].loaded[P(s)] = NoRecord /\ UNCHANGED approvals
       \/ /\ ps[s].loaded[P(s)] # NoRecord
          /\ approvals' = [ps[s].loaded EXCEPT ![P(s)].chain =
                              IF ps[s].mode = "chain" THEN ps[s].chain ELSE NoChain]
    /\ Leave(s)
    /\ UNCHANGED <<inRepo, wrapper, snapshot, consented>>

-----------------------------------------------------------------------------
(* Removal: uninstallProjectHookRuntime, removeProjectHookApproval and     *)
(* rollbackProjectHooks                                                    *)

UninstallInspect(s) ==
    /\ At(s, "uInspect")
    /\ IF repo[P(s)] = Malformed THEN Leave(s) ELSE Go(s, "uLoad")
    /\ UNCHANGED <<inRepo, onHost, consented>>

UninstallLoad(s) ==
    /\ At(s, "uLoad")
    /\ ps' = [ps EXCEPT ![s].pc = "uPath", ![s].rec = approvals[P(s)]]
    /\ UNCHANGED <<inRepo, onHost, consented>>

\* Slip: the approval goes first, and with it the list of what to remove.
UnsetHooksPathApprovalFirst(s) ==
    /\ At(s, "uPath")
    /\ hooksPath' = [hooksPath EXCEPT ![P(s)] = IF @ = "managed" THEN "unset" ELSE @]
    /\ kept' = [kept EXCEPT ![P(s)] = @ \ {<<"path">>}]
    /\ approvals' = [approvals EXCEPT ![P(s)] = NoRecord]
    /\ ps' = [ps EXCEPT ![s].pc = "uBlocks",
                        ![s].todo = {c[1] : c \in ChainOf(ps[s].rec)}]
    /\ UNCHANGED <<repo, managed, fallback, owner, wrapper, snapshot, consented>>

UnsetHooksPath(s) ==
    /\ At(s, "uPath")
    /\ hooksPath' = [hooksPath EXCEPT ![P(s)] = IF @ = "managed" THEN "unset" ELSE @]
    /\ kept' = [kept EXCEPT ![P(s)] = @ \ {<<"path">>}]
    /\ ps' = [ps EXCEPT ![s].pc = "uBlocks",
                        ![s].todo = {c[1] : c \in ChainOf(ps[s].rec)}]
    /\ UNCHANGED <<repo, managed, fallback, owner, onHost, consented>>

RemoveBlock(s) ==
    /\ At(s, "uBlocks")
    /\ \/ \E h \in ps[s].todo :
             LET file == owner[P(s)][h]
             IN  \/ Mangled(file) /\ Finish(s) /\ UNCHANGED owner
                 \/ /\ ~Mangled(file)
                    /\ owner' = IF file = NoFile THEN owner
                                ELSE [owner EXCEPT ![P(s)][h].mark = "clean"]
                    /\ ps' = [ps EXCEPT ![s].todo = @ \ {h}]
       \/ /\ ps[s].todo = {}
          /\ ps' = [ps EXCEPT ![s].pc = "uHooks",
                              ![s].todo = HooksOfRecord(ps[s].rec)]
          /\ UNCHANGED owner
    /\ UNCHANGED <<repo, hooksPath, managed, fallback, kept, onHost, consented>>

\* What of Hazmat's is in the repository.
InRepository(p) ==
    {<<"managed", h>> : h \in managed[p]} \cup
    {<<"fallback", h>> : h \in {g \in Hook : fallback[p][g] = "hazmat"}} \cup
    {t \in {<<"path">>} : hooksPath[p] = "managed"}

\* Where .git is not a directory, all that is in it is passed over.
SkipRepository(s) ==
    /\ At(s, "uPath") /\ May("noGitDir")
    /\ kept' = [kept EXCEPT ![P(s)] = @ \cup InRepository(P(s))]
    /\ Go(s, "uWrapper")
    /\ UNCHANGED <<repo, hooksPath, managed, fallback, owner, onHost, consented>>

\* os.Remove by name, then RemoveAll of the managed directory.  A removal that
\* fails is passed over.
RemoveDispatcher(s) ==
    /\ At(s, "uHooks")
    /\ \/ \E h \in ps[s].todo, stuck \in SUBSET Places :
             /\ stuck # {} => May("stuckFile")
             /\ managed' = IF "managed" \in stuck THEN managed
                           ELSE [managed EXCEPT ![P(s)] = @ \ {h}]
             /\ fallback' = IF "fallback" \in stuck THEN fallback
                            ELSE [fallback EXCEPT ![P(s)][h] = "none"]
             /\ kept' = [kept EXCEPT ![P(s)] =
                            (@ \ ((Places \ stuck) \X {h}))
                            \cup ((stuck \X {h}) \cap InRepository(P(s)))]
             /\ ps' = [ps EXCEPT ![s].todo = @ \ {h}]
       \/ /\ ps[s].todo = {}
          /\ \E stuck \in SUBSET managed[P(s)] :
                /\ stuck # {} => May("stuckFile")
                /\ managed' = [managed EXCEPT ![P(s)] = stuck]
                /\ kept' = [kept EXCEPT ![P(s)] =
                               (@ \ ({"managed"} \X Hook)) \cup ({"managed"} \X stuck)]
          /\ Go(s, "uWrapper")
          /\ UNCHANGED fallback
    /\ UNCHANGED <<repo, hooksPath, owner, onHost, consented>>

RemoveWrapper(s) ==
    /\ At(s, "uWrapper")
    /\ \/ /\ wrapper' = [wrapper EXCEPT ![P(s)] = FALSE]
          /\ kept' = [kept EXCEPT ![P(s)] = @ \ {<<"wrapper">>}]
       \/ /\ May("stuckFile") /\ wrapper[P(s)]
          /\ kept' = [kept EXCEPT ![P(s)] = @ \cup {<<"wrapper">>}]
          /\ UNCHANGED wrapper
    /\ Go(s, "uaLoad")
    /\ UNCHANGED <<repo, hooksPath, managed, fallback, owner, approvals, snapshot,
                   consented>>

LoadForRemoval(s) ==
    /\ At(s, "uaLoad")
    /\ ps' = [ps EXCEPT ![s].pc = "uaSave", ![s].loaded = approvals]
    /\ UNCHANGED <<inRepo, onHost, consented>>

SaveRemoval(s) ==
    /\ At(s, "uaSave")
    /\ approvals' = [ps[s].loaded EXCEPT ![P(s)] = NoRecord]
    /\ Go(s, "uSnap")
    /\ UNCHANGED <<inRepo, wrapper, snapshot, consented>>

RemovedBundles(s) ==
    {b \in Bundle : /\ ps[s].loaded[P(s)] # NoRecord
                    /\ b = ps[s].loaded[P(s)].bundle}

RemoveSnapshot(s) ==
    /\ At(s, "uSnap")
    /\ snapshot' = [snapshot EXCEPT ![P(s)] =
                       [b \in Bundle |-> IF b \in RemovedBundles(s) THEN "none" ELSE @[b]]]
    /\ consented' = [consented EXCEPT ![P(s)] = @ \ Withdrawn(s, P(s), RemovedBundles(s))]
    /\ Finish(s)
    /\ UNCHANGED <<inRepo, wrapper, approvals>>

\* Rollback sweeps the projects that the approvals file names, then drops the
\* file and the directory of snapshots and wrappers; where either cannot be
\* removed it warns and goes on.
RollbackLoad(s) ==
    /\ At(s, "rbLoad")
    /\ ps' = [ps EXCEPT ![s].pc = "rbNext",
                        ![s].left = {p \in Project : approvals[p] # NoRecord}]
    /\ UNCHANGED <<inRepo, onHost, consented>>

RollbackNext(s) ==
    /\ At(s, "rbNext")
    /\ \/ \E p \in ps[s].left :
             ps' = [ps EXCEPT ![s].pc = "uLoad", ![s].proj = p,
                              ![s].left = @ \ {p}, ![s].todo = {}]
       \/ ps[s].left = {} /\ Go(s, "rbFile")
    /\ UNCHANGED <<inRepo, onHost, consented>>

RollbackFile(s) ==
    /\ At(s, "rbFile")
    /\ approvals' = NoApprovals \/ (May("stuckState") /\ UNCHANGED approvals)
    /\ Go(s, "rbRoot")
    /\ UNCHANGED <<inRepo, wrapper, snapshot, consented>>

RollbackRoot(s) ==
    /\ At(s, "rbRoot")
    /\ \/ /\ snapshot' = [p \in Project |-> [b \in Bundle |-> "none"]]
          /\ wrapper' = [p \in Project |-> FALSE]
          /\ kept' = [p \in Project |-> kept[p] \ {<<"wrapper">>}]
          /\ consented' = [p \in Project |-> consented[p] \ Withdrawn(s, p, Bundle)]
       \/ May("stuckState") /\ UNCHANGED <<snapshot, wrapper, kept, consented>>
    /\ Leave(s)
    /\ UNCHANGED <<repo, hooksPath, managed, fallback, owner, approvals>>

-----------------------------------------------------------------------------
(* Execution: runApprovedProjectHook, reached from a dispatcher            *)

\* Git finds a dispatcher of Hazmat's that may run the hook.  The fallback
\* ones only refuse.
Reaches(p, h) ==
    \/ hooksPath[p] = "managed" /\ h \in managed[p]
    \/ hooksPath[p] = "owner" /\ owner[p][h] # NoFile
       /\ owner[p][h].mark = "block"

Dispatch(s, p, h) ==
    /\ At(s, "idle") /\ "hook" \in Modes
    /\ Overlap \/ \A r \in Process : At(r, "idle")
    /\ Reaches(p, h)
    /\ Valid(p) /\ h \in HooksOf[approvals[p].bundle]
    /\ ps' = [ps EXCEPT ![s] = [Idle EXCEPT !.pc = "exec", !.proj = p,
                                            !.content = approvals[p].bundle]]
    /\ UNCHANGED <<inRepo, onHost, consented>>

Execute(s) ==
    /\ At(s, "exec")
    /\ Leave(s)
    /\ UNCHANGED <<inRepo, onHost, consented>>

-----------------------------------------------------------------------------
(* The contained agent (external), the host user (external), and crashes   *)

AgentMay(move) ==
    /\ move \in AgentMoves
    /\ \/ AgentEdits = "always"
       \/ AgentEdits = "idle" /\ \A s \in Process : At(s, "idle")

AgentEditsBundle(p, b) ==
    /\ \/ b \in Bundle \cup {NoBundle} /\ AgentMay("bundle")
       \/ b = Malformed /\ AgentMay("break")
    /\ repo' = [repo EXCEPT ![p] = b]
    /\ UNCHANGED <<hooksPath, managed, fallback, owner, kept, onHost,
                   consented, ps>>

AgentReroutes(p, path) ==
    /\ AgentMay("path")
    /\ hooksPath' = [hooksPath EXCEPT ![p] = path]
    /\ UNCHANGED <<repo, managed, fallback, owner, kept, onHost,
                   consented, ps>>

\* Edits inside the repository reach the hook files of the owner directory.
AgentEditsOwner(p, h, file) ==
    /\ AgentMay("owner")
    /\ owner' = [owner EXCEPT ![p][h] = file]
    /\ UNCHANGED <<repo, hooksPath, managed, fallback, kept, onHost,
                   consented, ps>>

\* The command is killed, or a write fails and it returns.  os.WriteFile
\* truncates first and RemoveAll goes file by file.
Crash(s) ==
    /\ May("crash") /\ ~At(s, "idle")
    /\ Leave(s)
    /\ \/ UNCHANGED <<approvals, snapshot>>
       \/ /\ May("tornSave") /\ ps[s].pc \in {"aSave", "cSave", "uaSave"}
          /\ approvals' = NoApprovals
          /\ UNCHANGED snapshot
       \/ /\ May("partialRemoval")
          /\ \E b \in IF At(s, "stale") THEN StaleBundles(s)
                      ELSE IF At(s, "uSnap") THEN RemovedBundles(s) ELSE {} :
                snapshot[P(s)][b] # "none"
                /\ snapshot' = [snapshot EXCEPT ![P(s)][b] = "partial"]
          /\ UNCHANGED approvals
    /\ UNCHANGED <<inRepo, wrapper, consented>>

Install(s) ==
    \/ Inspect(s) \/ Prompt(s) \/ WriteSnapshot(s) \/ LoadApprovals(s)
    \/ SaveApproval(s) \/ RemoveStale(s) \/ Build(s) \/ WriteDispatcher(s)
    \/ WriteWrapper(s) \/ SetHooksPath(s) \/ AddBlock(s)
    \/ DropManagedDir(s) \/ LoadForChain(s) \/ SaveChain(s)

Uninstall(s) ==
    \/ UninstallInspect(s) \/ UninstallLoad(s) \/ UnsetHooksPath(s)
    \/ SkipRepository(s) \/ RemoveBlock(s) \/ RemoveDispatcher(s) \/ RemoveWrapper(s)
    \/ LoadForRemoval(s) \/ SaveRemoval(s) \/ RemoveSnapshot(s)

Rollback(s) ==
    \/ RollbackLoad(s) \/ RollbackNext(s) \/ RollbackFile(s) \/ RollbackRoot(s)

Agent ==
    \E p \in Project :
       \/ \E b \in Bundle \cup {NoBundle, Malformed} : AgentEditsBundle(p, b)
       \/ \E path \in {"unset", "managed", "owner"} : AgentReroutes(p, path)
       \/ \E h \in Hook, file \in OwnerFile : AgentEditsOwner(p, h, file)

Next ==
    \/ \E s \in Process :
          \/ \E p \in Project, mode \in Modes : Begin(s, p, mode)
          \/ \E p \in Project, h \in Hook : Dispatch(s, p, h)
          \/ Install(s) \/ Uninstall(s) \/ Rollback(s)
          \/ Execute(s) \/ Crash(s)
    \/ Agent

Spec == Init /\ [][Next]_vars

-----------------------------------------------------------------------------
(* Properties                                                              *)

\* Every file holds one of the contents the model knows, every command is at
\* one of its steps.
TypeOK ==
    /\ repo \in [Project -> Bundle \cup {NoBundle, Malformed}]
    /\ hooksPath \in [Project -> {"unset", "managed", "owner"}]
    /\ managed \in [Project -> SUBSET Hook]
    /\ fallback \in [Project -> [Hook -> {"none", "hazmat", "user"}]]
    /\ owner \in [Project -> [Hook -> OwnerFile]]
    /\ kept \in [Project -> SUBSET Trace]
    /\ wrapper \in [Project -> BOOLEAN]
    /\ approvals \in [Project -> Record \cup {NoRecord}]
    /\ snapshot \in [Project -> [Bundle -> {"none", "partial", "whole"}]]
    /\ consented \in [Project -> SUBSET Bundle]
    /\ ps \in [Process ->
                 [ pc : Steps, mode : AllModes, proj : Project,
                   content : Bundle \cup {NoBundle},
                   rec : Record \cup {NoRecord},
                   loaded : [Project -> Record \cup {NoRecord}],
                   todo : SUBSET Hook, chain : Chain, left : SUBSET Project ]]

\* A hook starts only from content the user has agreed to and has not
\* withdrawn since, whatever the agent edits and however commands overlap.
ApprovedContentOnly ==
    [][\A s \in Process :
         (~At(s, "exec") /\ ps'[s].pc = "exec") =>
            ps'[s].content \in consented[ps'[s].proj]]_vars

\* A recorded approval always has its complete snapshot, even when commands
\* die on the way: the snapshot is there before the record is saved, and the
\* replaced one goes after.
RecordedSnapshotWhole ==
    \A p \in Project :
        approvals[p] # NoRecord => snapshot[p][approvals[p].bundle] = "whole"

\* An install that ends well leaves a runtime that validates, except where the
\* managed directory still has the dispatcher of a hook that the bundle does
\* not declare, because an uninstall before could not remove it.
InstalledValidates ==
    [][\A s \in Process, p \in Project :
         (p = P(s) /\ SaveChain(s) /\ ps[s].loaded[p] # NoRecord) =>
            \/ Valid(p)'
            \/ \E h \in Hook \ HooksOf[repo[p]] : <<"managed", h>> \in kept[p]]_vars

\* When uninstall is done, also after attempts that were cut short, the record
\* is gone, and of the wrapper, the managed hooks path and the dispatchers only
\* that is left which a removal has failed on, or which was passed over because
\* .git was not a directory, and which nothing has written or removed since.
UninstallRemovesRuntime ==
    [][\A s \in Process, p \in Project :
         (p = P(s) /\ RemoveSnapshot(s)) =>
            /\ approvals'[p] = NoRecord
            /\ hooksPath'[p] = "managed" => <<"path">> \in kept'[p]
            /\ \A h \in managed'[p] : <<"managed", h>> \in kept'[p]
            /\ wrapper'[p] => <<"wrapper">> \in kept'[p]
            /\ \A h \in Hook :
                  fallback'[p][h] = "hazmat" => <<"fallback", h>> \in kept'[p]]_vars

\* A hook file in .git/hooks that is not Hazmat's is never replaced or removed.
UserHookPreserved ==
    [][\A p \in Project, h \in Hook :
         fallback[p][h] = "user" => fallback'[p][h] = "user"]_vars

=============================================================================
