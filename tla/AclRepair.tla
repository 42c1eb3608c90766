------------------------------- MODULE AclRepair -------------------------------
(***************************************************************************)
(* The collaborative ACL of a project's files (workspace_acl.go,           *)
(* repair.go).  A session that finds the root without the ACL repairs a    *)
(* bounded, shallow part of the tree; the operator's backfill repairs all  *)
(* of it.  Both first collect what is there, then grant: the root, the     *)
(* directories, the files, each an operation that may fail, while the host *)
(* user and the agent create, remove and replace files.                    *)
(***************************************************************************)
EXTENDS Naturals, FiniteSets

CONSTANTS AclRoot,       \* the project directory
          AclPath,       \* the paths below it
          AclKind,       \* AclKind[p]: "dir", "skipped", "file", "link" or "other"
          AclParent,     \* the directory of a path
          AclAbove,      \* the directories from the root down to a path
          AclDepth,      \* how far below the root a directory is
          AclMaxDepth,   \* projectACLStartupMaxDepth
          AclMaxTargets, \* projectACLStartupMaxTargets, ...MaxEntries
          AclMaxChanges  \* bound on what others do

AclDir == {AclRoot} \cup {p \in AclPath : AclKind[p] \in {"dir", "skipped"}}

\* The paths form a tree.
ASSUME AclTreeAssumption ==
    /\ AclRoot \notin AclPath /\ AclMaxDepth \in Nat
    /\ AclKind \in [AclPath -> {"dir", "skipped", "file", "link", "other"}]
    /\ AclParent \in [AclPath -> AclDir] /\ AclDepth \in [AclDir -> Nat]
    /\ AclAbove \in [AclPath -> SUBSET AclDir]
    /\ \A p \in AclPath :
         /\ AclRoot \in AclAbove[p]
         /\ AclAbove[p] = {AclParent[p]} \cup
              (IF AclParent[p] = AclRoot THEN {} ELSE AclAbove[AclParent[p]])
         /\ \A d \in AclAbove[p] : d = AclParent[p] \/
              \E c \in AclAbove[p] \cap AclPath :
                AclParent[c] = d /\ AclDepth[c] = AclDepth[d] + 1

VARIABLES
    aclHas,       \* "absent", or what ACL the path has: "none", "plain", "inherit"
    aclMine,      \* the paths that the host user owns
    aclMode,      \* "startup" or "backfill"
    aclStep,      \* "idle", "collect", "root", "paths", "done" or "failed"
    aclQueue,     \* the directories still to read
    aclTodo,      \* the targets still to be granted
    aclFailed,    \* has anything failed?
    aclTruncated, \* were there more targets than the startup repair takes?
    aclSince,     \* what lost its grant, or came without one, since it began
    aclChanges

aclVars == <<aclHas, aclMine, aclMode, aclStep, aclQueue, aclTodo, aclFailed,
             aclTruncated, aclSince, aclChanges>>

aclJob == <<aclMode, aclStep, aclQueue, aclTodo, aclFailed, aclTruncated>>

AclPresent(p) == aclHas[p] # "absent"

\* The rows that satisfy the grant for a path: on a directory they inherit.
Wanted(p) == IF p \in AclDir THEN {"inherit"} ELSE {"plain", "inherit"}

ACLSatisfied(p) == aclHas[p] \in Wanted(p)

\* What chmod +a makes of it, and what a new path gets from its directory.
Granted(p) == IF p \in AclDir THEN "inherit" ELSE "plain"

Inherits(p) == IF aclHas[AclParent[p]] = "inherit" THEN Granted(p) ELSE "none"

AclInit ==
    /\ aclHas \in [AclPath \cup {AclRoot} -> {"absent", "none", "plain", "inherit"}]
    /\ aclHas[AclRoot] # "absent"
    /\ \A p \in AclPath : /\ AclPresent(p) => \A d \in AclAbove[p] : AclPresent(d)
                          /\ aclHas[p] \in {"absent", "none", Granted(p)}
    /\ aclMine \in SUBSET (AclPath \cup {AclRoot})
    /\ aclMode = "startup" /\ aclStep = "idle" /\ aclQueue = {} /\ aclTodo = {}
    /\ aclFailed = FALSE /\ aclTruncated = FALSE
    /\ aclSince = {} /\ aclChanges = 0

----------------------------------------------------------------------------
(* Collecting.                                                             *)

AclBegin(mode) ==
    /\ aclStep \in {"idle", "done", "failed"}
    /\ aclMode' = mode /\ aclStep' = "collect"
    /\ aclQueue' = {AclRoot} /\ aclTodo' = {}
    /\ aclFailed' = FALSE /\ aclTruncated' = FALSE /\ aclSince' = {}
    /\ UNCHANGED <<aclHas, aclMine, aclChanges>>

\* The fast path: a root that has the ACL is taken for a repaired project.
ensureProjectWritable == ~ACLSatisfied(AclRoot) /\ AclBegin("startup")

runProjectACLBackfillCommand == AclBegin("backfill")

Entries(d) == {p \in AclPath : AclParent[p] = d /\ AclPresent(p)}

\* Links are never granted, and the backfill takes only regular files.
Collected(p) ==
    /\ AclKind[p] # "link"
    /\ aclMode = "backfill" => AclKind[p] # "other"

\* Directories whose contents are read.
Entered(d) ==
    AclKind[d] = "dir" \/ (aclMode = "backfill" /\ AclKind[d] = "skipped")

Shallow(d) == aclMode = "backfill" \/ AclDepth[d] < AclMaxDepth

\* One directory is read, or cannot be; past the bound nothing more is taken.
Scan(d) ==
    /\ aclStep = "collect" /\ d \in aclQueue
    /\ \/ /\ Shallow(d)
          /\ \E found \in SUBSET Entries(d) :
               /\ \/ found = Entries(d) /\ UNCHANGED aclTruncated
                  \/ /\ aclMode = "startup" /\ aclTruncated' = TRUE
                     /\ Cardinality(aclTodo \cup found) >= AclMaxTargets
               /\ aclTodo' = aclTodo \cup {p \in found : Collected(p)}
               /\ aclQueue' = IF aclTruncated' THEN {} ELSE (aclQueue \ {d})
                                 \cup {p \in found \cap AclDir : Entered(p)}
          /\ UNCHANGED aclFailed
       \/ /\ Shallow(d) /\ aclFailed' = TRUE
          /\ aclQueue' = aclQueue \ {d} /\ UNCHANGED <<aclTodo, aclTruncated>>
       \/ /\ ~Shallow(d) /\ aclQueue' = aclQueue \ {d}
          /\ UNCHANGED <<aclTodo, aclTruncated, aclFailed>>
    /\ UNCHANGED <<aclHas, aclMine, aclMode, aclStep, aclSince, aclChanges>>

\* A backfill whose plan has failures, or is only shown, or is declined, ends.
PlanIsMade ==
    /\ aclStep = "collect" /\ aclQueue = {}
    /\ \/ aclMode = "startup" /\ aclStep' = "root"
       \/ aclMode = "backfill" /\ ~aclFailed /\ aclStep' = "root"
       \/ aclMode = "backfill" /\ aclStep' = "failed"
    /\ UNCHANGED <<aclHas, aclMine, aclMode, aclQueue, aclTodo, aclFailed,
                   aclTruncated, aclSince, aclChanges>>

----------------------------------------------------------------------------
(* Granting.                                                               *)

\* ensureACL by the host user: nothing to do, done, or not permitted.
ensureProjectACL(p) ==
    \/ ACLSatisfied(p) /\ UNCHANGED <<aclHas, aclFailed>>
    \/ /\ AclPresent(p) /\ ~ACLSatisfied(p) /\ p \in aclMine
       /\ aclHas' = [aclHas EXCEPT ![p] = Granted(p)] /\ UNCHANGED aclFailed
    \/ ~ACLSatisfied(p) /\ aclFailed' = TRUE /\ UNCHANGED aclHas

GrantRoot ==
    /\ aclStep = "root" /\ ensureProjectACL(AclRoot) /\ aclStep' = "paths"
    /\ UNCHANGED <<aclMine, aclMode, aclQueue, aclTodo, aclTruncated, aclSince,
                   aclChanges>>

\* Directories before files.
Due == IF aclTodo \cap AclDir # {} THEN aclTodo \cap AclDir ELSE aclTodo

\* Slip: after a batch that failed its paths are not tried one by one.
GrantBatchOnly ==
    /\ aclStep = "paths" /\ UNCHANGED aclStep
    /\ \E p \in Due :
         /\ aclTodo' = aclTodo \ {p}
         /\ IF p \in aclMine /\ AclPresent(p) /\ ~ACLSatisfied(p)
              THEN aclHas' = [aclHas EXCEPT ![p] = Granted(p)] ELSE UNCHANGED aclHas
    /\ UNCHANGED <<aclMine, aclMode, aclQueue, aclFailed, aclTruncated, aclSince,
                   aclChanges>>

\* One path of a batch: chmod goes on after a path it could not change, and
\* the batch that failed is tried again path by path.
GrantPath ==
    /\ aclStep = "paths" /\ UNCHANGED aclStep
    /\ \E p \in Due : aclTodo' = aclTodo \ {p} /\ ensureProjectACL(p)
    /\ UNCHANGED <<aclMine, aclMode, aclQueue, aclTruncated, aclSince, aclChanges>>

\* Any failure makes the whole repair an error.
RepairEnds ==
    /\ aclStep = "paths" /\ aclTodo = {}
    /\ aclStep' = IF aclFailed THEN "failed" ELSE "done"
    /\ UNCHANGED <<aclHas, aclMine, aclMode, aclQueue, aclTodo, aclFailed,
                   aclTruncated, aclSince, aclChanges>>

RepairDies ==
    /\ aclStep \in {"collect", "root", "paths"}
    /\ aclStep' = "failed" /\ aclQueue' = {} /\ aclTodo' = {}
    /\ UNCHANGED <<aclHas, aclMine, aclMode, aclFailed, aclTruncated, aclSince,
                   aclChanges>>

----------------------------------------------------------------------------
(* What the host user and the agent do meanwhile.                          *)

Others == aclChanges < AclMaxChanges /\ aclChanges' = aclChanges + 1
            /\ UNCHANGED aclJob

\* A new path inherits from a directory that has the inheritable grant.
CreatePath(p) ==
    /\ Others /\ ~AclPresent(p) /\ AclPresent(AclParent[p])
    /\ aclHas' = [aclHas EXCEPT ![p] = Inherits(p)]
    /\ aclMine' \in {aclMine \cup {p}, aclMine \ {p}}
    /\ aclSince' = IF Inherits(p) = "none" THEN aclSince \cup {p} ELSE aclSince

RemovePath(p) ==
    /\ Others /\ AclPresent(p) /\ \A c \in AclPath : AclParent[c] = p => ~AclPresent(c)
    /\ aclHas' = [aclHas EXCEPT ![p] = "absent"]
    /\ UNCHANGED <<aclMine, aclSince>>

\* A file moved over it, or chmod -N: the ACL is gone.
StripPath(p) ==
    /\ Others /\ aclHas[p] \in {"plain", "inherit"}
    /\ aclHas' = [aclHas EXCEPT ![p] = "none"]
    /\ aclSince' = aclSince \cup {p} /\ UNCHANGED aclMine

AclNext ==
    \/ ensureProjectWritable \/ runProjectACLBackfillCommand
    \/ \E d \in AclDir : Scan(d)
    \/ PlanIsMade \/ GrantRoot \/ GrantPath \/ RepairEnds \/ RepairDies
    \/ \E p \in AclPath : CreatePath(p) \/ RemovePath(p)
    \/ \E p \in AclPath \cup {AclRoot} : StripPath(p)

AclSpec == AclInit /\ [][AclNext]_aclVars

----------------------------------------------------------------------------
AclTypeOK ==
    /\ aclHas \in [AclPath \cup {AclRoot} -> {"absent", "none", "plain", "inherit"}]
    /\ aclMine \subseteq AclPath \cup {AclRoot} /\ aclSince \subseteq AclPath \cup {AclRoot}
    /\ aclMode \in {"startup", "backfill"}
    /\ aclStep \in {"idle", "collect", "root", "paths", "done", "failed"}
    /\ aclQueue \subseteq AclDir /\ aclTodo \subseteq AclPath
    /\ aclFailed \in BOOLEAN /\ aclTruncated \in BOOLEAN

\* What a repair of this kind is for: what is no link, in directories that are
\* not left out, as deep as it goes.
InReach(p) ==
    /\ Collected(p)
    /\ \A d \in AclAbove[p] : Shallow(d) /\ (d # AclRoot => Entered(d))

\* A repair that reports neither a failure nor that it stopped at its bound has
\* reached everything in its reach: the root, what it found, and what was made
\* while it ran in a directory that had its grant, unless the grant was taken
\* away since, or the path was made where there was none to inherit.
RepairReachesReported ==
    aclStep = "done" /\ ~aclTruncated =>
        /\ ACLSatisfied(AclRoot) \/ AclRoot \in aclSince
        /\ \A p \in AclPath : AclPresent(p) /\ InReach(p) =>
              ACLSatisfied(p) \/ p \in aclSince
=============================================================================
