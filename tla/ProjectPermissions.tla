------------------------- MODULE ProjectPermissions -------------------------
(***************************************************************************)
(* The permissions that let the host user and the agent share a project:   *)
(* what a session finds out about them when it is prepared (with the two   *)
(* caches that spare it the probes), the host mutations it plans from      *)
(* that and runs before it launches, and the repair after the session.     *)
(* Anything else on the host may change a path at any time.                *)
(***************************************************************************)
EXTENDS Naturals, FiniteSets

CONSTANTS Session, MaxChanges, NoEntry

\* A cache without an entry is no state of a path, and no entry.
ASSUME PermsAssumption ==
    NoEntry \notin Nat /\ NoEntry \notin [at : Nat, has : BOOLEAN]

\* What is probed: the project root, an ancestor of an exposed directory or
\* of the launch helper, and the Git metadata paths taken as one.
Path == {"project", "ancestor", "git"}
Probed == {"project", "ancestor"}

VARIABLES
    grant,    \* grant[p]: the path carries the access the agent needs
    ctime,    \* ctime[p]: changes whenever the path's metadata does
    owned,    \* the paths whose permissions the host user may change
    trusted,  \* the agent's Git trusts the repository (safe.directory)
    cache,    \* the ACL cache file: cache[p] is an entry or NoEntry
    gitCache, \* the Git metadata cache file: the ctime found healthy
    step,     \* step[s]: where session s is
    copy,     \* copy[s]: the ACL cache as session s loaded it
    seen,     \* seen[s]: the grants session s believes in
    plan,     \* plan[s]: the host mutations it planned
    healthy,  \* healthy[s]: its last probe of the Git metadata
    warned,   \* warned[s]: the mutations that failed with a warning
    changes,  \* changes by others so far
    touched,  \* touched[s]: what others changed since s was prepared
    window,   \* window[s]: what others changed since s last probed
    torn      \* paths changed between a probe and the stat recorded with it

permVars == <<grant, ctime, owned, trusted, cache, gitCache, step, copy, seen,
              plan, healthy, warned, changes, touched, window, torn>>
hostVars == <<grant, ctime, trusted>>

Entry == [at : Nat, has : BOOLEAN]

Init ==
    /\ grant \in [Path -> BOOLEAN] /\ ctime = [p \in Path |-> 0]
    /\ owned \in {Path, {}} /\ trusted \in BOOLEAN
    /\ cache \in {[p \in Probed |-> NoEntry],
                  [p \in Probed |-> [at |-> 0, has |-> grant[p]]]}
    /\ gitCache \in IF grant["git"] THEN {NoEntry, 0} ELSE {NoEntry}
    /\ step = [s \in Session |-> "probe"]
    /\ copy = [s \in Session |-> [p \in Probed |-> NoEntry]]
    /\ seen = [s \in Session |-> [p \in Probed |-> FALSE]]
    /\ plan = [s \in Session |-> {}] /\ healthy = [s \in Session |-> FALSE]
    /\ warned = [s \in Session |-> {}]
    /\ changes = 0 /\ touched = [s \in Session |-> {}]
    /\ window = [s \in Session |-> {}] /\ torn = {}

Go(s, here, there) == step[s] = here /\ step' = [step EXCEPT ![s] = there]

----------------------------------------------------------------------------
(* Preparing: readStartupACLsForPaths and the mutation plan.               *)

\* Slip: an entry is used whatever has become of its path.
HitWithoutState(c, p) == c[p] # NoEntry

\* resultForPath: an entry counts while the path has the recorded state.
Hit(c, p) == c[p] # NoEntry /\ c[p].at = ctime[p]

\* Load the cache and read the ACLs of the paths it does not answer for.
Probe(s) ==
    /\ Go(s, "probe", "record")
    /\ copy' = [copy EXCEPT ![s] = [p \in Probed |->
           IF Hit(cache, p) THEN cache[p] ELSE NoEntry]]
    /\ seen' = [seen EXCEPT ![s] = [p \in Probed |->
           IF Hit(cache, p) THEN cache[p].has ELSE grant[p]]]
    /\ touched' = [touched EXCEPT ![s] = {}]
    /\ window' = [window EXCEPT ![s] = {}]
    /\ UNCHANGED <<hostVars, owned, cache, gitCache, plan, healthy, warned,
                   changes, torn>>

\* updateFromResults and the save: what was read is recorded with the state
\* the path has by now, and the file is replaced by this session's copy.
Record(s) ==
    /\ Go(s, "record", "planGit")
    /\ LET misses == {p \in Probed : copy[s][p] = NoEntry} IN
       /\ cache' = IF misses = {} THEN cache ELSE
              [p \in Probed |-> IF p \in misses
                   THEN [at |-> ctime[p], has |-> seen[s][p]] ELSE copy[s][p]]
       /\ torn' = torn \cup (misses \cap window[s])
    /\ UNCHANGED <<hostVars, owned, gitCache, copy, seen, plan, healthy, warned,
                   changes, touched, window>>

GitStep == [planGit |-> "noteGit", fixGit |-> "noteFix", postGit |-> "notePost"]

\* Where a check of the Git metadata leads.
AfterGit(here, ok) ==
    CASE here = "planGit" -> "planned"
      [] here = "fixGit" -> IF ok THEN "trust" ELSE "repair"
      [] here = "postGit" -> IF ok THEN "ended" ELSE "postRepair"

\* collectGitPermissionProblemsCached: a healthy entry for the paths as they
\* are answers; otherwise they are probed.
CheckGit(s) ==
    \E here \in DOMAIN GitStep :
        /\ step[s] = here
        /\ LET known == gitCache = ctime["git"] IN
           /\ healthy' = [healthy EXCEPT ![s] = known \/ grant["git"]]
           /\ step' = [step EXCEPT ![s] =
                  IF known THEN AfterGit(here, TRUE) ELSE GitStep[here]]
        /\ window' = [window EXCEPT ![s] = {}]
        /\ UNCHANGED <<hostVars, owned, cache, gitCache, copy, seen, plan,
                       warned, changes, touched, torn>>

\* rememberGitMetadataHealth, with the states the paths have by now.
NoteGit(s) ==
    \E here \in DOMAIN GitStep :
        /\ step[s] = GitStep[here]
        /\ gitCache' = IF healthy[s] THEN ctime["git"] ELSE NoEntry
        /\ step' = [step EXCEPT ![s] = AfterGit(here, healthy[s])]
        /\ torn' = IF healthy[s] THEN torn \cup (window[s] \cap {"git"}) ELSE torn
        /\ UNCHANGED <<hostVars, owned, cache, copy, seen, plan, healthy, warned,
                       changes, touched, window>>

\* buildNativeSessionMutationPlan: one mutation for each thing found wanting.
Plan(s) ==
    /\ Go(s, "planned", "apply")
    /\ plan' = [plan EXCEPT ![s] =
           {p \in Probed : ~seen[s][p]}
           \cup (IF healthy[s] THEN {} ELSE {"git"})
           \cup (IF trusted THEN {} ELSE {"trust"})]
    /\ UNCHANGED <<hostVars, owned, cache, gitCache, copy, seen, healthy, warned,
                   changes, touched, window, torn>>

----------------------------------------------------------------------------
(* Running the plan.                                                       *)

\* chmod +a by the owner of a path.
Grant(ps) ==
    /\ grant' = [p \in Path |-> grant[p] \/ (p \in ps /\ p \in owned)]
    /\ ctime' = [p \in Path |->
           IF p \in ps \cap owned /\ ~grant[p] THEN ctime[p] + 1 ELSE ctime[p]]

\* ensureProjectWritable, ensureAgentCanTraverseLaunchHelperPath and
\* ensureAgentCanTraverseExposedDirs probe again and set what is missing; a
\* failure is a warning and the launch goes on.
ApplyACLs(s) ==
    /\ Go(s, "apply", IF "git" \in plan[s] THEN "fixGit" ELSE "trust")
    /\ Grant(plan[s] \cap Probed)
    /\ warned' = [warned EXCEPT ![s] = {p \in plan[s] \cap Probed :
                                          ~grant[p] /\ p \notin owned}]
    /\ UNCHANGED <<trusted, owned, cache, gitCache, copy, seen, plan, healthy,
                   changes, touched, window, torn>>

\* applyGitMetadataACLs and the fresh probe that judges it.
RepairGit(s) ==
    /\ step[s] \in {"repair", "postRepair"}
    /\ step' = [step EXCEPT ![s] = IF @ = "repair" THEN "judge" ELSE "postJudge"]
    /\ Grant({"git"})
    /\ healthy' = [healthy EXCEPT ![s] = grant'["git"]]
    /\ window' = [window EXCEPT ![s] = {}]
    /\ UNCHANGED <<trusted, owned, cache, gitCache, copy, seen, plan, warned,
                   changes, touched, torn>>

\* Slip: the Git metadata mutation that fails is a warning like the others.
BrokenGitIsWarning(s) ==
    /\ step[s] \in {"judge", "postJudge"}
    /\ gitCache' = IF healthy[s] THEN ctime["git"] ELSE NoEntry
    /\ step' = [step EXCEPT ![s] = IF @ = "postJudge" THEN "ended" ELSE "trust"]
    /\ UNCHANGED <<hostVars, owned, cache, copy, seen, plan, healthy, warned,
                   changes, touched, window, torn>>

\* The result is remembered; still broken, it fails the launch, and after
\* the session it is only reported.
JudgeGit(s) ==
    /\ step[s] \in {"judge", "postJudge"}
    /\ gitCache' = IF healthy[s] THEN ctime["git"] ELSE NoEntry
    /\ torn' = IF healthy[s] THEN torn \cup (window[s] \cap {"git"}) ELSE torn
    /\ step' = [step EXCEPT ![s] = IF @ = "postJudge" THEN "ended"
                                   ELSE IF healthy[s] THEN "trust" ELSE "failed"]
    /\ UNCHANGED <<hostVars, owned, cache, copy, seen, plan, healthy, warned,
                   changes, touched, window>>

\* ensureAgentGitSafeDirectory: add the entry and read it back.
Trust(s) ==
    /\ step[s] = "trust"
    /\ \/ /\ "trust" \notin plan[s] \/ trusted
          /\ step' = [step EXCEPT ![s] = "running"] /\ UNCHANGED trusted
       \/ /\ "trust" \in plan[s] /\ ~trusted
          /\ \/ trusted' = TRUE /\ step' = [step EXCEPT ![s] = "running"]
             \/ step' = [step EXCEPT ![s] = "failed"] /\ UNCHANGED trusted
    /\ UNCHANGED <<grant, ctime, owned, cache, gitCache, copy, seen, plan,
                   healthy, warned, changes, touched, window, torn>>

\* The contained command ends; its Git operations may have left metadata
\* that the host user cannot share.
EndSession(s) ==
    /\ Go(s, "running", "postGit")
    /\ UNCHANGED <<hostVars, owned, cache, gitCache, copy, seen, plan, healthy,
                   warned, changes, touched, window, torn>>

\* Somebody changes a path: an agent's Git operation, a fresh clone, chmod.
Change(p) ==
    /\ changes < MaxChanges /\ changes' = changes + 1
    /\ grant' \in {[grant EXCEPT ![p] = g] : g \in BOOLEAN}
    /\ ctime' = [ctime EXCEPT ![p] = @ + 1]
    /\ touched' = [s \in Session |-> touched[s] \cup {p}]
    /\ window' = [s \in Session |-> window[s] \cup {p}]
    /\ UNCHANGED <<owned, trusted, cache, gitCache, step, copy, seen, plan,
                   healthy, warned, torn>>

Next ==
    \/ \E s \in Session : Probe(s) \/ Record(s) \/ CheckGit(s) \/ NoteGit(s)
           \/ Plan(s) \/ ApplyACLs(s) \/ RepairGit(s) \/ JudgeGit(s) \/ Trust(s)
           \/ EndSession(s)
    \/ \E p \in Path : Change(p)

Spec == Init /\ [][Next]_permVars

----------------------------------------------------------------------------
TypeOK ==
    /\ grant \in [Path -> BOOLEAN]
    /\ owned \subseteq Path /\ trusted \in BOOLEAN
    /\ cache \in [Probed -> Entry \cup {NoEntry}]
    /\ gitCache \in Nat \cup {NoEntry}
    /\ plan \in [Session -> SUBSET (Path \cup {"trust"})]
    /\ warned \in [Session -> SUBSET Probed]

\* A command never starts on a project whose permissions are wrong unless the
\* session said so, somebody changed the path after the session looked, or
\* a cache holds what was read before a change with the state after it.
StartsRepairedOrWarned ==
    \A s \in Session : step[s] = "running" =>
        \A p \in Path : grant[p] \/ p \in warned[s] \/ p \in touched[s] \/ p \in torn

\* Outside that window an entry that would spare a repair tells the truth,
\* although sessions overwrite each other's copy of the cache.
CacheHitsAreTrue ==
    /\ \A p \in Probed : Hit(cache, p) /\ cache[p].has => grant[p] \/ p \in torn
    /\ gitCache = ctime["git"] => grant["git"] \/ "git" \in torn

\* What the planner believes of a project's permissions is true where it matters.
PermissionsTrue == StartsRepairedOrWarned /\ CacheHitsAreTrue
=============================================================================
