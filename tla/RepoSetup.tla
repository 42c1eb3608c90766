------------------------------ MODULE RepoSetup ------------------------------
(***************************************************************************)
(* Integrations and the remembered setup of a repository: which            *)
(* integrations are active or suggested and what they resolve to, the      *)
(* effects a launch collects from them, from the tools the project names   *)
(* and from earlier denials, the two prompts, the host-owned profile file, *)
(* and the denials a session leaves there. Launches overlap; each reads    *)
(* the profile once, before its prompts, and writes it after them.         *)
(***************************************************************************)
EXTENDS Naturals, FiniteSets

CONSTANTS
    RsSession,   \* hazmat processes that launch in the repository
    MaxLaunches  \* launches by all of them

RepoAssumption == MaxLaunches \in Nat
ASSUME RepoAssumption

\* Effects by where they come from: two suggested integrations, a tool a task
\* file names, and a read and a write that the sandbox denied.
Suggestion == {"t1", "t2"}
Denial == {"d", "w"}
Effect == Suggestion \union Denial \union {"g"}
Record == [remembered : SUBSET Effect, rejected : SUBSET Effect,
           evidence : SUBSET Denial]

\* What the probes find of an integration's runtime: nothing, a directory
\* the agent can execute from, a Homebrew one that needs its permissions
\* repaired, or a path in a credential zone.
Root == {"missing", "clean", "cellar", "denied"}

VARIABLES
    rsStore,    \* the repository's record in repo-profiles.yaml, or what is left of several
    rsText,     \* whether the file reads as that record, is empty, or does not parse
    rsTools,    \* the suggestions and generic effects the project gives rise to
    rsRoot,     \* rsRoot[i]: the runtime of integration i
    rsPinned,   \* the integrations the configuration pins
    rsStep,     \* rsStep[s]: where session s is
    rsRec,      \* rsRec[s]: the record it loaded
    rsCur,      \* rsCur[s]: the effects it collected
    rsFinal,    \* rsFinal[s]: the effects of its session
    rsKeep,     \* rsKeep[s]: the record it will write
    rsRepair,   \* rsRepair[s]: the Homebrew repairs it planned
    rsAsked,    \* rsAsked[s]: the effects its user was shown and accepted
    rsEver,     \* the effects some user asked to remember
    rsLaunches  \* launches so far

rsVars == <<rsStore, rsText, rsTools, rsRoot, rsPinned, rsStep, rsRec, rsCur, rsFinal,
            rsKeep, rsRepair, rsAsked, rsEver, rsLaunches>>
rsWorld == <<rsTools, rsRoot, rsPinned>>
rsMine == <<rsRec, rsCur, rsFinal, rsKeep, rsRepair, rsAsked>>

Empty == [remembered |-> {}, rejected |-> {}, evidence |-> {}]

RsInit ==
    /\ rsStore = Empty /\ rsText = "saved"
    /\ rsTools \in {{"g"}, {"t1"}} /\ rsPinned \in {{}, {"t2"}}
    /\ rsRoot \in {r \in [Suggestion -> Root] : r["t1"] = "clean"}
    /\ rsStep = [s \in RsSession |-> "idle"]
    /\ rsRec = [s \in RsSession |-> Empty] /\ rsKeep = [s \in RsSession |-> Empty]
    /\ rsCur = [s \in RsSession |-> {}] /\ rsFinal = [s \in RsSession |-> {}]
    /\ rsRepair = [s \in RsSession |-> {}] /\ rsAsked = [s \in RsSession |-> {}]
    /\ rsEver = {} /\ rsLaunches = 0

RsForget(s) ==
    /\ rsRec' = [rsRec EXCEPT ![s] = Empty] /\ rsCur' = [rsCur EXCEPT ![s] = {}]
    /\ rsFinal' = [rsFinal EXCEPT ![s] = {}] /\ rsKeep' = [rsKeep EXCEPT ![s] = Empty]
    /\ rsRepair' = [rsRepair EXCEPT ![s] = {}] /\ rsAsked' = [rsAsked EXCEPT ![s] = {}]

RsGo(s, here, there) == rsStep[s] = here /\ rsStep' = [rsStep EXCEPT ![s] = there]

\* The project gains a file that suggests the second integration.
ProjectChanges ==
    /\ "t2" \notin rsTools /\ rsTools' = rsTools \union {"t2"}
    /\ UNCHANGED <<rsStore, rsText, rsRoot, rsPinned, rsStep, rsMine, rsEver, rsLaunches>>

----------------------------------------------------------------------------
(* Integrations.                                                           *)

\* resolveActiveIntegrations: flags and pins are active without approval.
Active == rsPinned

\* suggestIntegrations: those whose files are there and that are not active.
Suggested == (rsTools \intersect Suggestion) \ Active

\* The read directories an integration resolves to: validatedRuntimeDir
\* accepts an executable runtime, or one whose Homebrew cellar is repaired.
ResolvedDirs(names) == {i \in names : rsRoot[i] \in {"clean", "cellar"}}

\* planHomebrewToolAccessRepair, once per cellar.
Repairs(names) == {i \in names : rsRoot[i] = "cellar"}

\* validateIntegrationPaths: a declared directory in a deny zone is an error.
DeniedPath(names) == \E i \in names : rsRoot[i] = "denied"

----------------------------------------------------------------------------
(* Collecting.                                                             *)

\* repoSetupStateForSession: a record that cannot be read, or a suggestion
\* that does not merge, leaves the session without setup.
SafeOf(cur) == cur \ {"w"}
ExplicitOf(cur) == cur \intersect {"w"}

\* Slip: every remembered kind is applied, and a denied write counts as safe.
AppliedWithWrites(rec, cur) ==
    (cur \intersect {"g", "d", "w"} \intersect rec.remembered)
    \union (IF cur \intersect Suggestion \subseteq rec.remembered
            THEN cur \intersect (Suggestion \union {"w"}) ELSE {})

\* What is applied without a question: remembered generic and denial effects
\* one by one, the suggested ones only when all of them are remembered.
Applied(rec, cur) ==
    (cur \intersect {"g", "d", "w"} \intersect rec.remembered)
    \union (IF cur \intersect Suggestion \subseteq rec.remembered
            THEN cur \intersect Suggestion ELSE {})

PendingSafe(rec, cur, final) == SafeOf(cur) \ (rec.rejected \union final)
PendingExplicit(cur, final) == ExplicitOf(cur) \ final

\* An empty file does not parse either.
Parses == rsText = "saved"

\* The launch resolves its integrations and collects the setup. The first,
\* silent finalizePreparedRepoSetup shrinks the record to what is applied.
Collect(s) ==
    /\ rsStep[s] = "idle" /\ rsLaunches < MaxLaunches
    /\ rsLaunches' = rsLaunches + 1
    /\ \E evidence \in {rsStore.evidence, {}} : \* denials age out
       LET cur == (rsTools \intersect {"g"}) \union ResolvedDirs(Suggested) \union evidence
           rec == [rsStore EXCEPT !.evidence = evidence]
           final == Applied(rec, cur)
       IN \/ /\ DeniedPath(Active) /\ UNCHANGED <<rsStep, rsMine>>
          \/ /\ ~DeniedPath(Active) /\ (~Parses \/ DeniedPath(Suggested))
             /\ rsStep' = [rsStep EXCEPT ![s] = "run"]
             /\ rsCur' = [rsCur EXCEPT ![s] = {}]
             /\ rsFinal' = [rsFinal EXCEPT ![s] = {}]
             /\ rsRepair' = [rsRepair EXCEPT ![s] = Repairs(Active)]
             /\ rsAsked' = [rsAsked EXCEPT ![s] = {}]
             /\ UNCHANGED <<rsRec, rsKeep>>
          \/ /\ ~DeniedPath(Active) /\ Parses /\ ~DeniedPath(Suggested)
             /\ rsStep' = [rsStep EXCEPT ![s] = "ask"]
             /\ rsRec' = [rsRec EXCEPT ![s] =
                            [rec EXCEPT !.remembered = @ \intersect final]]
             /\ rsCur' = [rsCur EXCEPT ![s] = cur]
             /\ rsFinal' = [rsFinal EXCEPT ![s] = final]
             /\ rsRepair' = [rsRepair EXCEPT ![s] =
                               Repairs(Active) \union
                               (IF SafeOf(cur) \subseteq final /\ SafeOf(cur) # {}
                                THEN Repairs(Suggested) ELSE {})]
             /\ rsAsked' = [rsAsked EXCEPT ![s] = {}]
             /\ UNCHANGED rsKeep
    /\ UNCHANGED <<rsStore, rsText, rsEver, rsWorld>>

----------------------------------------------------------------------------
(* finalizePreparedRepoSetup, with the user.                               *)

\* The explicit prompt, then the safe one; each only when something of its
\* kind is pending. "Keep current access" rejects what was pending.
Ask(s) ==
    LET cur == rsCur[s]
        pendW == PendingExplicit(cur, rsFinal[s])
        pendS == PendingSafe(rsRec[s], cur, rsFinal[s])
    IN \E answerW \in IF pendW = {} THEN {"none"} ELSE {"remember", "once", "without"},
          answerS \in IF pendS = {} THEN {"none"} ELSE {"remember", "once", "keep"} :
       LET final == rsFinal[s]
                    \union (IF answerW \in {"remember", "once"} THEN ExplicitOf(cur) ELSE {})
                    \union (IF answerS \in {"remember", "once"} THEN SafeOf(cur) ELSE {})
           remembered == rsRec[s].remembered
                    \union (IF answerW = "remember" THEN ExplicitOf(cur) ELSE {})
                    \union (IF answerS = "remember" THEN SafeOf(cur) ELSE {})
           rejected == IF answerS = "remember" THEN rsRec[s].rejected \ pendS
                       ELSE IF answerS = "keep" THEN rsRec[s].rejected \union pendS
                       ELSE rsRec[s].rejected
       IN /\ RsGo(s, "ask", "save")
          /\ rsFinal' = [rsFinal EXCEPT ![s] = final]
          /\ rsKeep' = [rsKeep EXCEPT ![s] =
                          [remembered |-> remembered \intersect final,
                           rejected |-> rejected, evidence |-> rsRec[s].evidence]]
          /\ rsAsked' = [rsAsked EXCEPT ![s] =
                           (IF answerW \in {"remember", "once"} THEN pendW ELSE {})
                           \union (IF answerS \in {"remember", "once"} THEN pendS ELSE {})]
          /\ rsEver' = rsEver
                       \union (IF answerW = "remember" THEN pendW ELSE {})
                       \union (IF answerS = "remember" THEN SafeOf(cur) ELSE {})
          /\ rsRepair' = [rsRepair EXCEPT ![s] =
                            @ \union (IF SafeOf(cur) # {} /\ SafeOf(cur) \subseteq final
                                      THEN Repairs(Suggested) ELSE {})]
    /\ UNCHANGED <<rsStore, rsText, rsRec, rsCur, rsLaunches, rsWorld>>

\* Without a terminal nothing is asked, and a pending write ends the launch.
NoTerminal(s) ==
    /\ \/ /\ PendingExplicit(rsCur[s], rsFinal[s]) # {}
          /\ RsGo(s, "ask", "idle") /\ RsForget(s)
       \/ /\ PendingExplicit(rsCur[s], rsFinal[s]) = {}
          /\ RsGo(s, "ask", "save") /\ rsKeep' = [rsKeep EXCEPT ![s] = rsRec[s]]
          /\ UNCHANGED <<rsRec, rsCur, rsFinal, rsRepair, rsAsked>>
    /\ UNCHANGED <<rsStore, rsText, rsEver, rsLaunches, rsWorld>>

\* saveRepoProfileRecord reads the store again, which fails where it does not
\* parse: a note at a launch, the end of it all for denials ...
SaveLoads(s) ==
    /\ \/ RsGo(s, "save", IF Parses THEN "open" ELSE "run") /\ UNCHANGED rsMine
       \/ RsGo(s, "denials", "reopen") /\ Parses /\ UNCHANGED rsMine
       \/ RsGo(s, "denials", "idle") /\ ~Parses /\ RsForget(s)
    /\ UNCHANGED <<rsStore, rsText, rsEver, rsLaunches, rsWorld>>

\* ... empties the file ...
SaveOpens(s) ==
    /\ RsGo(s, "open", "write") \/ RsGo(s, "reopen", "rewrite")
    /\ rsStore' = Empty /\ rsText' = "empty"
    /\ UNCHANGED <<rsMine, rsEver, rsLaunches, rsWorld>>

\* Whatever parts of a longer text in place stay behind the new one.
LeftOver(rec, remembered, rejected, evidence) ==
    [remembered |-> rec.remembered \union remembered,
     rejected |-> rec.rejected \union rejected,
     evidence |-> rec.evidence \union evidence]

\* The text goes over the beginning of the file: where another session that had
\* emptied it too has written by then, the end of a longer text stays, and the
\* file reads as settings of both or does not parse.
PutRecord(rec) ==
    \/ rsStore' = rec /\ rsText' = "saved"
    \/ /\ rsText # "empty"
       /\ \E remembered \in SUBSET rsStore.remembered, rejected \in SUBSET rsStore.rejected,
             evidence \in SUBSET rsStore.evidence :
            rsStore' = LeftOver(rec, remembered, rejected, evidence)
       /\ rsText' = "saved"
    \/ /\ rsText # "empty"
       /\ rsStore' = LeftOver(rec, rsStore.remembered, rsStore.rejected, rsStore.evidence)
       /\ rsText' = "broken"

\* ... and writes the whole record, as this session knows it.
SaveWrites(s) ==
    /\ PutRecord(rsKeep[s])
    /\ \/ /\ RsGo(s, "write", "run") /\ rsKeep' = [rsKeep EXCEPT ![s] = Empty]
          /\ UNCHANGED <<rsRec, rsCur, rsFinal, rsRepair, rsAsked>>
       \/ RsGo(s, "rewrite", "idle") /\ RsForget(s)
    /\ UNCHANGED <<rsEver, rsLaunches, rsWorld>>

\* The process dies: a file that was opened for writing stays empty.
RsCrash(s) ==
    /\ rsStep[s] \notin {"idle", "dead"} /\ rsStep' = [rsStep EXCEPT ![s] = "dead"]
    /\ RsForget(s) /\ UNCHANGED <<rsStore, rsText, rsEver, rsLaunches, rsWorld>>

\* rememberRepoSetupDenials: the session ran, and what the sandbox denied it
\* outside its grants is added to the record as it is now.
SessionEnds(s) ==
    /\ \/ /\ RsGo(s, "run", "denials") /\ Parses
          /\ \E new \in (SUBSET Denial) \ {{}} :
               /\ new \intersect rsFinal[s] = {}
               /\ rsKeep' = [rsKeep EXCEPT ![s] =
                               [rsStore EXCEPT !.evidence = @ \union new]]
          /\ UNCHANGED <<rsRec, rsCur, rsFinal, rsRepair, rsAsked>>
       \/ RsGo(s, "run", "idle") /\ RsForget(s)
    /\ UNCHANGED <<rsStore, rsText, rsEver, rsLaunches, rsWorld>>

RsNext ==
    \/ ProjectChanges
    \/ \E s \in RsSession :
         \/ Collect(s) \/ Ask(s) \/ NoTerminal(s) \/ SaveLoads(s) \/ SaveOpens(s)
         \/ SaveWrites(s) \/ RsCrash(s) \/ SessionEnds(s)

RsSpec == RsInit /\ [][RsNext]_rsVars

----------------------------------------------------------------------------

\* Types of the variables.
RsTypeOK ==
    /\ rsStore \in Record /\ rsText \in {"saved", "empty", "broken"}
    /\ rsTools \in SUBSET (Suggestion \union {"g"})
    /\ rsRoot \in [Suggestion -> Root] /\ rsPinned \in SUBSET Suggestion
    /\ rsStep \in [RsSession -> {"idle", "ask", "save", "open", "write", "run", "denials",
                               "reopen", "rewrite", "dead"}]
    /\ rsRec \in [RsSession -> Record] /\ rsKeep \in [RsSession -> Record]
    /\ rsCur \in [RsSession -> SUBSET Effect] /\ rsFinal \in [RsSession -> SUBSET Effect]
    /\ rsRepair \in [RsSession -> SUBSET Suggestion]
    /\ rsAsked \in [RsSession -> SUBSET Effect]
    /\ rsEver \in SUBSET Effect /\ rsLaunches \in 0..MaxLaunches

\* A session writes outside its project only where its user approved it, at
\* this launch or at an earlier one that was asked to remember it; and the
\* profile remembers nothing else. Launches that overlap write stale records
\* back, or over one another's, so this takes several of them to go wrong.
WritesWereApproved ==
    /\ \A s \in RsSession : ExplicitOf(rsFinal[s]) \subseteq rsAsked[s] \union rsEver
    /\ rsStore.remembered \subseteq rsEver

\* What the design note on onboarding calls no silent widening: every effect
\* of a session was remembered when it began, or was shown to the user at its
\* prompt and accepted. The code adds every current safe effect, also those
\* rejected at an earlier launch and not shown again.
OnlyShownIsAdded ==
    \A s \in RsSession :
        rsStep[s] \in {"save", "open", "write", "run"} =>
            rsFinal[s] \subseteq rsRec[s].remembered \union rsAsked[s]
=============================================================================
