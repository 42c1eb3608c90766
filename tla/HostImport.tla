----------------------------- MODULE HostImport -----------------------------
(***************************************************************************)
(* hazmat config import: what the user has on the host (a sign-in file,    *)
(* account state, a Git identity, commands and skills) is compared with    *)
(* the host-owned store and the agent's home, the conflicts are settled by *)
(* one policy for all, and the items are applied one after the other.  The *)
(* comparison is made before the user is asked; a session may change the   *)
(* agent's side and the user the host's before it is applied.  Claude has  *)
(* all four items, OpenCode no account state, Codex only sign-in and Git.  *)
(***************************************************************************)
EXTENDS Integers, SequencesExt

CONSTANTS MaxImports,  \* how many import commands are run
          MaxEditsMade \* how often the agent or the host user changes something

VARIABLES imHost,    \* the host user's own files
          imStored,  \* the host-owned secret store
          imAgent,   \* the agent's home
          imPlan,    \* the status of each item, of the running command
          imPhase,   \* where the command is
          imRaced,   \* items changed since they were compared
          imCount, imEdits

imVars == <<imHost, imStored, imAgent, imPlan, imPhase, imRaced, imCount, imEdits>>

ASSUME ImAssumption == MaxImports \in Nat /\ MaxEditsMade \in Nat

(* The order of sortImportItems: by category, then by name.                *)
Items == <<"command", "gitIdentity", "accountState", "credential">>

(* A value of the host, one of the agent, none.  Account state has keys of *)
(* its own and so has the Git identity: two stand for them.                *)
Value == 0 .. 2
ImFields == {"first", "second"}
Map == [ImFields -> Value]
NoMap == [f \in ImFields |-> 0]

Statuses == {"none", "new", "conflict", "unchanged", "overwrite", "skip"}

ImNoPlan == [i \in ToSet(Items) |-> "none"]

ImTypeOK ==
    /\ imHost \in [command : Value, gitIdentity : Map, accountState : Map, credential : Value]
    /\ imAgent \in [command : Value, gitIdentity : Map, accountState : Map, credential : Value]
    /\ imStored \in [accountState : Map, credential : Value]
    /\ imPlan \in [ToSet(Items) -> Statuses]
    /\ imPhase \in [at : {"idle", "asked", "apply", "second"}, item : 1 .. Len(Items) + 1,
                    state : Map, identity : Map]
    /\ imRaced \subseteq ToSet(Items)
    /\ imCount \in 0 .. MaxImports
    /\ imEdits \in 0 .. MaxEditsMade

IdlePhase == [at |-> "idle", item |-> 1, state |-> NoMap, identity |-> NoMap]

(* A host with every basic; an agent home and a store from earlier use.    *)
ImInit ==
    /\ \E m \in {NoMap, [first |-> 1, second |-> 0], [first |-> 1, second |-> 1]} :
         imHost = [command |-> 1, gitIdentity |-> m, accountState |-> m, credential |-> 1]
    /\ \E c \in Value, m \in {NoMap, [first |-> 0, second |-> 2], [first |-> 2, second |-> 0]} :
         imAgent = [command |-> c, gitIdentity |-> m, accountState |-> m, credential |-> c]
    /\ \E c \in Value, m \in {NoMap, [first |-> 2, second |-> 2]} :
         imStored = [accountState |-> m, credential |-> c]
    /\ imPlan = ImNoPlan
    /\ imPhase = IdlePhase
    /\ imRaced = {}
    /\ imCount = 0
    /\ imEdits = 0

-----------------------------------------------------------------------------
(* The scan *)

(* The store is compared when it has the secret; otherwise the agent's old *)
(* copy, and an equal one still has to be taken over.                      *)
StatusInStore(host, stored, agent, absent) ==
    CASE host = absent -> "none"
      [] host # absent /\ stored # absent -> IF stored = host THEN "unchanged" ELSE "conflict"
      [] host # absent /\ stored = absent ->
           IF agent \in {absent, host} THEN "new" ELSE "conflict"

scanClaudeCredentialFile ==
    StatusInStore(imHost.credential, imStored.credential, imAgent.credential, 0)

(* jsonSubsetEqual compares all the keys of both sides.                    *)
scanClaudeAuthState ==
    StatusInStore(imHost.accountState, imStored.accountState, imAgent.accountState, NoMap)

scanGitIdentity ==
    LET h == imHost.gitIdentity
        a == imAgent.gitIdentity
    IN  CASE h = NoMap -> "none"
          [] h # NoMap /\ a # NoMap /\ \A f \in ImFields : h[f] \in {0, a[f]} -> "unchanged"
          [] h # NoMap /\ \E f \in ImFields : h[f] # 0 /\ a[f] # 0 /\ h[f] # a[f] -> "conflict"
          [] OTHER -> "new"

scanPortableImportDir ==
    CASE imHost.command = 0 -> "none"
      [] imHost.command # 0 /\ imAgent.command = imHost.command -> "unchanged"
      [] imHost.command # 0 /\ imAgent.command = 0 -> "new"
      [] OTHER -> "conflict"

ScanImportPlan == [i \in ToSet(Items) |->
    CASE i = "command"      -> scanPortableImportDir
      [] i = "gitIdentity"  -> scanGitIdentity
      [] i = "accountState" -> scanClaudeAuthState
      [] i = "credential"   -> scanClaudeCredentialFile]

HasActionableChanges(plan) == \E i \in ToSet(Items) : plan[i] \in {"new", "conflict"}

(* The plan is shown; without a change to make the command ends there.     *)
(* Account state and identity are carried in the plan, files are read      *)
(* again when they are applied.                                            *)
RunBasicsImport ==
    /\ imPhase.at = "idle"
    /\ imCount < MaxImports
    /\ HasActionableChanges(ScanImportPlan)
    /\ imCount' = imCount + 1
    /\ imPlan' = ScanImportPlan
    /\ imPhase' = [IdlePhase EXCEPT !.at = "asked", !.state = imHost.accountState,
                                      !.identity = imHost.gitIdentity]
    /\ imRaced' = {}
    /\ UNCHANGED <<imHost, imStored, imAgent, imEdits>>

(* Slip: conflicts under "skip" are applied like new items.                *)
SettledLoosely(plan, policy) ==
    [i \in ToSet(Items) |-> IF plan[i] = "conflict" /\ policy = "skip" THEN "new" ELSE plan[i]]

ImSettled(plan, policy) ==
    [i \in ToSet(Items) |-> IF plan[i] = "conflict" THEN policy ELSE plan[i]]

ResolveConflicts(policy) ==
    /\ imPhase.at = "asked"
    /\ imPlan' = ImSettled(imPlan, policy)
    /\ imPhase' = [imPhase EXCEPT !.at = "apply"]
    /\ UNCHANGED <<imHost, imStored, imAgent, imRaced, imCount, imEdits>>

EndImport == /\ imPhase' = IdlePhase
             /\ imPlan' = ImNoPlan
             /\ imRaced' = {}

(* A dry run, a declined question, or conflicts that no policy settles.    *)
StopBeforeApply ==
    /\ imPhase.at = "asked"
    /\ EndImport
    /\ UNCHANGED <<imHost, imStored, imAgent, imCount, imEdits>>

-----------------------------------------------------------------------------
(* The apply loop *)

ImAt(item) == imPhase.item <= Len(Items) /\ Items[imPhase.item] = item

ImApplied(item) == ImAt(item) /\ imPlan[item] \in {"new", "conflict", "overwrite"}

ImNextItem == imPhase' = [imPhase EXCEPT !.at = "apply", !.item = @ + 1]

SkipItem ==
    /\ imPhase.at = "apply" /\ imPhase.item <= Len(Items)
    /\ imPlan[Items[imPhase.item]] \in {"none", "unchanged", "skip"}
    /\ ImNextItem
    /\ UNCHANGED <<imHost, imStored, imAgent, imPlan, imRaced, imCount, imEdits>>

(* What is there is removed, then the host's tree is copied.               *)
RemoveDestination ==
    /\ imPhase.at = "apply" /\ ImApplied("command")
    /\ imAgent' = [imAgent EXCEPT !.command = 0]
    /\ imPhase' = [imPhase EXCEPT !.at = "second"]
    /\ UNCHANGED <<imHost, imStored, imPlan, imRaced, imCount, imEdits>>

CopyPortablePath ==
    /\ imPhase.at = "second" /\ ImApplied("command")
    /\ imHost.command # 0
    /\ imAgent' = [imAgent EXCEPT !.command = imHost.command]
    /\ ImNextItem
    /\ UNCHANGED <<imHost, imStored, imPlan, imRaced, imCount, imEdits>>

Overlay(under, over) == [f \in ImFields |-> IF over[f] # 0 THEN over[f] ELSE under[f]]

writeImportedGitIdentity ==
    /\ imPhase.at = "apply" /\ ImApplied("gitIdentity")
    /\ imAgent' = [imAgent EXCEPT !.gitIdentity = Overlay(@, imPhase.identity)]
    /\ ImNextItem
    /\ UNCHANGED <<imHost, imStored, imPlan, imRaced, imCount, imEdits>>

(* Slip: an absent store starts from nothing, not from the agent's copy.   *)
StateToWriteWithoutLegacy == Overlay(imStored.accountState, imPhase.state)

(* The keys of the host over the store's, or over the agent's where there  *)
(* is no stored state yet.                                                 *)
StateToWrite ==
    Overlay(IF imStored.accountState # NoMap THEN imStored.accountState
                                             ELSE imAgent.accountState,
            imPhase.state)

writeImportedClaudeState ==
    /\ imPhase.at = "apply" /\ ImApplied("accountState")
    /\ imStored' = [imStored EXCEPT !.accountState = StateToWrite]
    /\ imPhase' = [imPhase EXCEPT !.at = "second"]
    /\ UNCHANGED <<imHost, imAgent, imPlan, imRaced, imCount, imEdits>>

removeClaudeStateKeysFromAgent ==
    /\ imPhase.at = "second" /\ ImApplied("accountState")
    /\ imAgent' = [imAgent EXCEPT !.accountState = NoMap]
    /\ ImNextItem
    /\ UNCHANGED <<imHost, imStored, imPlan, imRaced, imCount, imEdits>>

(* The host's file is read again here; a file gone meanwhile is an error.  *)
writeStoredCredential ==
    /\ imPhase.at = "apply" /\ ImApplied("credential")
    /\ imHost.credential # 0
    /\ imStored' = [imStored EXCEPT !.credential = imHost.credential]
    /\ imPhase' = [imPhase EXCEPT !.at = "second"]
    /\ UNCHANGED <<imHost, imAgent, imPlan, imRaced, imCount, imEdits>>

removeAgentCredential ==
    /\ imPhase.at = "second" /\ ImApplied("credential")
    /\ imAgent' = [imAgent EXCEPT !.credential = 0]
    /\ ImNextItem
    /\ UNCHANGED <<imHost, imStored, imPlan, imRaced, imCount, imEdits>>

(* The first error ends the command, as does its death: what was applied   *)
(* stays, the rest is not tried.                                           *)
ApplyStops ==
    /\ imPhase.at \in {"apply", "second"}
    /\ EndImport
    /\ UNCHANGED <<imHost, imStored, imAgent, imCount, imEdits>>

(* A session of the agent, or the user, changes one of the items.          *)
OthersChange(item) ==
    /\ imEdits < MaxEditsMade
    /\ imEdits' = imEdits + 1
    /\ \/ /\ item \in {"command", "credential"}
          /\ \/ imAgent' = [imAgent EXCEPT ![item] = 2] /\ UNCHANGED imHost
             \/ imHost' = [imHost EXCEPT ![item] = IF @ = 0 THEN 1 ELSE 0] /\ UNCHANGED imAgent
       \/ /\ item \in {"gitIdentity", "accountState"}
          /\ \E f \in ImFields :
               \/ imAgent' = [imAgent EXCEPT ![item][f] = 2] /\ UNCHANGED imHost
               \/ imHost' = [imHost EXCEPT ![item][f] = 1] /\ UNCHANGED imAgent
    /\ imRaced' = imRaced \union (IF imPhase.at = "idle" THEN {} ELSE {item})
    /\ UNCHANGED <<imStored, imPlan, imPhase, imCount>>

ImNext == \/ RunBasicsImport
          \/ \E policy \in {"overwrite", "skip"} : ResolveConflicts(policy)
          \/ StopBeforeApply
          \/ SkipItem
          \/ RemoveDestination \/ CopyPortablePath
          \/ writeImportedGitIdentity
          \/ writeImportedClaudeState \/ removeClaudeStateKeysFromAgent
          \/ writeStoredCredential \/ removeAgentCredential
          \/ ApplyStops
          \/ \E item \in ToSet(Items) : OthersChange(item)

ImSpec == ImInit /\ [][ImNext]_imVars

-----------------------------------------------------------------------------

Importing == imPhase.at \in {"apply", "second"} /\ imEdits' = imEdits

(* The account state in force: the store's, or the agent's before there is *)
(* one.                                                                    *)
StateInForce == IF imStored.accountState # NoMap THEN imStored.accountState
                                                 ELSE imAgent.accountState

(* An import replaces or removes something of the agent's that differs     *)
(* from the host's only when the user chose to overwrite (or it changed    *)
(* after the comparison); a stored secret gives way only to the host's;    *)
(* and a key of the account state that only the agent has survives even    *)
(* an overwriting import.                                                  *)
ImportKeepsWhatDiffers ==
    [][ Importing =>
        /\ (imAgent.command' # imAgent.command /\ imAgent.command \notin {0, imHost.command})
             => imPlan["command"] = "overwrite" \/ "command" \in imRaced
        /\ \A f \in ImFields :
             (imAgent.gitIdentity[f]' # imAgent.gitIdentity[f] /\ imAgent.gitIdentity[f] # 0)
               => imPlan["gitIdentity"] = "overwrite" \/ "gitIdentity" \in imRaced
        /\ (imStored.credential' # imStored.credential /\ imStored.credential # 0)
             => imPlan["credential"] = "overwrite" /\ imStored.credential' = imHost.credential
        /\ (imAgent.credential' # imAgent.credential
              /\ imAgent.credential # imStored.credential)
             => imPlan["credential"] = "overwrite" \/ "credential" \in imRaced
        /\ \A f \in ImFields :
             /\ StateInForce[f] # 0 => StateInForce'[f] # 0
             /\ (StateInForce[f] # 0 /\ StateInForce'[f] # StateInForce[f])
                  => imPlan["accountState"] = "overwrite" \/ "accountState" \in imRaced
      ]_imVars
=============================================================================
