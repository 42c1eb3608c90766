----------------------------- MODULE LinuxSetup -----------------------------
(***************************************************************************)
(* The Linux agent-user setup: the graph of eleven resources, the setup    *)
(* that applies them in order, the typed repair of a single resource with  *)
(* its verification, and the rollback that removes them in another order,  *)
(* the destructive ones only where asked.  Setup and rollback stop at the  *)
(* first error.  The sudoers rule is the privilege everything else has to  *)
(* be in place for.                                                        *)
(***************************************************************************)
EXTENDS Integers, SequencesExt

CONSTANTS MaxLinuxCommands, \* how many setup, repair and rollback commands are run
          MaxLinuxDrift     \* how often the host changes by itself

LsAssumption == MaxLinuxCommands \in Nat /\ MaxLinuxDrift \in Nat
ASSUME LsAssumption

VARIABLES lsPresent,  \* the resources whose verification would pass
          lsPhase,    \* idle, setup, repair, rollback
          lsSteps,    \* the resources the running command still has to go through
          lsReceipts, \* the resources a repair of theirs was verified for, since the last drift
          lsCommands, lsDrifts

lsVars == <<lsPresent, lsPhase, lsSteps, lsReceipts, lsCommands, lsDrifts>>

LsSetupSteps == <<"distroProfile", "agentUser", "sharedGroup", "agentHome",
                  "workspaceAccess", "toolHome", "firewallPolicy", "resolverPolicy",
                  "cgroupRoot", "launchHelper", "sudoers">>
LsResources == Range(LsSetupSteps)

Destructive == {"toolHome", "agentHome", "agentUser", "sharedGroup"}

(* A destructive step that was not asked for only warns.                   *)
Asked(r, delete) == IF r \in delete THEN <<r>> ELSE <<>>

(* Slip: the network policies and the cgroup root go before the privilege. *)
RollbackContainmentFirst(delete) ==
    <<"cgroupRoot", "firewallPolicy", "resolverPolicy", "sudoers", "launchHelper",
      "workspaceAccess">> \o Asked("toolHome", delete) \o Asked("agentHome", delete) \o
    Asked("agentUser", delete) \o Asked("sharedGroup", delete)

LsRollbackSteps(delete) ==
    <<"sudoers", "launchHelper", "cgroupRoot", "firewallPolicy", "resolverPolicy",
      "workspaceAccess">> \o Asked("toolHome", delete) \o Asked("agentHome", delete) \o
    Asked("agentUser", delete) \o Asked("sharedGroup", delete)

(* What linuxRollbackOptions makes of --delete-user and --delete-group.    *)
linuxRollbackOptions(deleteUser, deleteGroup) ==
    (IF deleteUser THEN {"toolHome", "agentHome", "agentUser"} ELSE {}) \union
    (IF deleteGroup THEN {"sharedGroup"} ELSE {})

SudoersPrerequisites == {"agentUser", "distroProfile", "firewallPolicy", "resolverPolicy",
                         "cgroupRoot", "launchHelper"}

(* Directories and ACLs need the account and the group they are given to.  *)
Needs == [r \in LsResources |->
    CASE r = "sharedGroup" -> {"agentUser"}
      [] r \in {"agentHome", "toolHome"} -> {"agentUser", "sharedGroup"}
      [] r = "workspaceAccess" -> {"agentUser", "sharedGroup"}
      [] r = "cgroupRoot" -> {"sharedGroup"}
      [] OTHER -> {}]

(* An account or a group of that name is taken as it is, whatever its ID:  *)
(* then the apply succeeds and the verification does not.                  *)
applyResource(r) ==
    /\ Needs[r] \subseteq lsPresent
    /\ \/ lsPresent' = lsPresent \union {r}
       \/ r \in {"agentUser", "sharedGroup"} /\ UNCHANGED lsPresent

(* Slip: the helper and the account alone let the rule in.                 *)
applySudoersEarly ==
    /\ {"agentUser", "launchHelper"} \subseteq lsPresent
    /\ lsPresent' = lsPresent \union {"sudoers"}

(* The rule is refused until its prerequisites verify.                     *)
applySudoers ==
    /\ SudoersPrerequisites \subseteq lsPresent
    /\ lsPresent' = lsPresent \union {"sudoers"}

LsApply(r) == IF r = "sudoers" THEN applySudoers ELSE applyResource(r)

(* What no longer verifies once a resource is gone: without the account    *)
(* there is no membership, no owner of the home and nobody to reach the    *)
(* workspace; the home holds the tool directories.                         *)
LsRemoved(r) ==
    CASE r = "agentHome" -> {"agentHome", "toolHome"}
      [] r = "agentUser" -> {"agentUser", "sharedGroup", "agentHome", "workspaceAccess"}
      [] r = "sharedGroup" -> {"sharedGroup", "agentHome"}
      [] OTHER -> {r}
LsRollback(r) == lsPresent' = lsPresent \ LsRemoved(r)

BeginCommand ==
    /\ lsPhase = "idle"
    /\ lsCommands < MaxLinuxCommands
    /\ lsCommands' = lsCommands + 1
    /\ UNCHANGED <<lsPresent, lsReceipts, lsDrifts>>

RunSetupSteps == BeginCommand /\ lsPhase' = "setup" /\ lsSteps' = LsSetupSteps

RunRepairAction ==
    BeginCommand /\ lsPhase' = "repair" /\ \E r \in LsResources : lsSteps' = <<r>>

runLinuxRollback ==
    /\ BeginCommand
    /\ lsPhase' = "rollback"
    /\ \E deleteUser, deleteGroup \in BOOLEAN :
         lsSteps' = LsRollbackSteps(linuxRollbackOptions(deleteUser, deleteGroup))

LsStepDone == /\ lsSteps' = Tail(lsSteps)
              /\ lsPhase' = IF Len(lsSteps) = 1 THEN "idle" ELSE lsPhase

runSetupStep ==
    /\ lsPhase = "setup"
    /\ LsApply(Head(lsSteps))
    /\ LsStepDone
    /\ UNCHANGED <<lsReceipts, lsCommands, lsDrifts>>

(* The apply of a repair; its verification follows.                        *)
applyLinuxSetupRepair ==
    /\ lsPhase = "repair"
    /\ LsApply(Head(lsSteps))
    /\ lsPhase' = "verify"
    /\ UNCHANGED <<lsSteps, lsReceipts, lsCommands, lsDrifts>>

verifyLinuxSetupRepair ==
    /\ lsPhase = "verify"
    /\ lsReceipts' = IF Head(lsSteps) \in lsPresent THEN lsReceipts \union {Head(lsSteps)}
                     ELSE lsReceipts
    /\ lsPhase' = "idle"
    /\ lsSteps' = <<>>
    /\ UNCHANGED <<lsPresent, lsCommands, lsDrifts>>

runRollbackStep ==
    /\ lsPhase = "rollback"
    /\ LsRollback(Head(lsSteps))
    /\ LsStepDone
    /\ lsReceipts' = lsReceipts \ LsRemoved(Head(lsSteps))
    /\ UNCHANGED <<lsCommands, lsDrifts>>

(* A step returns an error, or the process dies: the command is over.      *)
LinuxStepFails ==
    /\ lsPhase # "idle"
    /\ lsPhase' = "idle"
    /\ lsSteps' = <<>>
    /\ UNCHANGED <<lsPresent, lsReceipts, lsCommands, lsDrifts>>

(* Between two commands the host loses a resource: a cgroup root at boot,  *)
(* a policy directory, the helper after an upgrade.                        *)
LinuxDrifts ==
    /\ lsPhase = "idle"
    /\ lsDrifts < MaxLinuxDrift
    /\ \E r \in lsPresent : lsPresent' = lsPresent \ LsRemoved(r)
    /\ lsReceipts' = {}
    /\ lsDrifts' = lsDrifts + 1
    /\ UNCHANGED <<lsPhase, lsSteps, lsCommands>>

LsInit ==
    /\ lsPresent = {}
    /\ lsPhase = "idle"
    /\ lsSteps = <<>>
    /\ lsReceipts = {}
    /\ lsCommands = 0
    /\ lsDrifts = 0

LsNext ==
    \/ RunSetupSteps \/ RunRepairAction \/ runLinuxRollback
    \/ runSetupStep \/ applyLinuxSetupRepair \/ verifyLinuxSetupRepair \/ runRollbackStep
    \/ LinuxStepFails \/ LinuxDrifts

LsSpec == LsInit /\ [][LsNext]_lsVars

-----------------------------------------------------------------------------
(* The types of the variables.                                             *)
LsTypeOK ==
    /\ lsPresent \subseteq LsResources
    /\ lsPhase \in {"idle", "setup", "repair", "verify", "rollback"}
    /\ lsSteps \in Seq(LsResources)
    /\ lsPhase = "idle" <=> lsSteps = <<>>
    /\ lsReceipts \subseteq LsResources
    /\ lsCommands \in 0 .. MaxLinuxCommands
    /\ lsDrifts \in 0 .. MaxLinuxDrift

(* The sudoers rule never stands without what contains the agent, as long  *)
(* as the host itself takes nothing away: neither a repair, in whatever    *)
(* order single resources are repaired, nor a rollback that fails half     *)
(* way and is followed by another setup leaves privilege over a missing    *)
(* account, policy, cgroup root or helper.                                 *)
PrivilegeLast ==
    lsDrifts = 0 /\ "sudoers" \in lsPresent => SudoersPrerequisites \subseteq lsPresent

=============================================================================
