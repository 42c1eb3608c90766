-------------------------- MODULE DiagnosticRepair --------------------------
(***************************************************************************)
(* hazmat check, hazmat status --full, the verification after init and     *)
(* hazmat doctor on macOS: the checks in their order yield typed findings, *)
(* the findings a repair plan, and doctor --fix, once approved, applies    *)
(* the plan's items one after the other and verifies each.  An item that   *)
(* fails is recorded and the next one runs.                                *)
(***************************************************************************)
EXTENDS Integers, FiniteSets, SequencesExt

CONSTANTS AgentFindings, \* findings only a helper-backed probe makes: umask, wrappers...
          MaxDrift,      \* how often the host drifts from its desired state
          MaxDoctorRuns  \* how many check, status or doctor commands are run

VARIABLES drHost,     \* the state of the resources the findings are about
          drPhase,    \* idle, asking, applying or verifying
          drItems,    \* the items of the plan not executed yet, by their place in Checks
          drReceipts, \* the findings with a receipt of this run
          drFailed,   \* the findings whose repair failed in this run
          drBlind,    \* history: this run wrote the agent's .zshrc without what was in it
          drDrifts, drRuns

drVars == <<drHost, drPhase, drItems, drReceipts, drFailed, drBlind, drDrifts, drRuns>>

BaseFindings == <<"agent-user", "agent-home", "dev-group", "home-traverse", "workspace",
                  "sudoers", "pf", "dns-blocklist", "persistence">>
DrFindings == Range(BaseFindings) \union AgentFindings

DrAssumption == /\ IsFiniteSet(AgentFindings)
                /\ AgentFindings \intersect Range(BaseFindings) = {}
                /\ MaxDrift \in Nat
                /\ MaxDoctorRuns \in Nat
ASSUME DrAssumption

(* Two of them are about managed blocks of one file, the agent's .zshrc.   *)
ShellFindings == AgentFindings \intersect {"umask", "agent-env"}

(* The findings in the order of the checks that make them, those of the    *)
(* helper-backed probes in some order.                                     *)
Checks == BaseFindings \o SetToSeq(AgentFindings)

(* The agent's account is unfinished when its UID or hiding is not the     *)
(* desired one.  The anchor file, or the rules loaded from it, are stale   *)
(* when they block something but not all they should.                      *)
Hosts == [user : {"absent", "unfinished", "made"}, home : BOOLEAN, group : BOOLEAN,
          traverse : BOOLEAN, workspace : BOOLEAN, sudoers : BOOLEAN, helper : BOOLEAN,
          anchor : {"absent", "stale", "current"}, registered : BOOLEAN,
          loaded : {"none", "stale", "current"}, dns : {"absent", "partial", "whole"},
          plist : BOOLEAN, daemon : BOOLEAN, agentSide : SUBSET AgentFindings]

SoundHost == [user |-> "made", home |-> TRUE, group |-> TRUE, traverse |-> TRUE,
              workspace |-> TRUE, sudoers |-> TRUE, helper |-> TRUE, anchor |-> "current",
              registered |-> TRUE, loaded |-> "current", dns |-> "whole", plist |-> TRUE,
              daemon |-> TRUE, agentSide |-> AgentFindings]

(* Helper-backed probes run only when the launch path looks intact.        *)
inspectAgentProbeGate(h) == h.user # "absent" /\ h.sudoers /\ h.helper

testAgentUser(f, h) ==
    \/ f = "agent-user" /\ h.user # "made"
    \/ f = "agent-home" /\ h.user # "absent" /\ ~h.home

testDevGroupAndWorkspace(f, h) ==
    \/ f = "dev-group" /\ ~h.group
    \/ f = "home-traverse" /\ ~h.traverse
    \/ f = "workspace" /\ ~h.workspace

testPasswordlessSudo(f, h) == f = "sudoers" /\ ~(h.sudoers /\ h.helper)

(* Whether pf runs can be read without privilege only on some hosts.       *)
testPfFirewallStatic(f, h, observed) ==
    f = "pf" /\ (h.anchor # "current" \/ (observed /\ h.loaded = "none"))

testDNSBlocklist(f, h, full) ==
    f = "dns-blocklist" /\ (h.dns = "absent" \/ (full /\ h.dns # "whole"))

testPersistence(f, h) == f = "persistence" /\ ~(h.plist /\ h.registered)

(* A .zshrc that cannot be read is taken for one without the blocks.       *)
testAgentSide(f, h, unread) == f \in (AgentFindings \ h.agentSide) \union unread

Found(f, h, full, observed, unread) ==
    \/ testAgentUser(f, h)
    \/ testDevGroupAndWorkspace(f, h)
    \/ full /\ testPasswordlessSudo(f, h)
    \/ testPfFirewallStatic(f, h, observed)
    \/ testDNSBlocklist(f, h, full)
    \/ testPersistence(f, h)
    \/ full /\ inspectAgentProbeGate(h) /\ testAgentSide(f, h, unread)

(* The plan: one item per repairable finding, in the order of the checks.  *)
planDiagnosticRepairs(full, observed, unread) ==
    {i \in DOMAIN Checks : Found(Checks[i], drHost, full, observed, unread)}

(* The item the executor is at.                                            *)
AtItem(i) == i \in drItems /\ \A j \in drItems : i <= j

Commands == {"check", "status", "init", "doctor"}
DrRequests == [command : Commands, fix : BOOLEAN, yes : BOOLEAN, interactive : BOOLEAN,
               dryRun : BOOLEAN]

(* Only doctor --fix mutates, never with --dry-run, and without --yes only *)
(* where the user can be asked.                                            *)
decideDiagnosticRepairExecution(req) ==
    CASE req.command # "doctor" -> "read-only"
      [] req.command = "doctor" /\ req.dryRun -> "dry-run"
      [] req.command = "doctor" /\ ~req.dryRun /\ ~req.fix -> "plan-only"
      [] req.command = "doctor" /\ ~req.dryRun /\ req.fix /\ req.yes -> "fix-yes"
      [] req.command = "doctor" /\ ~req.dryRun /\ req.fix /\ ~req.yes /\ req.interactive ->
            "fix-interactive"
      [] OTHER -> "blocked-noninteractive"

DrModes == {decideDiagnosticRepairExecution(req) : req \in DrRequests}

(* A command runs its checks and, where it may mutate and has something    *)
(* to, goes on to ask or to execute.                                       *)
diagnosticRepairPlan ==
    /\ drPhase = "idle"
    /\ drRuns < MaxDoctorRuns
    /\ \E mode \in DrModes, full, observed \in BOOLEAN, unread \in SUBSET ShellFindings :
         LET items == planDiagnosticRepairs(full, observed, unread)
             mutates == mode \in {"fix-yes", "fix-interactive"} /\ items # {}
         IN  /\ drPhase' = CASE mutates /\ mode = "fix-yes" -> "applying"
                             [] mutates /\ mode = "fix-interactive" -> "asking"
                             [] OTHER -> "idle"
             /\ drItems' = IF mutates THEN items ELSE {}
    /\ drReceipts' = {}
    /\ drFailed' = {}
    /\ drBlind' = FALSE
    /\ drRuns' = drRuns + 1
    /\ UNCHANGED <<drHost, drDrifts>>

confirmDiagnosticRepairPlan ==
    /\ drPhase = "asking"
    /\ drPhase' = "applying"
    /\ UNCHANGED <<drHost, drItems, drReceipts, drFailed, drBlind, drDrifts, drRuns>>

diagnosticRepairPlanDeclined ==
    /\ drPhase = "asking"
    /\ drPhase' = "idle"
    /\ drItems' = {}
    /\ UNCHANGED <<drHost, drReceipts, drFailed, drBlind, drDrifts, drRuns>>

(* The result of an apply handler: the host it leaves, whether it returned *)
(* an error, and whether it lost the text of the agent's .zshrc.           *)
Done(h) == [host |-> h, err |-> FALSE, blind |-> FALSE]
Failed(h) == [host |-> h, err |-> TRUE, blind |-> FALSE]
Blind(r) == [r EXCEPT !.blind = TRUE]

(* An account that can be looked up is taken as made.                      *)
setupAgentUser(h) ==
    IF h.user # "absent" THEN {Done(h)}
    ELSE {Done([h EXCEPT !.user = "made", !.home = TRUE]),
          Failed([h EXCEPT !.user = "unfinished"]), Failed(h)}

applySetupAgentHome(h) ==
    {Failed(h)} \union IF h.user = "absent" THEN {} ELSE {Done([h EXCEPT !.home = TRUE])}

setupDevGroup(h) == {Done([h EXCEPT !.group = TRUE]), Failed(h)}
setupHomeDirTraverse(h) == {Done([h EXCEPT !.traverse = TRUE]), Failed(h)}
applyWorkspaceRepair(h) == {Done([h EXCEPT !.workspace = TRUE]), Failed(h)}

(* An entry that does not validate is removed again.                       *)
setupSudoers(h) == {Done([h EXCEPT !.sudoers = TRUE]), Failed(h),
                    Failed([h EXCEPT !.sudoers = FALSE])}

(* An existing anchor file is kept; rules that do not load are a warning.  *)
setupPfFirewall(h) ==
    LET written == [h EXCEPT !.anchor = IF @ = "absent" THEN "current" ELSE @]
        registered == [written EXCEPT !.registered = TRUE]
    IN  {Failed(h), Failed(written), Done(registered),
         Done([registered EXCEPT !.loaded = registered.anchor])}

(* The anchor file goes first, whether or not the removal succeeds.        *)
applyNetworkPF(h) ==
    setupPfFirewall(h) \union setupPfFirewall([h EXCEPT !.anchor = "absent"])

applyDNSBlocklist(h) ==
    {Done([h EXCEPT !.dns = "whole"]), Failed(h), Failed([h EXCEPT !.dns = "absent"])}
        \union IF h.dns = "partial" THEN {Done(h)} ELSE {}

setupLaunchDaemon(h) ==
    IF ~h.plist
    THEN {Failed(h), Done([h EXCEPT !.plist = TRUE]),
          Done([h EXCEPT !.plist = TRUE, !.daemon = TRUE])}
    ELSE IF h.daemon THEN {Done(h)} ELSE {Failed(h), Done([h EXCEPT !.daemon = TRUE])}

(* Slip: persistence replaces the anchor file as the pf repair does.       *)
PersistenceReplacesAnchor(h) ==
    UNION {IF r.err THEN {r} ELSE setupLaunchDaemon(r.host) : r \in applyNetworkPF(h)}

applyNetworkPersistence(h) ==
    UNION {IF r.err THEN {r} ELSE setupLaunchDaemon(r.host) : r \in setupPfFirewall(h)}

(* The error of reading .zshrc is discarded, and what is written back then *)
(* is the block of this item alone; the write truncates before it writes.  *)
rewriteAgentShell(f, h) ==
    LET lost == [h EXCEPT !.agentSide = @ \ ShellFindings]
        alone == [h EXCEPT !.agentSide = (@ \ ShellFindings) \union {f}]
    IN  {Blind(Failed(lost)), Blind(Failed(alone)), Blind(Done(alone))}

(* A step may fail with its block in place: the ownership, or the wrappers *)
(* that come after it.                                                     *)
applyAgentSide(f, h) ==
    LET added == [h EXCEPT !.agentSide = @ \union {f}]
    IN  {Failed(h), Failed(added), Done(added)}
            \union IF f \in ShellFindings THEN rewriteAgentShell(f, h) ELSE {}

ApplyDiagnosticRepair(f, h) ==
    CASE f = "agent-user" -> setupAgentUser(h)
      [] f = "agent-home" -> applySetupAgentHome(h)
      [] f = "dev-group" -> setupDevGroup(h)
      [] f = "home-traverse" -> setupHomeDirTraverse(h)
      [] f = "workspace" -> applyWorkspaceRepair(h)
      [] f = "sudoers" -> setupSudoers(h)
      [] f = "pf" -> applyNetworkPF(h)
      [] f = "dns-blocklist" -> applyDNSBlocklist(h)
      [] f = "persistence" -> applyNetworkPersistence(h)
      [] OTHER -> applyAgentSide(f, h)

verifyNetworkPF(h) == h.anchor # "absent" /\ h.loaded # "none"
verifySetupSudoers(h) == h.sudoers /\ h.helper /\ h.user # "absent"
verifyNetworkPersistence(h) == h.plist /\ h.daemon /\ h.registered

VerifyDiagnosticRepair(f, h) ==
    CASE f = "agent-user" -> h.user = "made"
      [] f = "agent-home" -> h.home
      [] f = "dev-group" -> h.group
      [] f = "home-traverse" -> h.traverse
      [] f = "workspace" -> h.workspace
      [] f = "sudoers" -> verifySetupSudoers(h)
      [] f = "pf" -> verifyNetworkPF(h)
      [] f = "dns-blocklist" -> h.dns = "whole"
      [] f = "persistence" -> verifyNetworkPersistence(h)
      [] OTHER -> f \in h.agentSide

(* What comes after the item.                                              *)
NextItem(i) == /\ drItems' = drItems \ {i}
               /\ drPhase' = IF drItems = {i} THEN "idle" ELSE "applying"

(* The apply half of executeDiagnosticRepairPlan: an error fails this item *)
(* and the loop goes on.                                                   *)
ApplyItem ==
    /\ drPhase = "applying"
    /\ \E i \in drItems :
         /\ AtItem(i)
         /\ \E r \in ApplyDiagnosticRepair(Checks[i], drHost) :
              /\ drHost' = r.host
              /\ drBlind' = (drBlind \/ r.blind)
              /\ IF r.err
                 THEN NextItem(i) /\ drFailed' = drFailed \union {Checks[i]}
                 ELSE drPhase' = "verifying" /\ UNCHANGED <<drItems, drFailed>>
    /\ UNCHANGED <<drReceipts, drDrifts, drRuns>>

(* The verification reads .zshrc again, and may fail to.                   *)
VerifyItem ==
    /\ drPhase = "verifying"
    /\ \E i \in drItems :
         /\ AtItem(i)
         /\ \/ /\ VerifyDiagnosticRepair(Checks[i], drHost)
               /\ drReceipts' = drReceipts \union {Checks[i]}
               /\ UNCHANGED drFailed
            \/ /\ VerifyDiagnosticRepair(Checks[i], drHost) => Checks[i] \in ShellFindings
               /\ drFailed' = drFailed \union {Checks[i]}
               /\ UNCHANGED drReceipts
         /\ NextItem(i)
    /\ UNCHANGED <<drHost, drBlind, drDrifts, drRuns>>

(* The process dies in the middle of the plan.                             *)
DoctorDies ==
    /\ drPhase # "idle"
    /\ drPhase' = "idle"
    /\ drItems' = {}
    /\ UNCHANGED <<drHost, drReceipts, drFailed, drBlind, drDrifts, drRuns>>

(* What an upgrade, another tool or the administrator does to the host     *)
(* between two commands.                                                   *)
Drifted(h) ==
    {[h EXCEPT !.user = "absent"], [h EXCEPT !.user = "unfinished"], [h EXCEPT !.home = FALSE],
     [h EXCEPT !.group = FALSE], [h EXCEPT !.traverse = FALSE], [h EXCEPT !.workspace = FALSE],
     [h EXCEPT !.sudoers = FALSE], [h EXCEPT !.helper = FALSE], [h EXCEPT !.helper = TRUE],
     [h EXCEPT !.anchor = "absent"], [h EXCEPT !.anchor = "stale"],
     [h EXCEPT !.registered = FALSE, !.loaded = "none"], [h EXCEPT !.loaded = "none"],
     [h EXCEPT !.dns = "absent"], [h EXCEPT !.dns = "partial"],
     [h EXCEPT !.plist = FALSE, !.daemon = FALSE], [h EXCEPT !.daemon = FALSE],
     [h EXCEPT !.agentSide = {}]}

HostDrifts ==
    /\ drPhase = "idle"
    /\ drDrifts < MaxDrift
    /\ drHost' \in Drifted(drHost) \ {drHost}
    /\ drDrifts' = drDrifts + 1
    /\ drReceipts' = {}
    /\ drFailed' = {}
    /\ drBlind' = FALSE
    /\ UNCHANGED <<drPhase, drItems, drRuns>>

DrInit ==
    /\ drHost = SoundHost
    /\ drPhase = "idle"
    /\ drItems = {}
    /\ drReceipts = {}
    /\ drFailed = {}
    /\ drBlind = FALSE
    /\ drDrifts = 0
    /\ drRuns = 0

DrNext ==
    \/ diagnosticRepairPlan
    \/ confirmDiagnosticRepairPlan
    \/ diagnosticRepairPlanDeclined
    \/ ApplyItem
    \/ VerifyItem
    \/ DoctorDies
    \/ HostDrifts

DrSpec == DrInit /\ [][DrNext]_drVars

-----------------------------------------------------------------------------
(* The types of the variables.                                             *)
DrTypeOK ==
    /\ drHost \in Hosts
    /\ drPhase \in {"idle", "asking", "applying", "verifying"}
    /\ drItems \subseteq DOMAIN Checks
    /\ drPhase = "idle" <=> drItems = {}
    /\ drReceipts \subseteq DrFindings
    /\ drFailed \subseteq DrFindings
    /\ drBlind \in BOOLEAN
    /\ drDrifts \in 0 .. MaxDrift
    /\ drRuns \in 0 .. MaxDoctorRuns

(* A receipt of executeDiagnosticRepairPlan, once given, stays true: no    *)
(* later item of the plan, whether it succeeds, fails half way or dies,    *)
(* undoes what an earlier one verified, although the pf and persistence    *)
(* repairs rework the same files and sudoers depends on the account.  The  *)
(* one exception is the agent's .zshrc, which two repairs rewrite: where   *)
(* one of them could not read it, or tore it, the block the other one put  *)
(* there may be gone, receipt or not.                                      *)
ReceiptsStayTrue ==
    \A f \in drReceipts :
        /\ f \notin drFailed
        /\ VerifyDiagnosticRepair(f, drHost) \/ (drBlind /\ f \in ShellFindings)

(* The sudoers finding says the entries are restored "only after           *)
(* containment prerequisites verify": a step that installs them does so on *)
(* a host whose firewall verifies.  The executor follows the order of the  *)
(* checks, in which sudoers come before pf, and reads no precondition.     *)
SudoersAfterContainment ==
    [][~drHost.sudoers /\ drHost'.sudoers => verifyNetworkPF(drHost)]_drVars

=============================================================================
