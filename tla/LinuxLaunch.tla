---- MODULE LinuxLaunch ----
(***************************************************************************)
(* A launch on the experimental Linux lanes, from the compiled launch spec *)
(* to the recorded result (containment/linux, platform/linux and           *)
(* internal/runtime/linux, with cmd/hazmat-launch's run-agent).            *)
(*                                                                         *)
(* The runner (RunCurrentUser or RunAgentUser) admits the spec, and then   *)
(* one process enforces the containment: the runner itself on the          *)
(* current-user lane, the root helper started through sudo on the          *)
(* agent-user lane.  The enforcer runs seven stages in order, records the  *)
(* phases in metadata.json and starts the agent; the runner writes         *)
(* result.json and removes the metadata.                                   *)
(*                                                                         *)
(* A stage is one step here.  Which thread makes its system calls, and so  *)
(* which thread it contains, is not modelled.  The sidecar directory is    *)
(* the run's own.                                                          *)
(***************************************************************************)
EXTENDS Naturals, Sequences

Lanes == {"current-user", "agent-user"}

\* Features of the host that the report finds available or not; one whose
\* probe is unreadable is not.
Features == {"UserNamespaces", "MountNamespaces", "CgroupV2", "Landlock",
             "Seccomp", "NetworkNamespaces"}

\* The order of enforceCurrentUser's steps.
enforceSteps == <<"fds_closed", "namespaces", "mounts", "network",
                  "privileges", "landlock", "seccomp">>

VARIABLES
    llRun,       \* the request: lane, gates, spec options and host report
    llRunner,    \* the runner: "start", "waiting" or "ended"
    llHelper,    \* the agent-user helper under sudo: "none", "sudo", "run", "dead"
    llPos,       \* stages done by the enforcer: 0 .. 7, 8 recorded, 9 exec'd
    llMeta,      \* the phases in metadata.json; <<>> when there is no file
    llAgent,     \* the agent: "none", "running" or "ended"
    llCancelled, \* the run's context is cancelled
    llResult     \* result.json: "none", "exited", "failed" or "cancelled"

llVars == <<llRun, llRunner, llHelper, llPos, llMeta, llAgent, llCancelled,
            llResult>>

AgentLane == llRun.lane = "agent-user"

-----------------------------------------------------------------------------
(* The compiler and the admission.                                         *)

\* What each lane's spec is refused for (featureGapRequirements).
featureGapRequirements(lane) ==
    IF lane = "agent-user" THEN Features \ {"UserNamespaces"} ELSE Features

\* The gaps written into the spec.
capabilityGaps(run) ==
    (featureGapRequirements(run.lane) \ run.available)
        \cup (IF run.executable THEN {} ELSE {"helper-missing"})

\* The gaps found at admission on the current-user lane.
admissionGaps(run) ==
    ({"UserNamespaces", "MountNamespaces", "Landlock", "Seccomp"}
        \cup (IF run.netNone THEN {"NetworkNamespaces"} ELSE {})) \ run.available

\* A host report lists the missing setup until a caller has verified it.
agentUserBackendStatus(run) ==
    ({"CgroupV2"} \ run.available)
        \cup (IF run.prepared THEN {} ELSE {"setup-required"})

\* The helper takes its own setup for granted.
agentUserHelperAdmissionReport == {}

\* And the gaps found on the agent-user lane.
agentUserAdmissionGaps(run, backendGaps) ==
    ({"CgroupV2"} \ run.available) \cup backendGaps

\* The checks before any side effect, in both runners.
Admitted(run) ==
    /\ run.gate
    /\ run.executable
    /\ capabilityGaps(run) = {}
    /\ run.command
    /\ IF run.lane = "agent-user"
       THEN agentUserAdmissionGaps(run, agentUserBackendStatus(run)) = {}
       ELSE admissionGaps(run) = {}

-----------------------------------------------------------------------------
(* The sidecar files.                                                      *)

\* Slip: the final phase is not asked for.
AcceptLaunched(events) ==
    Len(events) >= 2
\* Accepted metadata: the three phases in order, contained with the
\* enforcement complete.
validateRunMetadata(events) ==
    events = <<"planned", "launched", "contained">>

writeTerminalResult(phase) ==
    /\ llResult' = phase
    /\ llMeta' = <<>>
    /\ llRunner' = "ended"

\* The runner returns without a result file: the write was refused.
ReturnUnrecorded ==
    /\ llRunner' = "ended"
    /\ UNCHANGED llResult

-----------------------------------------------------------------------------
(* The runner up to the enforcement.                                       *)

LlInit ==
    /\ llRun \in [lane : Lanes, gate : BOOLEAN, executable : BOOLEAN,
                  command : BOOLEAN, netNone : BOOLEAN, prepared : BOOLEAN,
                  available : {Features} \cup {Features \ {f} : f \in Features}]
    /\ llRunner = "start"
    /\ llHelper = "none"
    /\ llPos = 0
    /\ llMeta = <<>>
    /\ llAgent = "none"
    /\ llCancelled = FALSE
    /\ llResult = "none"

Refuse ==
    /\ llRunner = "start"
    /\ ~Admitted(llRun)
    /\ llRunner' = "ended"
    /\ UNCHANGED <<llRun, llHelper, llPos, llMeta, llAgent,
                   llCancelled, llResult>>

\* Cancelled before anything was written.
EndCancelledEarly ==
    /\ llRunner = "start"
    /\ Admitted(llRun)
    /\ llCancelled
    /\ writeTerminalResult("cancelled")
    /\ UNCHANGED <<llRun, llHelper, llPos, llAgent, llCancelled>>

\* The current-user runner records planned and launched and enforces itself.
RunCurrentUser ==
    /\ llRunner = "start"
    /\ Admitted(llRun) /\ ~llCancelled
    /\ ~AgentLane
    /\ llRunner' = "waiting"
    /\ llMeta' = <<"planned", "launched">>
    /\ UNCHANGED <<llRun, llHelper, llPos, llAgent,
                   llCancelled, llResult>>

\* The agent-user runner writes the spec, whose digest it passes along, and
\* starts the helper through sudo.
RunAgentUser ==
    /\ llRunner = "start"
    /\ Admitted(llRun) /\ ~llCancelled
    /\ AgentLane
    /\ llRunner' = "waiting"
    /\ llHelper' = "sudo"
    /\ UNCHANGED <<llRun, llPos, llMeta, llAgent,
                   llCancelled, llResult>>

\* sudo ends without the helper: not permitted, or no such file.
SudoRefuses ==
    /\ llHelper = "sudo"
    /\ llHelper' = "dead"
    /\ UNCHANGED <<llRun, llRunner, llPos, llMeta, llAgent,
                   llCancelled, llResult>>

\* The helper reads the spec whose digest it was given and admits it again,
\* with its own report of the host.
RunAgentUserRootHelper ==
    /\ llHelper = "sudo"
    /\ agentUserAdmissionGaps(llRun, agentUserHelperAdmissionReport) = {}
    /\ llHelper' = "run"
    /\ llMeta' = <<"planned", "launched">>
    /\ UNCHANGED <<llRun, llRunner, llPos, llAgent,
                   llCancelled, llResult>>

-----------------------------------------------------------------------------
(* The enforcement, by the runner or by the helper.                        *)

\* The process that enforces is at stage i.
EnforcingAt(i) ==
    /\ llPos = i - 1
    /\ IF AgentLane THEN llHelper = "run" ELSE llRunner = "waiting"

\* What a stage needs of the host beyond what admission asked.
Has(stage) ==
    CASE stage = "namespaces" -> "MountNamespaces" \in llRun.available
      [] stage = "landlock"   -> "Landlock" \in llRun.available
      [] stage = "seccomp"    -> "Seccomp" \in llRun.available
      [] OTHER                -> TRUE

\* The next stage; the runner's context is asked before each one, the
\* helper's is never cancelled.
EnforceStage ==
    /\ \E i \in DOMAIN enforceSteps :
           /\ EnforcingAt(i)
           /\ Has(enforceSteps[i])
           /\ llPos' = i
    /\ AgentLane \/ ~llCancelled
    /\ UNCHANGED <<llRun, llRunner, llHelper, llMeta, llAgent, llCancelled,
                   llResult>>

\* The enforcing process gives up: the helper dies and leaves the report to
\* the runner, which on its own lane records the failure itself.
GiveUp ==
    IF AgentLane
    THEN /\ llHelper' = "dead"
         /\ UNCHANGED <<llRunner, llMeta, llResult>>
    ELSE /\ writeTerminalResult("failed")
         /\ UNCHANGED llHelper

\* A stage fails, or the runner finds its context cancelled.
StageFails ==
    /\ \E i \in DOMAIN enforceSteps : EnforcingAt(i)
    /\ GiveUp
    /\ UNCHANGED <<llRun, llPos, llAgent, llCancelled>>

\* The phase contained is recorded.
RecordContained ==
    /\ EnforcingAt(Len(enforceSteps) + 1)
    /\ llPos' = Len(enforceSteps) + 1
    /\ llMeta' = llMeta \o <<"contained">>
    /\ UNCHANGED <<llRun, llRunner, llHelper, llAgent,
                   llCancelled, llResult>>

\* The write is refused, as Landlock or the dropped uid may: the runner
\* returns and the helper dies, neither with a result.
RecordRefused ==
    /\ EnforcingAt(Len(enforceSteps) + 1)
    /\ IF AgentLane
       THEN llHelper' = "dead" /\ UNCHANGED <<llRunner, llResult>>
       ELSE ReturnUnrecorded /\ UNCHANGED llHelper
    /\ UNCHANGED <<llRun, llPos, llMeta, llAgent, llCancelled>>

\* The agent is started.
Exec ==
    /\ EnforcingAt(Len(enforceSteps) + 2)
    /\ AgentLane \/ ~llCancelled
    /\ llPos' = Len(enforceSteps) + 2
    /\ llAgent' = "running"
    /\ UNCHANGED <<llRun, llRunner, llHelper, llMeta,
                   llCancelled, llResult>>

\* The command cannot be started.
ExecFails ==
    /\ EnforcingAt(Len(enforceSteps) + 2)
    /\ IF AgentLane
       THEN llHelper' = "dead" /\ UNCHANGED <<llRunner, llMeta, llResult>>
       ELSE /\ writeTerminalResult(IF llCancelled THEN "cancelled" ELSE "failed")
            /\ UNCHANGED llHelper
    /\ UNCHANGED <<llRun, llPos, llAgent, llCancelled>>

-----------------------------------------------------------------------------
(* The end of the run.                                                     *)

\* The agent ends; the helper takes its exit code for its own.
AgentEnds ==
    /\ llAgent = "running"
    /\ llAgent' = "ended"
    /\ llHelper' = IF AgentLane THEN "dead" ELSE llHelper
    /\ UNCHANGED <<llRun, llRunner, llPos, llMeta,
                   llCancelled, llResult>>

\* The caller cancels.  The agent of the current-user lane is the runner's
\* own child and is killed; sudo runs as root and refuses the signal once it
\* has started, so only a sudo that has not is killed.
Cancel ==
    /\ ~llCancelled
    /\ llCancelled' = TRUE
    /\ IF AgentLane
       THEN /\ \/ llHelper = "sudo" /\ llHelper' = "dead"
               \/ UNCHANGED llHelper
            /\ UNCHANGED llAgent
       ELSE /\ llAgent' = IF llAgent = "running" THEN "ended" ELSE llAgent
            /\ UNCHANGED llHelper
    /\ UNCHANGED <<llRun, llRunner, llPos, llMeta, llResult>>

\* Slip: a cancelled run does not wait for the helper.
ReturnOnCancel ==
    /\ llRunner = "waiting"
    /\ IF AgentLane THEN llHelper = "dead" \/ (llCancelled /\ llHelper # "none")
                    ELSE llAgent = "ended"
\* cmd.Run of the runner's lane has returned.
CommandReturned ==
    /\ llRunner = "waiting"
    /\ IF AgentLane THEN llHelper = "dead" ELSE llAgent = "ended"

\* The result: cancelled if the context is, otherwise what the metadata
\* supports.  An exit code of sudo or of a helper that died is an exit code
\* like the agent's.
Conclude ==
    /\ CommandReturned
    /\ writeTerminalResult(
           IF llCancelled THEN "cancelled"
           ELSE IF AgentLane /\ ~validateRunMetadata(llMeta) THEN "failed"
           ELSE "exited")
    /\ UNCHANGED <<llRun, llHelper, llPos, llAgent, llCancelled>>

LlNext ==
    \/ Refuse \/ EndCancelledEarly \/ RunCurrentUser \/ RunAgentUser
    \/ SudoRefuses \/ RunAgentUserRootHelper
    \/ EnforceStage \/ StageFails \/ RecordContained \/ RecordRefused
    \/ Exec \/ ExecFails \/ AgentEnds \/ Cancel \/ Conclude

LlSpec == LlInit /\ [][LlNext]_llVars

-----------------------------------------------------------------------------

\* Every variable keeps its type.
LlTypeOK ==
    /\ llRun.lane \in Lanes
    /\ llRunner \in {"start", "waiting", "ended"}
    /\ llHelper \in {"none", "sudo", "run", "dead"}
    /\ llPos \in 0 .. Len(enforceSteps) + 2
    /\ llMeta \in {<<>>, <<"planned", "launched">>,
                   <<"planned", "launched", "contained">>}
    /\ llAgent \in {"none", "running", "ended"}
    /\ llCancelled \in BOOLEAN
    /\ llResult \in {"none", "exited", "failed", "cancelled"}

\* The recorded result is true of the run: "exited" is written only after all
\* seven stages were enforced and recorded, although an exit code of sudo or
\* of a failing helper looks like one of the agent, and nothing of the run,
\* helper or agent, is still going or starts later once a result is there.
ResultIsTruthful ==
    /\ llResult = "exited" => llPos > Len(enforceSteps)
    /\ llResult # "none" => /\ llAgent # "running"
                            /\ llHelper \in {"none", "dead"}
====
