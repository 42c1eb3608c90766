---------------------------- MODULE SandboxLaunch ----------------------------
(***************************************************************************)
(* Sessions that run in a Docker sandbox: how a launch is routed to native *)
(* containment or to Docker, the admission of a Docker launch, the sandbox *)
(* it reuses or creates, its network policy, and the commands "sandbox     *)
(* setup" and "sandbox reset". The name of a sandbox is a function of the  *)
(* agent, the project, the profile and the mounts, so two launches of one  *)
(* agent in one project share a sandbox; the model is of one such name.    *)
(* Every docker command is a step of its own, and nothing orders the steps *)
(* of two launches.  Whoever changes the configuration loads the whole of  *)
(* it and later saves the whole of it, with no lock: a save writes back    *)
(* what was read, over whatever was saved in between.                      *)
(***************************************************************************)
EXTENDS Naturals

CONSTANTS
    SbSession,  \* hazmat processes that launch the agent in the project
    MaxBoxes,   \* sandboxes ever created
    SbOverlap   \* a reset may overlap another command that saves the configuration

ASSUME SandboxAssumption == MaxBoxes \in Nat /\ SbOverlap \in BOOLEAN

Docker == {"none", "sandbox", "auto"}

VARIABLES
    sbBox,      \* the sandbox: its number (0: there is none), whether it is up, its policy
    sbCount,    \* sandboxes created so far
    sbBackend,  \* the configuration has a backend
    sbManaged,  \* the configuration lists the sandbox
    sbApproved, \* the project is in the approvals file
    sbStep,     \* sbStep[s]: what launch s does next
    sbOwn,      \* sbOwn[s]: the sandbox it last put the policy on
    sbIn,       \* sbIn[s]: the sandbox its agent runs in
    sbRetry,    \* sbRetry[s]: it has already recreated a stale sandbox
    sbDry,      \* sbDry[s]: it was started with --dry-run
    sbCopy,     \* sbCopy[s]: the configuration it has loaded and is about to save
    sbEdit,     \* the one that a command, or a launch elsewhere, is about to save
    sbReset,    \* where "sandbox reset" is
    sbResetSaw, \* sandboxes created when it loaded a configuration that lists the sandbox
    sbExcused   \* the sandbox was left out of the record in a way the code allows

sbVars == <<sbBox, sbCount, sbBackend, sbManaged, sbApproved, sbStep,
            sbOwn, sbIn, sbRetry, sbDry, sbCopy, sbEdit, sbReset, sbResetSaw,
            sbExcused>>
sbLaunches == <<sbStep, sbOwn, sbIn, sbRetry, sbDry, sbCopy>>
sbReading == <<sbReset, sbResetSaw, sbEdit>>
sbStore == <<sbBackend, sbManaged, sbApproved>>
sbRest == <<sbCount, sbReading>>

NoBox == [n |-> 0, up |-> FALSE, policy |-> FALSE]

\* What of a loaded configuration matters here, and none loaded.
Loaded == [backend |-> sbBackend, managed |-> sbManaged]

NoCopy == [none |-> TRUE]

SbInit ==
    /\ sbBox = NoBox /\ sbCount = 0
    /\ sbBackend \in BOOLEAN /\ sbManaged = FALSE /\ sbApproved \in BOOLEAN
    /\ sbStep = [s \in SbSession |-> "idle"]
    /\ sbOwn = [s \in SbSession |-> 0] /\ sbIn = [s \in SbSession |-> 0]
    /\ sbRetry = [s \in SbSession |-> FALSE] /\ sbDry = [s \in SbSession |-> FALSE]
    /\ sbCopy = [s \in SbSession |-> NoCopy] /\ sbEdit = NoCopy
    /\ sbReset = "idle" /\ sbResetSaw = 0 /\ sbExcused = FALSE

SbGo(s, here, there) == sbStep[s] = here /\ sbStep' = [sbStep EXCEPT ![s] = there]

\* The launch is over: an error, or the end of its session.
Over(s) ==
    /\ sbStep' = [sbStep EXCEPT ![s] = "idle"]
    /\ sbOwn' = [sbOwn EXCEPT ![s] = 0] /\ sbIn' = [sbIn EXCEPT ![s] = 0]
    /\ sbRetry' = [sbRetry EXCEPT ![s] = FALSE] /\ sbDry' = [sbDry EXCEPT ![s] = FALSE]
    /\ sbCopy' = [sbCopy EXCEPT ![s] = NoCopy]

SbKeep == UNCHANGED <<sbOwn, sbIn, sbRetry, sbDry, sbCopy>>

\* saveConfig of the copy c.  One that was loaded before the sandbox was listed
\* takes it off the list.
Saves(c) ==
    /\ sbBackend' = c.backend /\ sbManaged' = c.managed
    /\ sbExcused' = (~c.managed /\ (sbExcused \/ (sbManaged /\ sbBox.n # 0)))

----------------------------------------------------------------------------
(* Routing.                                                                *)

\* resolveDockerRoutingRequest: --docker, the deprecated flags, the project's
\* setting, and none. Combining --docker with a deprecated flag is an error.
Requests(flag, legacy, setting) ==
    IF flag # "absent" THEN IF legacy = "absent" THEN {flag} ELSE {}
    ELSE IF legacy # "absent" THEN {legacy}
    ELSE IF setting # "absent" THEN {setting} ELSE {"none"}

\* resolveSessionSandboxMode, up to the approval: whether the session is
\* native, goes to Docker, or does so once approved; nothing is an error.  When
\* no backend is configured and none is healthy that is an error too: Docker
\* Desktop starts, stops and is updated at any time, so that every use of a
\* backend may find it so.
Routes(mode, hard, shared) ==
    CASE mode = "sandbox" -> {"admit"}
      [] mode = "none" -> {"idle"}
      [] mode = "auto" ->
           IF shared THEN {} ELSE IF hard THEN {"approve"} ELSE {"idle"}

\* What only native containment has: no network, the install audit, Git SSH.
NativeOnly == {"network none", "audit", "git ssh"}

\* The requests for the agent that leave native containment. A target without
\* sandbox support refuses "sandbox", and "auto" when the project needs Docker.
Routed ==
    {to \in {"admit", "approve"} :
        \E flag, setting \in Docker \union {"absent"}, legacy \in {"sandbox", "none", "absent"},
           hard, shared, supported \in BOOLEAN, features \in SUBSET NativeOnly :
           \E mode \in Requests(flag, legacy, setting) :
              /\ supported /\ (shared => hard)
              /\ to \in Routes(mode, hard, shared)
              /\ to = "admit" => features = {}}

\* A launch of the agent.
Route(s) ==
    /\ sbStep[s] = "idle"
    /\ \E to \in Routed :
         sbStep' = [sbStep EXCEPT ![s] = IF sbApproved THEN "admit" ELSE to]
    /\ \E dry \in BOOLEAN : sbDry' = [sbDry EXCEPT ![s] = dry]
    /\ UNCHANGED <<sbOwn, sbIn, sbRetry, sbCopy, sbBox, sbStore, sbExcused, sbRest>>

\* ensureSandboxApproval while routing: declined, the session is native.  A dry
\* run answers yes by itself and records nothing, and the launch goes on.
ApproveRoute(s) ==
    /\ \/ SbGo(s, "approve", "admit") /\ SbKeep
          /\ sbApproved' = (sbApproved \/ ~sbDry[s])
       \/ sbStep[s] = "approve" /\ ~sbDry[s] /\ Over(s) /\ UNCHANGED sbApproved
    /\ UNCHANGED <<sbBox, sbBackend, sbManaged, sbExcused, sbRest>>

----------------------------------------------------------------------------
(* Admission: the order of PrepareLaunchAdmission.                         *)

\* loadHealthySandboxLaunchBackend: a backend that is not configured is to be
\* recorded as detected, unless in a dry run.  One that is not healthy, or is not
\* the one that was detected, is an error.
LoadHealthyBackend(s) ==
    SbGo(s, "admit", IF sbBackend \/ sbDry[s] THEN "verify" ELSE "adopt")

\* Integration variables and the backend; either may refuse.
Admit(s) ==
    /\ \/ LoadHealthyBackend(s) /\ SbKeep
       \/ sbStep[s] = "admit" /\ Over(s)
    /\ UNCHANGED <<sbBox, sbStore, sbExcused, sbRest>>

\* recordSandboxBackendConfig loads the configuration once more ...
AdoptLoads(s) ==
    /\ \/ /\ SbGo(s, "adopt", "adopting")
          /\ sbCopy' = [sbCopy EXCEPT ![s] = [Loaded EXCEPT !.backend = TRUE]]
          /\ UNCHANGED <<sbOwn, sbIn, sbRetry, sbDry>>
       \/ sbStep[s] = "adopt" /\ Over(s)
    /\ UNCHANGED <<sbBox, sbStore, sbExcused, sbRest>>

\* ... and saves it with the detected backend.
AdoptSaves(s) ==
    /\ SbGo(s, "adopting", "verify") /\ Saves(sbCopy[s])
    /\ sbCopy' = [sbCopy EXCEPT ![s] = NoCopy]
    /\ UNCHANGED <<sbOwn, sbIn, sbRetry, sbDry, sbBox, sbApproved, sbRest>>

\* Slip: a project whose approval is declined is launched all the same.
VerifyApprovalLoosely(s) ==
    /\ SbGo(s, "verify", "status") /\ UNCHANGED sbApproved /\ SbKeep
    /\ UNCHANGED <<sbBox, sbBackend, sbManaged, sbExcused, sbRest>>

\* The adapter, the specification and its compatibility, any of which may refuse,
\* and ensureSandboxApproval: declined or unattended, an error.
VerifyApproval(s) ==
    /\ \/ SbGo(s, "verify", "status") /\ SbKeep
          /\ sbApproved' = (sbApproved \/ ~sbDry[s])
       \/ sbStep[s] = "verify" /\ Over(s) /\ UNCHANGED sbApproved
    /\ UNCHANGED <<sbBox, sbBackend, sbManaged, sbExcused, sbRest>>

----------------------------------------------------------------------------
(* PrepareLaunch: the docker commands.                                     *)

\* A launch that ends after its sandbox was created and before it is recorded
\* leaves a sandbox that no reset knows of.
Leaves(s) == sbBox.n # 0 /\ ~sbManaged

\* docker sandbox ls
Status(s) ==
    /\ \/ /\ SbGo(s, "status", IF sbBox.n # 0 /\ ~sbBox.up THEN "remove"
                               ELSE IF sbBox.n # 0 THEN "policy" ELSE "create")
          /\ SbKeep
       \/ sbStep[s] = "status" /\ Over(s)
    /\ UNCHANGED <<sbBox, sbStore, sbExcused, sbRest>>

\* docker sandbox rm of the one that was seen stopped, whatever it is by now.
RemoveStopped(s) ==
    /\ \/ SbGo(s, "remove", "create") /\ SbKeep /\ sbBox' = NoBox /\ sbExcused' = FALSE
       \/ sbStep[s] = "remove" /\ Over(s) /\ UNCHANGED <<sbBox, sbExcused>>
    /\ UNCHANGED <<sbStore, sbRest>>

\* docker sandbox create, which fails when the name is taken.
Create(s) ==
    /\ sbCount < MaxBoxes
    /\ \/ /\ sbBox.n = 0 /\ SbGo(s, "create", "policy") /\ sbCount' = sbCount + 1
          /\ \E up \in BOOLEAN :
               sbBox' = [n |-> sbCount + 1, up |-> up, policy |-> FALSE]
          /\ SbKeep /\ sbExcused' = FALSE
       \/ sbStep[s] = "create" /\ Over(s) /\ UNCHANGED <<sbBox, sbCount, sbExcused>>
    /\ UNCHANGED <<sbStore, sbReading>>

\* docker sandbox network proxy, by name.
ApplyPolicy(s) ==
    /\ \/ /\ sbBox.n # 0 /\ SbGo(s, "policy", "record")
          /\ sbBox' = [sbBox EXCEPT !.policy = TRUE]
          /\ sbOwn' = [sbOwn EXCEPT ![s] = sbBox.n]
          /\ UNCHANGED <<sbIn, sbRetry, sbDry, sbCopy, sbExcused>>
       \/ /\ sbStep[s] = "policy" /\ Over(s) /\ UNCHANGED sbBox
          /\ sbExcused' = (sbExcused \/ Leaves(s))
    /\ UNCHANGED <<sbStore, sbRest>>

\* recordManagedSandbox loads the configuration ...
RecordLoads(s) ==
    /\ \/ /\ SbGo(s, "record", "list") /\ UNCHANGED sbExcused
          /\ sbCopy' = [sbCopy EXCEPT ![s] = [Loaded EXCEPT !.managed = TRUE]]
          /\ UNCHANGED <<sbOwn, sbIn, sbRetry, sbDry>>
       \/ /\ sbStep[s] = "record" /\ Over(s)
          /\ sbExcused' = (sbExcused \/ Leaves(s))
    /\ UNCHANGED <<sbBox, sbStore, sbRest>>

\* ... and saves it with the sandbox listed.
RecordManaged(s) ==
    /\ \/ /\ SbGo(s, "list", "run") /\ Saves(sbCopy[s])
          /\ sbCopy' = [sbCopy EXCEPT ![s] = NoCopy]
          /\ UNCHANGED <<sbOwn, sbIn, sbRetry, sbDry>>
       \/ /\ sbStep[s] = "list" /\ Over(s) /\ UNCHANGED <<sbBackend, sbManaged>>
          /\ sbExcused' = (sbExcused \/ Leaves(s))
    /\ UNCHANGED <<sbBox, sbApproved, sbRest>>

----------------------------------------------------------------------------
(* runPreparedSandboxSession.                                              *)

\* docker sandbox run, by name. When docker finds no such sandbox the launch
\* recreates it, once.
Run(s) ==
    /\ \/ /\ sbBox.n # 0 /\ SbGo(s, "run", "running")
          /\ sbBox' = [sbBox EXCEPT !.up = TRUE]
          /\ sbIn' = [sbIn EXCEPT ![s] = sbBox.n]
          /\ UNCHANGED <<sbOwn, sbRetry, sbDry, sbCopy>>
       \/ /\ sbBox.n = 0 /\ ~sbRetry[s] /\ SbGo(s, "run", "stale")
          /\ SbKeep /\ UNCHANGED sbBox
       \/ sbBox.n = 0 /\ sbRetry[s] /\ sbStep[s] = "run" /\ Over(s) /\ UNCHANGED sbBox
    /\ UNCHANGED <<sbStore, sbExcused, sbRest>>

\* The stale name is removed and the launch admitted again.
RemoveStale(s) ==
    /\ \/ /\ SbGo(s, "stale", "admit") /\ sbBox' = NoBox /\ sbExcused' = FALSE
          /\ sbRetry' = [sbRetry EXCEPT ![s] = TRUE]
          /\ UNCHANGED <<sbOwn, sbIn, sbDry, sbCopy>>
       \/ sbStep[s] = "stale" /\ Over(s) /\ UNCHANGED <<sbBox, sbExcused>>
    /\ UNCHANGED <<sbStore, sbRest>>

\* The agent exits, or its sandbox was removed under it. A sandbox without an
\* agent may stop.
AgentExits(s) ==
    /\ sbStep[s] = "running" /\ Over(s)
    /\ \E up \in BOOLEAN :
         /\ up => sbBox.up
         /\ ~up => \A t \in SbSession \ {s} : sbIn[t] # sbBox.n
         /\ sbBox' = IF sbBox.n = 0 THEN sbBox ELSE [sbBox EXCEPT !.up = up]
    /\ UNCHANGED <<sbStore, sbExcused, sbRest>>

----------------------------------------------------------------------------
(* Commands.                                                               *)

\* runSandboxSetup loads the configuration, to save it with a healthy backend.
SetupLoads ==
    /\ sbEdit = NoCopy /\ (SbOverlap \/ sbReset = "idle")
    /\ sbEdit' = [Loaded EXCEPT !.backend = TRUE]
    /\ UNCHANGED <<sbBox, sbStore, sbLaunches, sbExcused, sbCount,
                   sbReset, sbResetSaw>>

\* Any other command that saves the configuration loads it, a launch of another
\* sandbox among them.
OtherLoads ==
    /\ sbEdit = NoCopy /\ (SbOverlap \/ sbReset = "idle")
    /\ sbEdit' = Loaded
    /\ UNCHANGED <<sbBox, sbStore, sbLaunches, sbExcused, sbCount,
                   sbReset, sbResetSaw>>

\* The end of either: the copy is saved, unless the command failed.
EditSaves ==
    /\ sbEdit # NoCopy /\ sbEdit' = NoCopy
    /\ Saves(sbEdit) \/ UNCHANGED <<sbBackend, sbManaged, sbExcused>>
    /\ UNCHANGED <<sbBox, sbApproved, sbLaunches, sbCount,
                   sbReset, sbResetSaw>>

\* runSandboxReset loads the configuration and asks ...
ResetLoads ==
    /\ sbReset = "idle" /\ (sbBackend \/ sbManaged)
    /\ SbOverlap \/ sbEdit = NoCopy
    /\ sbReset' = "remove" /\ sbResetSaw' = IF sbManaged THEN sbCount ELSE 0
    /\ UNCHANGED <<sbBox, sbStore, sbLaunches, sbExcused, sbCount, sbEdit>>

\* Slip: a sandbox that cannot be removed does not stop the reset.
ResetRemovesWhatItCan ==
    /\ sbReset = "remove" /\ sbReset' = "save"
    /\ sbBox' \in IF sbResetSaw # 0 THEN {NoBox, sbBox} ELSE {sbBox}
    /\ UNCHANGED <<sbStore, sbResetSaw, sbLaunches, sbExcused, sbCount, sbEdit>>

\* ... removes the sandboxes it read of; if it cannot, or if the user says
\* no, the configuration is kept ...
ResetRemoves ==
    /\ sbReset = "remove"
    /\ \/ /\ sbReset' = "save" /\ UNCHANGED sbResetSaw
          /\ sbBox' = IF sbResetSaw # 0 THEN NoBox ELSE sbBox
       \/ sbReset' = "idle" /\ sbResetSaw' = 0 /\ UNCHANGED sbBox
    /\ UNCHANGED <<sbStore, sbLaunches, sbExcused, sbCount, sbEdit>>

\* ... and forgets the backend and every sandbox, those recorded since too.
ResetSaves ==
    /\ sbReset = "save" /\ sbReset' = "idle"
    /\ sbBackend' = FALSE /\ sbManaged' = FALSE
    /\ sbResetSaw' = 0 /\ sbExcused' = (sbExcused \/ sbBox.n > sbResetSaw)
    /\ UNCHANGED <<sbBox, sbApproved, sbLaunches, sbCount, sbEdit>>

SbNext ==
    \/ \E s \in SbSession :
         \/ Route(s) \/ ApproveRoute(s) \/ Admit(s) \/ AdoptLoads(s) \/ AdoptSaves(s)
         \/ VerifyApproval(s) \/ Status(s) \/ RemoveStopped(s) \/ Create(s) \/ ApplyPolicy(s)
         \/ RecordLoads(s) \/ RecordManaged(s) \/ Run(s) \/ RemoveStale(s) \/ AgentExits(s)
    \/ SetupLoads \/ OtherLoads \/ EditSaves
    \/ ResetLoads \/ ResetRemoves \/ ResetSaves

SbSpec == SbInit /\ [][SbNext]_sbVars

----------------------------------------------------------------------------

SbSteps == {"idle", "approve", "admit", "adopt", "adopting", "verify", "status", "remove",
            "create", "policy", "record", "list", "run", "running", "stale"}

SbCopies == [backend : BOOLEAN, managed : BOOLEAN] \union {NoCopy}

\* Types of the variables.
SbTypeOK ==
    /\ sbBox \in [n : 0..MaxBoxes, up : BOOLEAN, policy : BOOLEAN]
    /\ sbCount \in 0..MaxBoxes
    /\ sbBackend \in BOOLEAN /\ sbManaged \in BOOLEAN /\ sbApproved \in BOOLEAN
    /\ sbStep \in [SbSession -> SbSteps]
    /\ sbOwn \in [SbSession -> 0..MaxBoxes] /\ sbIn \in [SbSession -> 0..MaxBoxes]
    /\ sbRetry \in [SbSession -> BOOLEAN] /\ sbDry \in [SbSession -> BOOLEAN]
    /\ sbCopy \in [SbSession -> SbCopies] /\ sbEdit \in SbCopies
    /\ sbReset \in {"idle", "remove", "save"}
    /\ sbResetSaw \in 0..MaxBoxes /\ sbExcused \in BOOLEAN

\* The configuration forgets a sandbox only after it was removed: one that no
\* launch is preparing and that the configuration does not list was left by a
\* launch that failed before recording it, was created, or recorded, while a
\* reset was under way, or was taken off the list by a configuration that had
\* been loaded before the sandbox was on it.
KnownToReset ==
    (sbBox.n # 0 /\ ~sbManaged /\ ~sbExcused)
        => \E s \in SbSession : sbStep[s] \in {"policy", "record", "list"}

\* An agent runs in Docker only in an approved project, unless it was launched
\* as a dry run, and in the sandbox its own launch prepared only under the
\* network policy: a launch that overlaps may replace the sandbox, but none
\* removes the policy from this one.
PreparedRunsAreConfined ==
    \A s \in SbSession :
        sbIn[s] # 0 =>
            /\ sbApproved \/ sbDry[s]
            /\ (sbIn[s] = sbOwn[s] /\ sbIn[s] = sbBox.n) => sbBox.policy

\* "The network policy is applied before the agent launches": every agent
\* that runs in the sandbox runs under the policy.
PolicyBeforeLaunch ==
    \A s \in SbSession : (sbIn[s] # 0 /\ sbIn[s] = sbBox.n) => sbBox.policy
=============================================================================
