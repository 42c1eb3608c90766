---------------------------------- MODULE MCSessions ----------------------------------
(***************************************************************************)
(* What surrounds a session, for TLC: one run checks the components with   *)
(* which hazmat plans, prepares and serves a session.  They share no state *)
(* with one another, so that a behaviour is one of a single component: part *)
(* says which, and the others stay as they are at rest.                    *)
(***************************************************************************)
EXTENDS ProjectPermissions, GitSSHTransport, SessionHome, ServiceLifecycle,
        McpProxy, HostBroker, EgressAudit, SandboxLaunch, LinuxLaunch,
        LaunchHelper, Transcripts, CredentialSync, AclRepair, GitTrust, TLC

VARIABLE part \* the component whose behaviour this is

Parts == {"perms", "ssh", "home", "service", "mcp", "broker", "audit",
          "sandbox", "linux", "helper", "transcripts", "sync", "acl", "git"}

\* The components that are not running, each in one of its initial states.
PermsRests ==
    /\ grant = [p \in Path |-> FALSE] /\ owned = {} /\ trusted = FALSE
    /\ cache = [p \in Probed |-> NoEntry]
    /\ Init

SSHRests ==
    /\ jumps = NoJumps
    /\ invocation = [option |-> "allowed", command |-> 1, verb |-> "git"]
    /\ SSHInit

HomeRests ==
    /\ adapter = FALSE
    /\ persistent = [e \in HomeEntry |-> IF e = "seed" THEN 1 ELSE 0]
    /\ HomeInit

ServiceRests ==
    /\ svcReq = CHOOSE r \in SvcRequest : TRUE
    /\ SvcInit

BrokerRests ==
    /\ hbFacts = FALSE
    /\ hbSent = [k \in HbConn |-> CHOOSE r \in HbRequest : TRUE]
    /\ HbInit

AuditRests ==
    /\ auOpen = {}
    /\ AuInit

SandboxRests ==
    /\ sbBackend = FALSE /\ sbApproved = FALSE
    /\ SbInit

LinuxRests ==
    /\ llRun = [lane |-> CHOOSE l \in Lanes : TRUE, gate |-> FALSE, executable |-> FALSE,
                command |-> FALSE, netNone |-> FALSE, prepared |-> FALSE,
                available |-> Features]
    /\ LlInit

HelperRests ==
    /\ lhHelper = CHOOSE h \in Helpers : TRUE
    /\ lhReq = [profile |-> FALSE, current |-> FALSE, metadata |-> FALSE,
                temp |-> FALSE, direct |-> FALSE, env |-> CHOOSE e \in EnvLists : TRUE,
                args |-> CHOOSE a \in CommandLines : TRUE]
    /\ LhInit

TranscriptsRests ==
    /\ trHarness = "claude"
    /\ trAgent = [t \in Transcript |-> [Absent EXCEPT !.kind = "missing"]]
    /\ TrInit

SyncRests ==
    /\ csSupport = "supported" /\ csCached = FALSE
    /\ csAt = [e \in CsEnd |-> NoMaterial]
    /\ CsInit

AclRests ==
    /\ aclHas = [p \in AclPath \cup {AclRoot} |-> IF p = AclRoot THEN "none" ELSE "absent"]
    /\ aclMine = {}
    /\ AclInit

GitRests ==
    /\ gtSystem = {} /\ gtReadDirs = {}
    /\ gtRepo = [s \in GtSession |-> CHOOSE d \in GtDir : TRUE]
    /\ GtInit

SessionsInit ==
    /\ part \in Parts
    /\ IF part = "perms" THEN Init ELSE PermsRests
    /\ IF part = "ssh" THEN SSHInit ELSE SSHRests
    /\ IF part = "home" THEN HomeInit ELSE HomeRests
    /\ IF part = "service" THEN SvcInit ELSE ServiceRests
    /\ McpInit
    /\ IF part = "broker" THEN HbInit ELSE BrokerRests
    /\ IF part = "audit" THEN AuInit ELSE AuditRests
    /\ IF part = "sandbox" THEN SbInit ELSE SandboxRests
    /\ IF part = "linux" THEN LlInit ELSE LinuxRests
    /\ IF part = "helper" THEN LhInit ELSE HelperRests
    /\ IF part = "transcripts" THEN TrInit ELSE TranscriptsRests
    /\ IF part = "sync" THEN CsInit ELSE SyncRests
    /\ IF part = "acl" THEN AclInit ELSE AclRests
    /\ IF part = "git" THEN GtInit ELSE GitRests

SessionsVars ==
    <<part, permVars, sshVars, homeVars, svcVars, mcpVars, hbVars, auVars, sbVars,
      llVars, lhVars, trVars, csVars, aclVars, gtVars>>

PermsMoves ==
    /\ part = "perms" /\ Next
    /\ UNCHANGED <<part, sshVars, homeVars, svcVars, mcpVars, hbVars, auVars,
                   sbVars, llVars, lhVars, trVars, csVars, aclVars, gtVars>>

SSHMoves ==
    /\ part = "ssh" /\ SSHNext
    /\ UNCHANGED <<part, permVars, homeVars, svcVars, mcpVars, hbVars, auVars,
                   sbVars, llVars, lhVars, trVars, csVars, aclVars, gtVars>>

HomeMoves ==
    /\ part = "home" /\ HomeNext
    /\ UNCHANGED <<part, permVars, sshVars, svcVars, mcpVars, hbVars, auVars,
                   sbVars, llVars, lhVars, trVars, csVars, aclVars, gtVars>>

ServiceMoves ==
    /\ part = "service" /\ SvcNext
    /\ UNCHANGED <<part, permVars, sshVars, homeVars, mcpVars, hbVars, auVars,
                   sbVars, llVars, lhVars, trVars, csVars, aclVars, gtVars>>

McpMoves ==
    /\ part = "mcp" /\ McpNext
    /\ UNCHANGED <<part, permVars, sshVars, homeVars, svcVars, hbVars, auVars,
                   sbVars, llVars, lhVars, trVars, csVars, aclVars, gtVars>>

BrokerMoves ==
    /\ part = "broker" /\ HbNext
    /\ UNCHANGED <<part, permVars, sshVars, homeVars, svcVars, mcpVars, auVars,
                   sbVars, llVars, lhVars, trVars, csVars, aclVars, gtVars>>

AuditMoves ==
    /\ part = "audit" /\ AuNext
    /\ UNCHANGED <<part, permVars, sshVars, homeVars, svcVars, mcpVars, hbVars,
                   sbVars, llVars, lhVars, trVars, csVars, aclVars, gtVars>>

SandboxMoves ==
    /\ part = "sandbox" /\ SbNext
    /\ UNCHANGED <<part, permVars, sshVars, homeVars, svcVars, mcpVars, hbVars,
                   auVars, llVars, lhVars, trVars, csVars, aclVars, gtVars>>

LinuxMoves ==
    /\ part = "linux" /\ LlNext
    /\ UNCHANGED <<part, permVars, sshVars, homeVars, svcVars, mcpVars, hbVars,
                   auVars, sbVars, lhVars, trVars, csVars, aclVars, gtVars>>

HelperMoves ==
    /\ part = "helper" /\ LhNext
    /\ UNCHANGED <<part, permVars, sshVars, homeVars, svcVars, mcpVars, hbVars,
                   auVars, sbVars, llVars, trVars, csVars, aclVars, gtVars>>

TranscriptsMoves ==
    /\ part = "transcripts" /\ TrNext
    /\ UNCHANGED <<part, permVars, sshVars, homeVars, svcVars, mcpVars, hbVars,
                   auVars, sbVars, llVars, lhVars, csVars, aclVars, gtVars>>

SyncMoves ==
    /\ part = "sync" /\ CsNext
    /\ UNCHANGED <<part, permVars, sshVars, homeVars, svcVars, mcpVars, hbVars,
                   auVars, sbVars, llVars, lhVars, trVars, aclVars, gtVars>>

AclMoves ==
    /\ part = "acl" /\ AclNext
    /\ UNCHANGED <<part, permVars, sshVars, homeVars, svcVars, mcpVars, hbVars,
                   auVars, sbVars, llVars, lhVars, trVars, csVars, gtVars>>

GitMoves ==
    /\ part = "git" /\ GtNext
    /\ UNCHANGED <<part, permVars, sshVars, homeVars, svcVars, mcpVars, hbVars,
                   auVars, sbVars, llVars, lhVars, trVars, csVars, aclVars>>

SessionsNext ==
    \/ PermsMoves \/ SSHMoves \/ HomeMoves \/ ServiceMoves \/ McpMoves
    \/ BrokerMoves \/ AuditMoves \/ SandboxMoves \/ LinuxMoves
    \/ HelperMoves \/ TranscriptsMoves \/ SyncMoves \/ AclMoves \/ GitMoves

SessionsSpec == SessionsInit /\ [][SessionsNext]_SessionsVars

----------------------------------------------------------------------------

\* The types of the running component's variables.
SessionsTypeOK ==
    /\ part = "perms" => TypeOK
    /\ part = "ssh" => SSHTypeOK
    /\ part = "home" => HomeTypeOK
    /\ part = "service" => SvcTypeOK
    /\ part = "mcp" => McpTypeOK
    /\ part = "broker" => HbTypeOK
    /\ part = "audit" => AuTypeOK
    /\ part = "sandbox" => SbTypeOK
    /\ part = "linux" => LlTypeOK
    /\ part = "helper" => LhTypeOK
    /\ part = "transcripts" => TrTypeOK
    /\ part = "sync" => CsTypeOK
    /\ part = "acl" => AclTypeOK
    /\ part = "git" => GtTypeOK

\* What either side wrote reaches the other: the server's output the client,
\* and every snapshot of the connections the report (stdio.go, egress_audit.go).
OutputComplete == ProxyOutputComplete /\ ReportHasEverySnapshot

\* What was started for a session can be taken away again: a service leaves
\* nothing, and the configuration lists the sandbox (lifecycle.go, sandbox.go).
NothingLeftBehind == ServiceLeavesNothing /\ KnownToReset

\* The agent runs as it was admitted, on every lane: behind the stages its
\* metadata claims, with the words it was given, under the network policy.
LaunchesAsAdmitted ==
    ResultIsTruthful /\ RunsWhatWasAsked /\ PreparedRunsAreConfined

\* What hazmat takes to be in order about a project's permissions is: a session
\* starts on it, a cache hit says it, a repair reports it (acl_health_cache.go,
\* git_preflight.go, workspace_acl.go).
PermissionsAsReported == PermissionsTrue /\ RepairReachesReported

\* Of two versions of the same thing the newer survives being copied over: in the
\* home of a session, in a transcript and in a credential
\* (session_home_writeback.go, resume.go, credential_sync.go).
NewerKept == HomeSurvives /\ TranscriptsKept /\ FreshestWins

----------------------------------------------------------------------------
\* The words of LaunchHelper, the helper's own options among them.
AskedCommands == {<<>>, <<"agent">>, <<"agent", "--hazmat-env", "A=2">>,
                  <<"--hazmat-direct-exec", "agent">>}

AskedPairs == {<<>>, <<"A=1">>, <<"A=1", "B=1">>}

Words == HostWords \cup {"agent", "A=1", "A=2", "B=1"}

\* The project of AclRepair: a directory with a file, and a .git.
ProjectKind == ("src" :> "dir") @@ ("main" :> "file") @@ (".git" :> "skipped")

ProjectParent == ("src" :> "root") @@ ("main" :> "src") @@ (".git" :> "root")

ProjectAbove == ("src" :> {"root"}) @@ ("main" :> {"root", "src"}) @@ (".git" :> {"root"})

ProjectDepth == ("root" :> 0) @@ ("src" :> 1) @@ (".git" :> 1)

\* The directories of GitTrust: a workspace and a repository in it.
Below == ("workspace" :> {"repo"}) @@ ("repo" :> {})

ForeignEntries == {[dir |-> "workspace", below |-> TRUE], [dir |-> "repo", below |-> FALSE]}

\* Sessions of a component are alike.
SessionSymmetry == Permutations(Session)
=============================================================================
