# Hazmat in TLA+

Hazmat runs AI coding agents on a developer's machine as a separate, contained
user. Most of its 78,000 lines of Go prepare something before a session, hand it
to the contained side, and take it back or tear it down afterwards. Few of those
sequences are atomic: files are rewritten in place, several `hazmat` commands of
the same user share state without a lock, the user presses Ctrl-C, and the
contained agent edits whatever it can reach. This project models the sequences
where an order of events that nobody tests could lose a credential, run a script
nobody approved, start a command twice, leave the agent's privilege without its
containment, or destroy work.

Paths below are relative to `hazmat/` in the repository unless they begin with
`src/`. (The repository has TLA+ models of its own under `src/tla/`, written as
design documents; nothing here depends on them, but their prose counts as a
statement about the code and is quoted where the code disagrees.)

## 1. Inventory

| Component | State it keeps | Operations | What is hard | What makes it correct |
|---|---|---|---|---|
| Harness credentials (`harness_auth_runtime.go`, `claude_keychain_harvest.go`, `internal/credentialruntime/store.go`) | host store, agent file, agent keychain item, host user's copy, conflict archive | startup recovery, launch sync, materialize, harvest, publish | crash between any two writes, in-place writes, unreadable keychain, two processes, timestamps with different resolution | the latest token is never lost; a stored token is not replaced silently; residue becomes host-owned |
| Credential sync (`credential_sync.go`) | one credential in the host store, perhaps a cache of the host user's, and the agent's sinks | read the ends, deliver the freshest, harvest it, clear | a tool rotates the credential between the reads and the writes; every end may fail | no fresher value is overwritten; a sync that ends well leaves the ends agreed |
| Repository hooks (`hook_approval.go`, `hook_runtime.go`, `hook_cli.go`) | approvals file, snapshots, `core.hooksPath`, dispatchers, wrapper, blocks in foreign hook files | approve, install (plain, `--replace`, `--chain`, launch prompt), uninstall, rollback, dispatch | the agent edits while the user decides; commands overlap; half-done install and uninstall | only approved content runs; install validates; uninstall leaves nothing |
| Launch broker (`native_launch_broker.go`, `launch_broker_supervisor.go`, `internal/runtime/launchbroker/`) | one socket path, broker processes, queued connections, policy files | round trip, retry through a started broker, direct fallback, probe, unlink, start, ready wait, stop, serve, close | a retry of something that may have happened, a timeout against a late answer, a shared path | a command starts once; cleanup follows it; every launch ends |
| Session launch (`session.go`, `internal/sessionflow/`, `sessionlaunch/`, `statusbar.go`) | runtime steps with a cleanup each, the child, the signal timer | phases, prepare, policy, run, forward signals, tear down | failure in the middle, signals at any moment, a broker that waits for a client | what was created is released exactly once, in reverse order |
| Host mutations and health caches (`session_mutation.go`, `acl*.go`, `git_*health*.go`, `git_preflight.go`) | access lists, two cache files | probe, plan, repair, record | a verdict stale when used, two sessions rewriting one cache | a cached "healthy" is true of the path; no silent launch on wrong permissions |
| Project access lists (`workspace_acl.go`, `repair.go`) | the lists of a project's files | startup repair (bounded, shallow), backfill (all) | collected first and granted later, while files come and go | a repair that reports no trouble has reached all it was to reach |
| Trust of Git (`git_safe_directory.go`, `internal/setup/git_safe_directory.go`) | the system's gitconfig and the agent's | set up, roll back, ensure at a launch | a file rewritten from what was read before, shared with others | a session's repository is trusted; the lines of others stay |
| Session home (`session_home*.go`) | per-session home, fingerprints, recovery copies | lay out, copy in, compare, write back, clean up | the agent home changes during the session; a kill between two renames | nothing is destroyed but what is meant to be replaced |
| Host broker (`hostbroker/`, only with its build tag) | a socket, one request in progress | open, accept, decode, deliver, close | a deadline shorter than the call it covers, close during a request, a request at the broker when its call times out | nothing is sent after close, and nothing delivered but what timed out |
| Service harness (`internal/serviceharness/`, `proxyruntime/service.go`) | plan record, credentials, process | validate, clean residue, materialize, start, stop | every call can fail, the process can die between any two | no residue under a new service, none after success |
| MCP proxy (`mcpproxy/`, `proxyruntime/process.go`) | child process, two pipes | read a line, decide, forward, copy | pipes closed by Wait, two writers on one stream | all output reaches the client |
| Egress audit (`egress_audit.go`) | snapshots | poll, merge, join, report | the poller holds a snapshot when the command ends | the report misses no snapshot |
| Git SSH and HTTPS brokers (`git_ssh.go`, `git_https_credentials.go`) | per-session sockets, accept loops, frames on a connection | parse, choose a key, resolve jumps, copy, close | writers on one connection, clients that hang up or stay silent | frames are whole; no credential after close |
| Docker sandboxes (`sandbox.go`, `internal/runtime/docker/`) | the sandbox, its policy, the configuration's list | route, admit, create, apply policy, record, reset | launches that share a sandbox, each docker command a step | runs under the policy; reset finds everything |
| Launch helpers (`cmd/hazmat-launch*`, `internal/runtime/darwin`, `internal/runtime/linux`) | argument list, policy file, stages, metadata, result | build and parse words, check, sandbox, exec; admit, enforce, record | an error between two stages, a cancelled run, ambiguous words | what runs is what was asked, contained as recorded |
| Transcripts (`resume*.go`, `export.go`) | transcripts, sidecars and an index on both sides | resume, export | files that grow while they are read, times of different resolution | continuations survive, unless overtaken by their export |
| Configuration (`config.go`, `config_cloud.go`, `configmodel/ssh.go`) | `config.yaml` | load, change, save, migrate cloud keys | overlapping commands, in-place writes, migration inside a load | a file saved by one command loads; cloud keys survive |
| Repository setup (`repo_setup*.go`, `integration_*.go`) | remembered and rejected effects | collect, prompt, remember | stale records written back | only approved writes are applied |
| Harness lifecycle and assets (`harness_lifecycle.go`, `harness_assets.go`, `internal/harnessruntime/`, `internal/state/`) | `state.json`, the manifest of copies | install, import, uninstall, sync | overlapping commands, crash before the record | records match what is there; the agent's own files survive |
| Backup and restore (`kopia_wrapper.go`, `restore.go`, `backup.go`) | local and cloud snapshots | snapshot, clear, restore | a failure after the clear | cleared work is in a snapshot |
| Import (`config_import*.go`) | both homes and the store | compare, settle, apply | what was compared has changed when it is applied | what differs is replaced only as decided |
| Credential migration (`credential_migrate.go`, `credential_inventory.go`, `config_agent.go`) | old and new places of each credential | migrate, inventory, edit | copy then remove, overlapping commands, torn writes | no credential disappears; clean means clean |
| Runtime capability (`runtimecapability/`, `runtimeauthority/`) | signed results, catalogues, declarations, feeds | issue, verify, revoke, route | any old statement may be presented | a revocation takes effect with the expiry of the older feeds |
| Planescape client (`planescapeprovider/`) | a checkpoint per session | admit, operate, freeze, cancel, close, replay | lost answers, crashes, failed saves | what was sent since the admission is in the checkpoint |
| Setup, rollback, repair (`init*.go`, `migrate.go`, `rollback*.go`, `internal/setup/`, `diagnostic_*.go`) | users, firewall, sudoers, services, version | ordered steps, their undo, typed repairs | failure or interruption at any step, repetition | privilege never without containment; done means done |
| Policy compilers, command line, presentation | none | pure functions | little that depends on order | unit tests reach it |

How they interact. A session command runs recovery of the credentials of its
harness, prepares the session (hooks are offered here too, through the launch
prompt), materializes credentials and the session home, launches the contained
command directly or through the launch broker, and runs the collected cleanups,
harvest among them, in reverse. The components share files, not memory: the store
under `~/.hazmat/secrets`, `~/.hazmat/hook-approvals.yaml`, the broker's socket.
Since each component tolerates a crash of the session around it, it is modelled
with the other components reduced to "the process may end at any step".
`SessionRuntime` is where they meet: it takes the resources a launch creates, its
two Git brokers, the contained command and the signals together, and is shown to
implement the promise in `ResourceStack`; the launch broker with its clients is
shown to implement the promise in `CommandLaunch`.

`PROJECT.json` lists the components with their status, and under `hazards` the
places in the code where one of the hard behaviours bites.

## 2. Modules

| Module | Models | Lines |
|---|---|---|
| `HarnessAuth` | the credential round trip, one action per write | `harness_auth_runtime.go`, `claude_keychain_harvest.go`, `secret_store.go` |
| `HarnessAuthProofs` | theorems about it | |
| `MCHarnessAuth` | symmetries for TLC | |
| `GitHooks` | hook approval, installation, removal and dispatch | `hook_*.go`, the hooks part of `rollback.go` |
| `GitHooksProofs` | theorems about it | |
| `MCGitHooks` | which hooks each bundle declares | |
| `LaunchBroker` | clients, supervisors and brokers on one socket path | `native_launch_broker.go`, `launch_broker_*.go`, `internal/runtime/launchbroker/*.go` |
| `CommandLaunch` | abstract: what a launch promises about its command | |
| `LaunchBrokerProofs` | theorems about it, the refinement of `CommandLaunch` included | |
| `MCLaunchBroker` | pairs of launches | |
| `ResourceStack` | abstract: what a launch promises about what it creates | |
| `SessionRuntime` | one native launch, its two Git brokers and its signals | `session.go`, `sessionlaunch/runtime.go`, `internal/sessionflow/flow.go`, `statusbar.go`, the brokers of `git_ssh.go` and `git_https_credentials.go` |
| `SessionRuntimeProofs` | theorems about it, the refinement of `ResourceStack` included | |
| `ProjectPermissions` | probes, caches and host mutations of a session | `session_mutation.go`, `acl*.go`, `git_metadata_health_cache.go`, `git_preflight.go` |
| `AclRepair` | startup repair and backfill of a project's access lists | `workspace_acl.go`, `repair.go` |
| `GitTrust` | the safe directories of both gitconfigs | `git_safe_directory.go`, `internal/setup/git_safe_directory.go` |
| `CredentialSync` | the two-phase sync of one credential | `credential_sync.go` |
| `SessionHome` | session-local homes and their write-back | `session_home.go`, `session_home_writeback.go` |
| `GitSSHTransport` | one request to the Git SSH broker | `git_ssh.go` |
| `ServiceLifecycle` | runs of a session service | `internal/serviceharness/lifecycle.go`, `proxyruntime/service.go` |
| `McpProxy` | the stdio proxy on the process runner | `mcpproxy/stdio.go`, `proxyruntime/process.go` |
| `HostBroker` | the host broker's socket | `hostbroker/session.go` |
| `EgressAudit` | the egress report | `egress_audit.go` |
| `SandboxLaunch` | sessions in a Docker sandbox | `sandbox.go`, `internal/runtime/docker/`, `containment/docker/spec.go` |
| `LinuxLaunch` | the two Linux lanes | `internal/runtime/linux/`, `containment/linux/spec.go`, `platform/linux/report.go` |
| `LaunchHelper` | the argument list and the two macOS helpers | `cmd/hazmat-launch/main.go`, `cmd/hazmat-launch-fast/main.c`, `internal/runtime/darwin/runtime.go` |
| `Transcripts` | resume and export | `resume*.go`, `export.go` |
| `Configuration` | `config.yaml`, SSH keys, cloud key migration | `config.go`, `config_cloud.go`, `configmodel/ssh.go` |
| `RepoSetup` | integrations and the repository's remembered setup | `repo_setup*.go`, `integration_*.go` |
| `RepoSetupProofs` | that writes were approved, and types | |
| `HarnessAssets` | managed copies of prompt assets | `harness_assets.go` |
| `HarnessLifecycle` | install, import, uninstall and their records | `harness_lifecycle.go`, `internal/harnessruntime/`, `internal/state/`, `bootstrap_*.go` |
| `HostImport` | import of the user's settings | `config_import*.go` |
| `Backup` | snapshots and restore | `kopia_wrapper.go`, `restore.go`, `backup.go`, `internal/backupruntime/` |
| `CredentialMigration` | legacy places, their migration, the inventory | `credential_*.go`, `config_agent.go`, `git_https_credentials.go`, `credentials/registry.go` |
| `RuntimeCapability` | statements, revocation, the routing gate | `runtimecapability/`, `runtimeauthority/preview.go` |
| `PlanescapeProvider` | the provider client and its checkpoint | `planescapeprovider/` |
| `PlanescapeProviderProofs` | that what was sent is in the checkpoint, and types | |
| `HostSetup` | init, migration and rollback on macOS | `init*.go`, `migrate.go`, `rollback*.go`, `internal/setup/` |
| `LinuxSetup` | setup, repair and rollback of the Linux agent user | `internal/setup/linux/`, `diagnostic_linux_setup_repair.go`, `rollback_linux_support.go` |
| `DiagnosticRepair` | check, status and doctor on macOS | `diagnostic_*.go`, `test.go`, `internal/diagnostics/` |
| `MCSessions`, `MCHost` | two groups of components, composed | |
| `SessionsProofs`, `HostProofs` | theorems about the components of each group, and about the group | |

Definitions whose comment begins with "Slip" are faulty variants of the
definition that follows them (a dropped guard, a lost reset, a swapped order).
No specification uses them; they exist to show that a property notices the fault.

### HarnessAuth

A credential content is one of an opaque set of tokens, `Blank` (the logged-out
object Claude writes, or a file left empty by an interrupted write), or `NoFile`.
`store`, `agentFile`, `keychain`, `hostCopy` and `conflicts` are the five places
it can be in. A process is a program counter and the Go locals that live across a
write: `data` (what is about to be written), `seen` (the store content read
before), `base` (the baseline returned by materialization), `prefer`
(`PreferAgentKeychain`). `order` abstracts the comparison of the two modification
times the launch sync makes; a host Keychain stamp has whole seconds, so a
harvest and a login may tie or even look reversed.

The actions follow the functions: `Reconcile`, `FoldWrite`, `FoldClear` are
`reconcileKeychainResidueIntoAgentFile`; the `Migrate*` actions are
`migrateHarnessAuthArtifact`; `ProbeDone`, `SyncHost`, `MaterializeLoad`,
`MaterializeFile`, `KeychainDelete` and `KeychainAdd` are the launch; the
`Harvest*` actions are `harvestHarnessAuthArtifact` and its publication. Reads that follow one another are one step, each
write is a step, and `Crash` is possible at each. `Faults` names the calls that
may fail in an instance: a failed call takes the error path of the code (a
session note, an early return, a failed launch).

Abstractions. A torn write leaves the old content or an empty file, as a
truncate-then-write does. The merge of Claude's structured state file is only a
later artifact that may fail after the credential was materialized. The variant
of the agent path inside a session home is the same protocol on another path.

### GitHooks

A bundle stands for its hash. `repo` is what the agent can edit, `approvals` and
`snapshot` what it cannot; `hooksPath`, `managed`, `fallback` and `owner` are the
layouts in the repository that decide which dispatcher Git finds. `consented` is
a history variable: the bundles the user has agreed to and not withdrawn. `kept` is
another: the dispatchers, wrapper and `core.hooksPath` that an uninstall could not
remove, since the errors of its removals are discarded, or passed over because `.git`
was not a directory, until a later command writes or removes them. Each
command is a record `ps[s]` with its program counter and the values it read
earlier, among them its copy of the approvals file, which it rewrites as a whole
later without a lock (`loadHookApprovals`, `saveHookApprovals`).

Abstractions. The dispatchers of one directory are written in one step with
respect to each other. An approvals file torn by a crash is empty. The hook files
of a foreign owner exist only where `core.hooksPath` names them. A rollback goes
on after an uninstall that failed and then removes the records, so the run on
complete uninstalls does not include it.

### LaunchBroker

A client is one hazmat process with one launch. It tries a round trip on the
shared socket; if that fails it may look for its own supervisor, which probes and
unlinks the path, starts a broker as the agent user, waits for the socket, and
tries once more; if anything fails after that, it runs the command directly with
sudo. A broker binds, opens the permissions, accepts one connection at a time,
checks the policy file, runs the helper to its end, replies, and on a signal
closes and removes the path (in Go, up to three times). A connection is an entry
in a broker's queue with a flag that says whether the client still holds it, so a
request whose client has given up stays in the queue, as it does in the kernel.

Abstractions. A process makes one launch, so the supervisor that is kept for a
second launch is not reached; a launch made earlier by another process is kind
`past`, which leaves a listening broker behind. An explicitly named socket is the
same path. The removal of the stale path and the start of sudo are one step. A
socket that is bound and not yet listening refuses connections. PID reuse and a
full listen queue (128) are not modelled. A helper that is told to terminate is
reported as a normal response with exit code -1, as the code does.

`CommandLaunch` knows nothing of sockets, brokers and requests: a caller has an
outcome, a number of starts, the places where its command runs, and may have lost
touch with whoever it asked. `LaunchesAsPromised` is its specification under the
mapping at the end of the module: the outcome follows from the step of the client
(`Life`), the starts are `runs`, the places `child`, and lost touch is `gaveUp`.

### SessionRuntime and ResourceStack

A launch runs its startup phases (`sessionflow`), prepares its runtime steps
(`held` grows), writes the policy, starts the command and, when the command or a
failure ends it, releases what it holds. The two brokers are a listener and up to
one handler each: the HTTPS service handles a connection in its accept loop, the
SSH broker in a goroutine, which is why only one of them can block `Close`.
`RemoveBroker` is the wait of `Close` for the loop. `ForwardSignal` has the three
cases of `runCommandWithForwardedSignals`, and `CommandEnds` lets the direct
child (sudo, or script around it) and the contained command end separately.
`ReleasesInReverse` is `Stack!Spec` under the mapping of `held` and `pc` written
at the end of the module: a stack that is pushed, popped and never pushed again.

Abstractions. The policy text and the shell wrapper are left out. A killed hazmat
is a state in which nothing more happens; what it leaves is not cleaned by this
launch. The broker sockets are paths that exist or not.

### Around a session

`ProjectPermissions`. `grant` is the truth, `cache` and `gitCache` the files,
`copy` and `seen` what a session has in memory. `Probe` and `Record` are two
steps because the probe and the stat recorded with it are, with the repair loop
between them. Others change a path at any time; `touched`, `window` and `torn`
are history variables that say when.

`SessionHome`. A content is a version number. Write-back is compare, copy out,
move aside, swap in, drop the backup, each a step at which the process may be
killed; sessions and other writers edit in between. The policy table is reduced
to one path of every policy.

`GitSSHTransport`. The walk through the ProxyJump lists keeps the recursion of
`resolveGitSSHTestTargetWithSeen` as a stack of frames. The connection is the
sequence of headers and payloads written to it, so that an interleaving of two
frames shows. Pipes are counters of chunks, closed by `cmd.Wait`.

`ServiceLifecycle`, `McpProxy`, `HostBroker`, `EgressAudit`. Every external call
succeeds or fails; goroutines are states of their own. A service's
`Materialize` that fails is taken to have made nothing.
The host broker is what a build with the tag `beadpost_hostbroker` runs; the
default build has a stub that refuses everything. A request is sent to the broker in
one step and recorded by it in another; the call ends when it answers or when it
times out, and the broker does not learn of the second.

`SandboxLaunch`. The name of a sandbox is a function of agent, project, profile
and mounts, so launches that can meet share one; the model is of one name, whose
sandboxes are numbered as they are created. Every docker command is a step. Whether
docker is healthy is asked anew each time, and so any use of a backend may find it
is not. The configuration is loaded whole in one step and saved whole in another, by
launches, by `sandbox setup` and `reset`, and by one other command at a time (`sbEdit`,
which also stands for launches of other sandboxes). A load that meets a file being
written fails, as any step may. A launch with `--dry-run` records neither a backend
nor an approval, and goes on all the same.

`LinuxLaunch` and `LaunchHelper`. The first is the runner and the enforcer, with
the seven stages in the order of `enforceCurrentUser`, and `metadata.json` and
`result.json` as they are written. The second keeps the words of the command
line: the host's builder and the helper's parser are both translated, and the
property compares what was meant with what was understood. The words themselves
are opaque (`LhWord`); only the host's own words (`HostWords`: the options, `--`
and the paths) are told apart, and a command or an environment may hold those too.

`CredentialSync`. A material is a secret with a generation and a time of update.
An end is read or written one at a time, in the order store, host cache, sinks,
and each may fail; the tools that own an end rotate it meanwhile (`csMoved` says
which did since the sync began). Nothing outside its tests calls this code yet.

`AclRepair`. The tree of a project is a constant (kinds, parents, depths). A
repair reads directory after directory into its targets and then grants the
root, the directories and the files, an operation each; others create, remove
and replace files, and `aclSince` says what they disturbed.

`GitTrust`. A line of the system's gitconfig is an entry with or without
hazmat's marker. Setup and rollback write what they computed from an earlier
read; a session reads the two files one after the other, appends its repository
where both fail it, and verifies.

`Transcripts`. A transcript is a set of records and a modification time in half
seconds, because the agent's files are read with `stat` in whole seconds. A resume
keeps the time of what it copies; an export makes new files, at the time of the copying
or, where paths are rewritten, of the rewriting. `trRaced` says which of the host's
transcripts come from an export that the agent or a resume overtook.

### On the host

`Configuration`, `RepoSetup`, `HarnessLifecycle` and `CredentialMigration` share a
pattern: a command reads a file whole, changes its copy and writes it back with
`os.WriteFile`, which truncates first. The read, the truncation and the write are
steps, and two commands interleave; in `CredentialMigration` a write is one step that
can fail or die with the file empty. Where two have truncated before either has
written, the second text goes over the first and the end of a longer one stays:
`config.yaml` may then not parse, or read as settings of both (`PutText`,
`cfgText`), the repository profiles may hold a record of both, or none that loads
(`PutRecord`, `rsText`), and `state.json` may be unreadable (`Fill`).

`HarnessAssets`. A sync previews, takes the lock of the manifest, and judges and
installs asset by asset. What it replaces is moved aside first (`haAside`). `haLoose`
is history: what was installed by a sync that ended before the manifest was written,
or placed and then counted as skipped, because what had been moved aside could not
be removed (`Place`).

`Backup` and `HostImport`. What is compared or snapshotted is compared or
snapshotted once, and work goes on: the agent and the user write at any moment.

`RuntimeCapability`. A signature or fingerprint stands for the statement it was
computed from, so a statement is its place among those issued, and whoever routes
may present any old combination. A feed may leave out what one before it revoked, for nothing in
the code compares two feeds. A verdict is one step: nothing in the program asks for
one yet, so what a caller would do with it later is not modelled, and
`RevocationBounded` is about the moment of the verdict. Forging is left out with the
cryptography.

`PlanescapeProvider`. `psDisk` is the checkpoint, `psCall` the call that holds the
client's mutex, `psSent` the history of what the provider received since the session was last
admitted. The provider
answers rightly, wrongly or not at all, and restarts into new epochs.

`HostSetup`, `LinuxSetup`, `DiagnosticRepair`. A host is the set of artifacts on
it. The steps are data, sequences in the order of the code, and a step writes its
artifacts one by one, so a command may die inside it. A setup step that fails ends
the command; a rollback step that fails is a warning (macOS) or ends it (Linux).
The reverse migrations run down from the recorded version. Two of the doctor's
repairs, umask and environment, rewrite the agent's `.zshrc`, and a `cat` that fails
counts there as an empty file; `drBlind` is the history that a run has written the
file without what was in it (`rewriteAgentShell`).

### MCSessions and MCHost

The components in these two modules hardly share state in the code: where one
writes what another reads, the reader's module lets its environment change it (a
doctor's host drifts, a project's permissions change, cloud keys of an earlier
version are in the configuration at the start, the agent edits its home). So the
interleavings of two of them say nothing that each alone, with its environment,
does not say. The variable `part` therefore chooses one component at the start, whose every initial
state is taken and whose `Next` runs, while the others rest in one fixed initial
state. A run of such a module is the union of the runs of its components, and a
property of it names the property of each component it is about: for example
`NothingLeftBehind` is `ServiceLeavesNothing` and `KnownToReset`, and `NewerKept`
is `HomeSurvives`, `TranscriptsKept` and `FreshestWins`. Components
that do share state (the brokers and the launch; profile, keys and cloud secrets;
migration, inventory and Git's store) are in one module instead.

## 3. Runs

| Run | Instance | Distinct states | What it shows |
|---|---|---|---|
| `harness_claude` | one Claude harness, 3 tokens, one process, seven kinds of failure | 3,986 | the latest token survives (`FilteredLatestKept`); no stored token is replaced unarchived (`DivergenceArchived`) |
| `harness_host_sync` | Codex with a host file and Claude with the host Keychain, 3 tokens | 11,799 | the latest token survives the launch sync and the harvest while the user logs in on the host between sessions; a tie is refused |
| `harness_overlap` | two processes on one harness | 1,391,617 | the logged-out object never replaces a stored token |
| `harness_liveness` | crashes at every step, fairness | 2,167 | recovery leaves both agent-side places empty before the unsandboxed probe; every token ends up host-owned |
| `harness_keychain_denied` | the keychain may refuse a read | | **violated**: the item that could not be read is deleted by the next launch |
| `hooks_serial` | one command at a time, two bundles with two hooks, all install modes, agent edits, crashes, failing removals, a missing `.git` | 3,010,982 | records have whole snapshots; installs validate; uninstall leaves only what it could not remove, however often it was cut short |
| `hooks_overlap` | two commands at once, agent editing all the time, torn and partial writes, failing removals of the approvals and the snapshots | 2,711,332 | only content with standing consent is executed |
| `broker_mixed` | two processes in six combinations of launch kinds, one fault, timeouts at any moment | 1,060,283 | one start unless a round trip broke, cleanup after the command, every launch ends; the launches implement `CommandLaunch`, so nothing starts for a finished one |
| `session_runtime` | one launch, every configuration, a failure at any step, 2 signals, 2 git connections, fairness | 182,730 | the launch implements `ResourceStack`; no credential after close; an orphan only if the user insisted; only a silent HTTPS client can block the teardown |
| `sessions` | `MCSessions`: two overlapping sessions of each component around a session | 2,358,770 | `RequestsInOrder`, `OutputComplete`, `NothingLeftBehind`, `LaunchesAsAdmitted`, `PermissionsAsReported`, `QuietAfterClose`, `NewerKept`, `TrustHolds` |
| `host` | `MCHost`: two overlapping commands of each component on the host | 2,029,752 | `WritesWereApproved`, `CapabilityBounded`, `SentAsCheckpointed`, `ContainmentOutlivesPrivilege`, `SetupClaimsHold`, `ConfigurationKept`, `HarnessRecordsTrue`, `CredentialsKept`, `OverwrittenWorkIsKept` |
| `setup_contained` | init and rollback with one failing removal | | **violated**: the sudoers rule survives the firewall |

Why the bounds are enough to meet the cases. Three tokens let a stored, a rotated
and a newly issued credential differ from each other, so that archive, baseline
and store can all disagree; two is the smallest number at which one is lost.
Two processes are needed and enough for every lost update between a read and a
write, since each process takes any number of turns. Two bundles give an approved and an edited one; two hooks
let a dispatcher be left over or only some be installed. Two clients give two
brokers and two supervisors on one path, and each client makes up to two round
trips and a direct launch, so three starts of one command are possible as far as
the bounds go. `MaxFaults = 1` counts refusals, oversized responses, signals,
kills, failed starts and dying clients; timeouts are not counted.

In `session_runtime` two connections are enough for one to hold the accept loop
while the other waits behind it, and two signals for the second interrupt and for
SIGTERM after an interrupt. In `sessions`, four edits give the session and another
writer one each before and after the comparison; two sandboxes let a stale one be
replaced under a running agent; two records and half seconds up to 2 let a file
grow and its time tie on one side and differ on the other; three hosts make a
ProxyJump list with a common ancestor and a cycle; one sink, two secrets and the
generations and times 0 and 1 let two ends be equally fresh with different secrets;
a project of a directory, a file in it and a `.git` that is skipped, with depth and
targets bounded by 2, lets a startup repair be cut short by either limit; a
workspace with one repository below it tells the two kinds of entry apart; the
command lines asked of the launch helper include words that look like its own. In `host`, three commands are
init, a rollback that is cut short or fails, and the next command; two snapshots
let one be the pre-restore snapshot of the other; two feeds let a capability be
bound to the older; two operations fill a session's room and a third one finds
it full; two harnesses share one manifest and one `state.json`. The limits of the
code these bounds stand for are only met as limits: `MaxOps` is 64 in the code,
`MaxEpoch`, `MaxNow`, `MaxRuns` and the counters of commands, edits and drifts
have no counterpart and only end the exploration.

Each component of the two groups was also checked alone, with `part` gone and its
own specification, where that allows more: three commands on one `config.yaml`
(1.1 million states), three launches with remembered setups (14.4 million up to symmetry), two assets
of one harness and one of another (1.6 million), three records and times up to 3 of
a transcript (6.7 million), three versions of work in a project (480,612), three feeds
(2.1 million), three operations in a session (420,993), four Linux setup
commands (189,083), three sandboxes, with a reset that overlaps other commands
(7.2 million; in `sessions` `SbOverlap` is `FALSE`: a reset overlaps the launches, which
save the configuration too, but no other command). Nothing further was violated, and
every action of every module is taken there.

Tokens, processes, sessions and bundles are permuted by symmetry where they are
alike, in runs without liveness properties only. Deadlock is checked except
where the system really stops: in the broker runs (all launches have ended),
`session_runtime` (the launch has returned), the two groups and `setup_contained`
(commands and sessions have ended and the counters of the environment are spent).

### Properties the code does not keep

Two runs end in a violation on purpose. `harness_keychain_denied`: see above.
`setup_contained`: `RollbackSudoers` (`internal/setup/darwin/service.go:455`)
turns a failed removal into a warning and the next step removes the firewall,
although `src/tla/04_version_migration.md:64` says "Sudoers never exists without
pf firewall — during init, migration, failure, AND rollback". What is still true,
`ContainmentOutlivesPrivilege`, excepts exactly a sudoers entry that could not be
removed.

The following are defined beside the others, are also contradicted by a behaviour
of the model, and have no run of their own.

| Property | What the code does | What is said of it |
|---|---|---|
| `HarnessAuth!PublishReplacesBaselineOnly` | a harvest publishes over a host login made during the session, without an archive (`harness_auth_runtime.go:983`) | the launch sync refuses such ties |
| `GitHooks!UninstallRemovesRuntime`, when a bundle drops a hook (`ShrinkingHooks`) | the dispatcher of the dropped hook survives uninstall (`hook_runtime.go:205`) | `src/docs/git-hooks.md:147` "removes approval, snapshot, wrapper, and dispatcher state" |
| `GitHooks!UninstallRemovesRuntime` without the exception `kept`, with the fault `stuckFile` or `noGitDir` | the errors of removing dispatchers and wrapper are discarded, and so is a repository whose `.git` is not a directory; the record that names them goes all the same (`hook_runtime.go:206`, `:223`) | the same line |
| `GitHooks!UserHookPreserved` | a hook the user has under a declared name is overwritten (`hook_runtime.go:106`) | `src/docs/git-hooks.md:117` "refuses rather than trying to merge with unknown files" |
| `LaunchBroker!LiveSocketLeftIntact` | a broker between bind and listen fails the probe and loses its socket (`launch_broker_supervisor.go:354`) | `src/tla/09_launch_fd_isolation.md:298` "live sockets are left intact and reported" |
| `GitSSHTransport!FinishedOutputIsComplete` | `cmd.Wait` closes the pipes before both copiers have read them out (`git_ssh.go:1578`) | documentation of `exec.Cmd.StdoutPipe`: "it is incorrect to call Wait before all reads from the pipe have completed" |
| `RepoSetup!OnlyShownIsAdded` | accepting new safe effects adds all current ones, those rejected earlier included (`repo_setup_prompt.go:68`) | `src/docs/plans/2026-04-24-capability-first-onboarding.md:39` "no silent widening" |
| `SandboxLaunch!PolicyBeforeLaunch` | a launch that reuses a sandbox can run in one that another launch has just recreated and not yet confined (`sandbox.go:953`) | `src/tla/05_tier3_launch_containment.md:116` "The network policy is applied before the agent launches" |
| `Transcripts!DivergedContinuationKept` | a diverged continuation older than the host's transcript is overwritten (`resume.go:414`) | `src/docs/usage.md:456` "Existing agent-local files are not overwritten" |
| `Backup!RestoreIsReversible` | a cloud restore goes on when its snapshot failed (`kopia_wrapper.go:481`) | help of `hazmat restore`: "so the restore is reversible" |
| `PlanescapeProvider!PhasesFollowTransitions` | the answer to an operation that is replayed late sets the phase back to active (`planescapeprovider/client.go:516`) | the list of transitions in `planescapeprovider/contract.go` |
| `DiagnosticRepair!SudoersAfterContainment` | findings are repaired in the order of the checks, sudoers before the firewall (`diagnostic_repair_executor.go:35`) | `diagnostic_finding.go:389` "only after containment prerequisites verify" |

Other differences that were met and have no property: residue of one harness is
left alone by sessions of another (`harness_auth_runtime.go:642`); an empty store
file after a torn write counts as a credential for Codex and OpenCode, which have
no predicate to recognise it (`internal/credentialruntime/store.go:63`); a
`--replace` over composed hooks forgets the blocks in foreign files; a bundle that
drops a hook can be refused because of Hazmat's own leftover dispatcher
(`hook_runtime.go:88`); a snapshot directory whose removal failed half-way is
reused by a later approval and then refuses to validate (`hook_approval.go:115`);
an exported transcript has the time of the export, not of its last record (`export.go:430`),
so that a resume can take it for newer than what the agent wrote meanwhile (`trRaced` and
the same second, the exceptions in `ContinuationKept`); overlapping commands lose each other's edits of `config.yaml`, `state.json` and
`repo-profiles.yaml`, and may leave a file that does not load or that mixes both (all
rewritten whole, in place, without a lock); the MCP
proxy may write an error reply into the middle of a server's line; the ACL cache
can hold rows read before a change together with the state after it
(`acl_health_cache.go:146`, the paths in `torn`); a sandbox created by a launch
that fails before recording it is unknown to reset
(`internal/runtime/docker/admission.go:60`), and so is one that a configuration loaded
earlier takes off the list when it is saved (`sandbox.go:757`; `sbExcused` marks
both); a launch with `--dry-run` takes the approval as given and runs the agent
(`sandbox.go:840`, the exception in `PreparedRunsAreConfined`); two provider clients on one
checkpoint can allocate one sequence number, since the lock is inside a process, and an
admission that the provider answers with the identifier of a session that has a
checkpoint overwrites it, so that its requests are forgotten and its numbers used again
(`planescapeprovider/client.go:163`); the
host broker's client does not take back a request whose call timed out, so the broker
may deliver it after the session has closed (`hostbroker/client.go:118`, the exception
`hbCut` in `QuietAfterClose`); a repair of the agent's umask or environment that cannot
read `.zshrc`, or is cut short writing it, wipes the block for which another repair of the
same run already has a receipt (`diagnostic_host_repair_backend.go:239`,
`internal/setup/tooling.go:109`; `drBlind`, the exception in `ReceiptsStayTrue`).

### Faulty variants

Every property of every passing run is broken by at least one faulty variant of a
definition, listed under `mutants` in `PROJECT.json`. The modules hold more
variants than that list names; each breaks the property of its component: walks
that only notice the host that names itself (`SeenLast`), a report that does not
wait for the copiers (`ReportWithoutCopies`) or for the poller
(`FinalWithoutJoin`), cleanup errors only logged (`CleanupCredentialsQuietly`,
`CleanupPriorSkips`), a declined approval ignored (`VerifyApprovalLoosely`), a
cancelled run that does not wait (`ReturnOnCancel`), a result without its last
phase (`AcceptLaunched`), a metadata line before the sandbox (`MetadataFirst`), a
comparison of one side only (`CompareRuntimeOnly`), a failed repair taken for a
warning (`BrokenGitIsWarning`), and so on.

## 4. Fairness

`HarnessAuth!FairSpec`. A running process goes on (weak fairness of its steps: it
is a loop-free Go program, and a session ends some day). A user keeps starting
each harness, and a crash does not hit every attempt at the same recovery step
(strong fairness of `Begin` and of the recovery steps). Without the last
assumption nothing can be promised: recovery happens only when the user comes
back, and a machine that dies in the same write every time never gets past it.
No fairness is put on tokens being issued, on logins or on crashes.

`LaunchBroker!FairSpec`. Weak fairness of each client and of a directly launched
command, and nothing for brokers: a broker may hang for ever in any state, and
`LaunchEnds` must still hold, because every wait of the client has a deadline
(the round trip's and the ready wait's) or is ended by a kill. That a *directly* launched command ends is an
assumption about the user's command. With `KillPermitted = FALSE` the property
fails: `Stop` then waits for a sudo process it may not signal.

`SessionRuntime!FairSpec`. Weak fairness of the launch's own steps, of the kill
timer, and of the brokers' accepting and answering: all of them are goroutines of
one running program, and the git credential helper and ssh, which answer, end by
their own timeouts or with their peer. Nothing is assumed of a client that has
connected, of the contained command, or of the user's signals. This is what makes
`TeardownBlockedOnlyBySilentClient` say something: the launch may wait for ever
for its command, but once it releases, only a client that keeps silent can stop
it.

## 5. Proofs

Everything in this section is proved for arbitrary sets of harnesses, tokens,
processes, sessions, clients, words, paths and so on, and any number of faults,
from the named assumptions on the constants in the component modules (model
values differ from the values they are told apart from, subsets are subsets,
bounds are numbers). A theorem that needs more says so as its own assumption, and
each such assumption is met by the run that checks the same property. All safety
properties of the passing runs are theorems here.

`HarnessAuthProofs`.

- `TypeCorrect`: for any faults and any overlap.
- `FilteredLatestNeverLost`. `FilteredLatestKept` is not inductive: that a file may
  be removed depends on what the process has copied before. The strengthening
  `SafeInv` (in `HarnessAuth`) adds: at most one process is active (`Exclusive`)
  and it has a harness (`Selected`); no place holds a token that was never issued
  (`Issued`); the first place in the order agent file, keychain, store that holds
  a token holds the latest one, unless that is archived (`CurrentAll`); and for
  every step of a process what its locals say about the places (`LocalsAll`), for
  example that at a removal the store already holds the content of the file. The
  theorem assumes `ReliableSinks`: one process at a time, and no failure in writing
  the agent file or in reading or deleting the keychain item. Without it the
  property is false, as `harness_keychain_denied` shows for reads.
- `RecoveredStateIsHostOwned` follows from `SafeInv` and from what each recovery
  step has emptied by then. `ReliableRecovery` adds to `ReliableSinks` that the
  archive, the store and the removals do not fail: recovery is tried once and goes
  on to the probe either way. Crashes and torn writes remain.
- `LoggedOutIsNotPromoted` holds with any number of overlapping processes and any
  failures but a torn write (which leaves an empty file by itself): what a process
  is about to put into the store was recognised as a token when it was read.
- `DivergenceIsArchived` needs only that processes take turns: at a replacement the
  process has archived the token, or the store still holds the baseline its own
  session was given, or the host's copy was strictly newer.
- `HostFileLatestIsKept`, for harnesses that share a file with the host user, who
  may log in between sessions. Here the place of the latest token is decided by a
  comparison of times, so the invariant `HostInv` ties what the comparison says to
  where the latest token is, at each step. `QuietHost` excludes kills and failing
  writes (a store written by a killed launch is newer than a host copy that was
  never refreshed), logins during a session, and harnesses that write a logged-out
  object without being recognised at it.

`GitHooksProofs`. `TypeCorrect` and `ApprovedContentRuns` hold for any overlap,
faults and edits of the agent. `ConsentInv` says that wherever there is anything of
a snapshot there is consent, and that a command about to write one has it; a hook is
executed only from a snapshot, so the records, which overlapping commands lose, are
not needed. The other three are about commands that take turns (`Alone`):

- `RecordsHaveSnapshots`, from `RecordInv`, which follows a command from the snapshot
  it wrote to the record it saves, and from the record it dropped to the snapshot it
  removes. A removal of a snapshot that stops half-way is excluded: the next approval
  of that bundle reuses what is left (section 3). So is a rollback that cannot remove
  the approvals file and goes on to remove the snapshots (`stuckState`).
- `InstallsValidate`, from `InstallInv`: what an install has put in place up to each
  of its steps, and that each hook in `core.hooksPath` is paired with its dispatcher
  (`Paired`), or is on the list `kept`. The agent edits between commands.
- `UninstallsAreWhole`, from `UninstallInv`: every dispatcher there is belongs to a
  hook that the record names, or is on the list `kept` (`Accounted`); what is on that
  list stays on it until it is written or removed (`KeptStays`).
  Uninstall goes by the list in the record, so the theorem excludes what loses that
  list: a torn approvals file, a rollback that drops it, and bundles that declare
  different hooks. These are the assumptions of `hooks_serial`.

`LaunchBrokerProofs`: `TypeCorrect`, `CommandStartedOnce`,
`CommandEndsBeforeCleanup`, `NothingStartsAfterRelease` and `LaunchesKeepPromise`. The inductive
invariant `LaunchInv` has one `Row` per client: the policy file exists from
preparation to cleanup; an answer is delivered only to a client that waits; a
connection is open exactly while its client waits for it; a client has one open
request in all queues and hands taken together, and if it never gave up one
request of any kind; and the number of starts follows from where that request is
and where the client is. It is needed because the count alone says nothing
about a request that is still queued somewhere. The argument treats the socket
path as arbitrary, so it does not depend on which broker wins the path, which is
what makes the loss of a live socket (`LiveSocketLeftIntact`, section 3) harmless
for these properties. `LaunchesKeepPromise` is the refinement of `CommandLaunch`.
`ClientKeepsPromise` and `BrokerKeepsPromise` name, for each action of a client and
of a broker, the step of the promise it is, or show that it is none, and the rows of
`LaunchInv` give that step its guard: a client that decides without doubt has no
command running and the number of starts its outcome tells, and a broker that starts
a command has in hand the one request of a launch that has none yet, or of one that
gave up. The guard on starts contains `NoStartAfterRelease`, which no run therefore
lists any more.

`SessionRuntimeProofs`: `NothingIsLeft`, from `LeftInv`: besides the two parts of the
property, a listener is closed only once the launch is being taken down (so that no
later step opens it again), and the kill timer runs only after the user insisted.
`LaunchReleasesInReverse` is the refinement of `ResourceStack`. The stack's guard
that nothing is acquired twice needs `HeldInv`: the runtime steps still to prepare are
distinct and not held (`StepsAreDistinct` looks at what each configuration prepares),
and the policy and the display come after all of them. `StackInvStep` then names, for
each action of the launch, the step of the stack it is, or shows that it is none
(`Holds`). `TypeCorrect` rests on both; its part that is more than types is that the
HTTPS service never handles two connections at once.

`SessionsProofs` has one inductive invariant per component, each proved from that
component's specification alone, and a composition: in `MCSessions` the chosen
component starts in one of its initial states and takes its own steps, and the others
rest, so a behaviour of the group is a behaviour of each component (`ComponentsStart`,
`ComponentsMove`, `ComponentsRun`) and every property of the run follows from the
component it names: `OutputIsComplete`, `NothingIsLeftBehind`, `LaunchesAreAsAdmitted`,
`PermissionsAreAsReported`, `NewerIsKept`, `SessionsKeepTheirPromises` and
`SessionsHaveTheirTypes`. What the invariants add to the properties:

- `PmInv`: every cache entry, on disk or in a session's hand, is about the path it
  names as it was at the time it carries, and what a session decided it had read.
- `WalkInv`, `FramesInv`: the frames of the walk are the route in order and the hosts
  on it are distinct, so it ends within as many calls as there are hosts; a header on
  the connection is followed by its own payload or a writer that holds the lock owes it.
- `HomeInv`: at each step of a replacement what is there, what was moved aside and
  what was compared are the same version or one that raced it.
- `SvcInv`, `McpInv`, `AuInv`: what a run has made is in its hand until it is
  returned; a count of the copiers; the poller's snapshot is in its hand or merged.
- `HbInv`: only the connection that the serve goroutine has accepted can be in a
  handler, none is once that goroutine has ended, and it has ended when the session is
  closed; a request that is at the broker has a handler waiting for it or its call broke
  (`hbCut`). The property alone says nothing about a request that is in a handler at
  the moment of closing.
- `SbInv`: sandboxes have numbers, what a launch calls its own has the policy it was
  given, a launch about to save its copy of the configuration lists the sandbox in it,
  and a reset about to save its list saw no sandbox that is still there.
- `LlInv`: the agent is started by a process that has passed all stages; the phases in
  the metadata are those it has been through.
- `LhInv`: how far the helper has read the argument list, and that it has understood
  what it read as it was meant. The words of the command and of the environment are
  arbitrary, the host's own option words among them: what keeps them apart is that
  each part of the list is read in the order it was put, that a pair follows its own
  option, and that nothing is taken for an option after `--` or `env`.
- `TrInv`: of two transcripts of one origin and the records they hold, which was
  seen, staged and compared when; an earlier reading is part of a later one. `TimesTell`
  adds that the agent's file is no older than the host's one it carries on, except after
  an export that the agent overtook.
- `CsInv`: the best of what was read is as fresh as anything that was read, and what
  has been written holds it, but for ends that others moved.
- `AclInv`: what is in reach of a repair that met neither a failure nor its bound is
  known to it, or below a directory it has still to read. It rests on the paths being
  a tree (`AclTreeAssumption`).
- `GtInv`: a line of others is in the file a setup is about to write, or came after
  its read.

`HostProofs` is laid out in the same way for the group on the host, with `HsInv`,
`LsInv`, `DrInv`, `BkInv`, `ImInv`, `HaInv`, `LcInv`, `CfgInv`, `RcInv` and `CmInv`:

- `ContainmentOutlives` (`HsInv`, `LsInv`): an init that has come to the sudoers entry
  has the firewall behind it, a rollback that has come to the firewall has removed
  the entry or said that it could not; the steps of setup and rollback on Linux, as
  far as they have got, put privilege last and take it first.
- `ClaimsHold` (`HsInv`, `DrInv`): what an init has verified so far stands, and no
  later item of a repair plan takes away what an earlier one needs, a blind rewrite of
  `.zshrc` apart.
- `WorkIsKept` (`BkInv`, `ImInv`): from the snapshot on, the files a restore will
  clear are in it, but for those changed since; an import's decision is about what
  is still there.
- `HarnessRecordsStay` (`HaInv`, `LcInv`): outside the lock the manifest names every
  copy, and inside it the process that holds the lock knows those it does not name
  yet; the record of a harness follows what its commands did.
- `ConfigurationStays` (`CfgInv`): each version of `config.yaml` that one command saved
  or holds loads, and a cloud key is in it or in the store.
- `CapabilityIsBounded` (`RcInv`): what refers to a feed refers to an issued one, and
  the gate insists on the feed and the result that a declaration names; so a feed that
  is routed on after one that revokes is itself what takes the revocation back.
- `CredentialsStay` (`CmInv`). A migration copies, checks and removes, several of them
  at once with sessions and edits. `CmKnows` says of a command in whose files nobody
  has interfered (`cmQuiet`) that what it is about to remove is where it copied it;
  `CmHolds` and `CmFiles` hold whatever the others do; `CmDone` says how far a
  migration that ran alone and without trouble has got, from which it follows that
  its clean report is true.

- `HostHasItsTypes`: the types of the twelve components of the group, a lemma for
  each (`HostSetupHasItsTypes`, ...). Most need a little more than the types, or the
  invariants above: snapshots hold versions of the files that were written
  (`BkTypes`), results are those a verifier signed (`RcTypes`), the keys of a
  session have names of the configuration (`CfgTypes`), and no command on the host
  fails to remove more than the bound on failures allows (`FailuresAreBounded`). The
  bounds on counters need the constants that bound them to be numbers
  (`BackupAssumption`, `AssetsAssumption`, `CapabilityAssumption`,
  `ConfigurationAssumption`, `RepoAssumption`, `ProviderAssumption`), some of them
  positive.

The composition of `MCHost` also carries `WritesWereApproved`, `SentAsCheckpointed` and their
components' types from the theorems of the two modules that follow.

`PlanescapeProviderProofs`: `SentIsCheckpointed`. The inductive invariant `PsInv`
adds to the property that a checkpoint numbers its operations by their place and
names each once (`SoundCheckpoint`), and that the call in progress is for an entry of the
checkpoint (`CallFits`). So what `Send` sends is in the checkpoint, and every later
checkpoint holds the same requests (`SameRequests`) or one more
(`AppendedIsSound`). A save that fails leaves either the old or the new
checkpoint, which makes no difference, since nothing is sent after it. The limit on
operations, the expiry and the provider's restarts play no part in this. They do in
`ProviderHasItsTypes`: an operation is appended only where `RoomForOperation` has
found room in the checkpoint at hand, so no checkpoint grows beyond `MaxOps`.

`RepoSetupProofs`: `WritesAreApproved`. `RsInv` says of the record each session has
loaded and of the one it will write what the property says of the file, since either
may be written back later over a newer one; and that before its prompt a session
applies no write that some user did not ask to remember (`ask`), which is needed
because a prompt shows only what is pending, while the answer "remember" keeps all.
`RepoHasItsTypes` gives its part of `HostTypeOK`.

Only model-checked: the liveness properties (`EventuallyHostOwned`, `LaunchEnds`,
`TeardownBlockedOnlyBySilentClient`), since fairness and ENABLED are outside the
prover.

## 6. Plan

Modelled and checked: every component of section 1 whose correctness depends on an
order of events. Proved: every safety property of the passing runs. What is left is
out of the reach of these tools or of this code: the liveness properties, which stay
with TLC, and the properties of section 3 the code does not keep, which may replace
the weaker ones should the code change. The assumptions that remain in theorems are
needed: `HostFileLatestIsKept` fails with a launch killed between the store and the
host copy, and `UninstallsAreWhole` with a record that has lost a hook.

## 7. Not modelled

Policy and contract compilers (`runtimeprovider`, `sessionbackend`,
`sessioncontract`, `pathpolicy`, `containment/*`) are pure functions of a plan;
what matters about their output is what a kernel makes of it. The command line,
its output, explain, tracing and update checks have no state. The HTTP proxy (`llmproxy`) handles each request by
itself. Out of every modelled component are left the encodings (YAML, JSON, tar,
access list text, kernel rules), the finding of files and programs, cryptography,
which is taken as perfect, and the inside of programs that are called: sudo, git,
ssh, docker, launchctl, pfctl, Kopia and the vendors' installers are calls that
succeed or fail. PID reuse, clock steps and full disks beyond a failing write are
left out. Which thread of the Linux runner the stages contain (it does not lock
the goroutine to one, `internal/runtime/linux/runner.go:345`) is beyond the model.
