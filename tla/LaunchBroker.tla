---------------------------- MODULE LaunchBroker ----------------------------
(***************************************************************************)
(* The experimental launch broker: a persistent agent-owned process that   *)
(* runs buffered native launches for the hazmat processes of one host      *)
(* user, the client that asks it, the supervisor that starts it on demand  *)
(* and the direct sudo launch that is used when any of this fails.         *)
(*                                                                         *)
(* A client is one hazmat process; it makes one launch, so it starts at    *)
(* most one broker, and that broker is named after it.  All of them share  *)
(* one socket path.  A connection is the entry it has in a broker's        *)
(* backlog or in `serving'; `open' says that its client still holds it.    *)
(* A command is running for client c in broker b when b is in child[c],    *)
(* and in a direct sudo launch when Direct is.                             *)
(***************************************************************************)
EXTENDS Naturals, Sequences, FiniteSets

CONSTANTS Client,         \* the hazmat processes of the host user
          Launches,       \* the kinds of launch they make: functions on Client
          MaxFaults,      \* how many of the steps called faults may happen
          KillPermitted,  \* whether the host user may signal the sudo process
          None, NoSocket, Stale, Direct  \* model values

\* explicit: HAZMAT_LAUNCH_BROKER_SOCKET names the socket; direct: a direct
\* project exec, which does not wait for a cold broker; shell: any other
\* launch; off: the broker is not configured or the launch is interactive;
\* past: the process has finished its launch and left its broker listening.
AllKinds == {"explicit", "direct", "shell", "off", "past"}

ASSUME LaunchesAssumption == Launches \subseteq [Client -> AllKinds]
ASSUME MaxFaultsAssumption == MaxFaults \in Nat
ASSUME KillAssumption == KillPermitted \in BOOLEAN
ASSUME NamesAssumption ==
    /\ {NoSocket, Stale, Direct} \cap Client = {} /\ NoSocket # Stale
    /\ None \notin {"ok", "refused", "reset"}

VARIABLES
    path,     \* the socket file: the broker that bound it, NoSocket or Stale
    broker,   \* broker[b]: the life of the broker process client b started
    backlog,  \* backlog[b]: the connections b has not accepted yet
    serving,  \* serving[b]: the request b is handling, or None
    pc,       \* pc[c]: where client c is in its launch
    kind,     \* kind[c]: the kind of its launch
    attempt,  \* attempt[c]: the round trip it is in
    inbox,    \* inbox[c]: what its connection has delivered
    policy,   \* policy[c]: its policy file exists
    child,    \* child[c]: where its command is running
    runs,     \* runs[c]: how often its command was started
    gaveUp,   \* gaveUp[c]: a round trip failed after the request was sent
    faults    \* how many faults have happened

clientVars == <<pc, kind, attempt, policy, gaveUp>>
vars == <<path, broker, backlog, serving, pc, kind, attempt, inbox, policy,
          child, runs, gaveUp, faults>>

PC == {"idle", "connect", "wait", "ensure", "unlink", "await",
       "stop", "direct", "running", "cleanup", "done", "abort", "failed",
       "crashed"}

Entry == [from : Client, what : {"launch", "probe"}, open : BOOLEAN]
Request == [from : Client, open : BOOLEAN,
            stage : {"handle", "run", "ok", "refused"}]

Past == {c \in Client : kind[c] = "past"}

Init ==
    /\ kind \in Launches
    /\ path \in IF Past = {} THEN {NoSocket, Stale} ELSE Past
    /\ broker = [b \in Client |-> IF b = path THEN "listening" ELSE "none"]
    /\ backlog = [b \in Client |-> <<>>]
    /\ serving = [b \in Client |-> None]
    /\ pc = [c \in Client |-> IF c \in Past THEN "done" ELSE "idle"]
    /\ attempt = [c \in Client |-> 1]
    /\ inbox = [c \in Client |-> None]
    /\ policy = [c \in Client |-> FALSE]
    /\ child = [c \in Client |-> {}]
    /\ runs = [c \in Client |-> IF c \in Past THEN 1 ELSE 0]
    /\ gaveUp = [c \in Client |-> FALSE]
    /\ faults = 0

\* A step that is a fault: the instance bounds how many there are.
Fault == faults < MaxFaults /\ faults' = faults + 1

----------------------------------------------------------------------------
(* Connections.                                                            *)

\* A broker accepts connections at the path only while its socket is there
\* and it has finished listen and chmod.
Live == path \in Client /\ broker[path] = "listening"

Shut(e, c) == IF e.from = c THEN [e EXCEPT !.open = FALSE] ELSE e

\* Client c closes its connection: whoever holds it sees its peer gone.
Hangup(c) ==
    /\ backlog' = [b \in Client |->
           [i \in DOMAIN backlog[b] |-> Shut(backlog[b][i], c)]]
    /\ serving' = [b \in Client |->
           IF serving[b] = None THEN None ELSE Shut(serving[b], c)]

\* The clients whose connection is dropped when broker b closes its listener.
Pending(b) == {c \in Client : \E i \in DOMAIN backlog[b] :
                  backlog[b][i].from = c /\ backlog[b][i].open
                      /\ backlog[b][i].what = "launch"}

Reset(cs) == inbox' = [c \in Client |-> IF c \in cs THEN "reset" ELSE inbox[c]]

----------------------------------------------------------------------------
(* The client: tryRunNativeLaunchViaBroker and its caller.                 *)

\* The caller prepares the runtime and the policy before it tries the broker;
\* a launch that fails earlier does not come here.
Begin(c) ==
    /\ pc[c] = "idle"
    /\ policy' = [policy EXCEPT ![c] = TRUE]
    /\ pc' = [pc EXCEPT ![c] = IF kind[c] = "off" THEN "direct" ELSE "connect"]
    /\ UNCHANGED <<path, broker, backlog, serving, kind, attempt, inbox, child,
                   runs, gaveUp, faults>>

\* Slip: a failed retry leads to another one.
RetryWithoutLimit(c, cold) ==
    IF kind[c] = "explicit" THEN "abort"
    ELSE IF kind[c] = "direct" /\ cold THEN "direct" ELSE "ensure"

\* Where a failed round trip leads: an explicit socket ends the launch with
\* the error, a first failure may start a broker, a second one goes direct.
\* `cold' says that the error was ENOENT or ECONNREFUSED.
AfterFailure(c, cold) ==
    IF kind[c] = "explicit" THEN "abort"
    ELSE IF attempt[c] > 1 \/ (kind[c] = "direct" /\ cold)
         THEN "direct" ELSE "ensure"

\* Dial the socket and send the request.  A broker that has bound its path
\* but not yet called listen refuses, and before chmod denies access.
Connect(c) ==
    /\ pc[c] = "connect"
    /\ \/ /\ Live
          /\ backlog' = [backlog EXCEPT ![path] =
                 Append(@, [from |-> c, what |-> "launch", open |-> TRUE])]
          /\ pc' = [pc EXCEPT ![c] = "wait"]
       \/ /\ ~Live
          /\ \E cold \in IF path \in Client /\ broker[path] = "bound"
                         THEN BOOLEAN ELSE {TRUE} :
                 pc' = [pc EXCEPT ![c] = AfterFailure(c, cold)]
          /\ UNCHANGED backlog
    /\ UNCHANGED <<path, broker, serving, kind, attempt, inbox, policy, child,
                   runs, gaveUp, faults>>

\* Slip: a response with a non-zero exit code counts as a failure.
ExitCodeFailsRoundTrip(c) ==
    /\ pc[c] = "wait" /\ inbox[c] # None
    /\ pc' = [pc EXCEPT ![c] = AfterFailure(c, FALSE)]
    /\ gaveUp' = [gaveUp EXCEPT ![c] = @ \/ inbox[c] = "reset"]
    /\ inbox' = [inbox EXCEPT ![c] = None]
    /\ Hangup(c)
    /\ UNCHANGED <<path, broker, kind, attempt, policy, child, runs, faults>>

\* The response arrives.  An answer with ok ends the launch whatever its exit
\* code; a refusal and a broken or truncated response fail the round trip.
Receive(c) ==
    /\ pc[c] = "wait" /\ inbox[c] # None
    /\ pc' = [pc EXCEPT ![c] = IF inbox[c] = "ok" THEN "cleanup"
                                                  ELSE AfterFailure(c, FALSE)]
    /\ gaveUp' = [gaveUp EXCEPT ![c] = @ \/ inbox[c] = "reset"]
    /\ inbox' = [inbox EXCEPT ![c] = None]
    /\ Hangup(c)
    /\ UNCHANGED <<path, broker, kind, attempt, policy, child, runs, faults>>

\* The deadline of the round trip passes, at any moment.
Timeout(c) ==
    /\ pc[c] = "wait"
    /\ pc' = [pc EXCEPT ![c] = AfterFailure(c, FALSE)]
    /\ gaveUp' = [gaveUp EXCEPT ![c] = TRUE]
    /\ inbox' = [inbox EXCEPT ![c] = None]
    /\ Hangup(c)
    /\ UNCHANGED <<path, broker, kind, attempt, policy, child, runs, faults>>

\* Start the broker through sudo; it runs on when this process has ended.
Spawn(c) ==
    \/ /\ broker' = [broker EXCEPT ![c] = "starting"]
       /\ pc' = [pc EXCEPT ![c] = "await"]
       /\ UNCHANGED faults
    \/ /\ Fault
       /\ pc' = [pc EXCEPT ![c] = "direct"]
       /\ UNCHANGED broker

\* defaultEnsureLaunchBroker: prepare the runtime directory and look at what
\* is at the socket path; a directory that cannot be prepared and a path that
\* is no socket end it.  The liveness probe connects and closes at once.
Ensure(c) ==
    /\ pc[c] = "ensure"
    /\ \/ /\ Fault
          /\ pc' = [pc EXCEPT ![c] = "direct"]
          /\ UNCHANGED <<backlog, broker>>
       \/ /\ Live
          /\ backlog' = [backlog EXCEPT ![path] =
                 Append(@, [from |-> c, what |-> "probe", open |-> FALSE])]
          /\ pc' = [pc EXCEPT ![c] = "direct"]
          /\ UNCHANGED <<broker, faults>>
       \/ /\ ~Live /\ path # NoSocket
          /\ pc' = [pc EXCEPT ![c] = "unlink"]
          /\ UNCHANGED <<backlog, broker, faults>>
       \/ /\ path = NoSocket
          /\ Spawn(c)
          /\ UNCHANGED backlog
    /\ UNCHANGED <<path, serving, kind, attempt, inbox, policy, child, runs,
                   gaveUp>>

\* The probe failed, and the path is removed: whatever is there by now.
UnlinkAndSpawn(c) ==
    /\ pc[c] = "unlink"
    /\ path' = NoSocket
    /\ Spawn(c)
    /\ UNCHANGED <<backlog, serving, kind, attempt, inbox, policy, child, runs,
                   gaveUp>>

\* Slip: the ready wait has no deadline.
AwaitForever(c) ==
    /\ pc[c] = "await" /\ path # NoSocket
    /\ pc' = [pc EXCEPT ![c] = "connect"]
    /\ attempt' = [attempt EXCEPT ![c] = @ + 1]
    /\ UNCHANGED <<path, broker, backlog, serving, kind, inbox, policy, child,
                   runs, gaveUp, faults>>

\* Wait until some socket is at the path, then try again; give up after
\* the ready timeout.
Await(c) ==
    /\ pc[c] = "await"
    /\ \/ /\ path # NoSocket
          /\ pc' = [pc EXCEPT ![c] = "connect"]
          /\ attempt' = [attempt EXCEPT ![c] = @ + 1]
       \/ /\ path = NoSocket
          /\ pc' = [pc EXCEPT ![c] = "stop"]
          /\ UNCHANGED attempt
    /\ UNCHANGED <<path, broker, backlog, serving, kind, inbox, policy, child,
                   runs, gaveUp, faults>>

----------------------------------------------------------------------------
(* How a broker ends, from its own side and from outside.                  *)

\* Broker b is killed: its socket file stays behind, its connections break
\* and the helper it was running goes on.
Killed(b) ==
    /\ broker' = [broker EXCEPT ![b] = "dead"]
    /\ backlog' = [backlog EXCEPT ![b] = <<>>]
    /\ serving' = [serving EXCEPT ![b] = None]
    /\ Reset(Pending(b) \cup {c \in Client : serving[b] # None
                                  /\ serving[b].from = c /\ serving[b].open})

\* Stop the sudo process that did not produce a socket, and wait for it.
\* With permission to signal it sudo dies, alone or with the broker; without,
\* the wait lasts until the broker has ended by itself.
Stop(c) ==
    /\ pc[c] = "stop"
    /\ \/ KillPermitted /\ Killed(c)
       \/ /\ KillPermitted \/ broker[c] = "dead"
          /\ UNCHANGED <<broker, backlog, serving, inbox>>
    /\ pc' = [pc EXCEPT ![c] = "direct"]
    /\ UNCHANGED <<path, kind, attempt, policy, child, runs, gaveUp, faults>>

\* The direct sudo launch of the same command; the temporary directory an
\* older helper needs may turn out not to be available.
RunDirect(c) ==
    /\ pc[c] = "direct"
    /\ \/ /\ child' = [child EXCEPT ![c] = @ \cup {Direct}]
          /\ runs' = [runs EXCEPT ![c] = @ + 1]
          /\ pc' = [pc EXCEPT ![c] = "running"]
          /\ UNCHANGED faults
       \/ /\ Fault
          /\ pc' = [pc EXCEPT ![c] = "abort"]
          /\ UNCHANGED <<child, runs>>
    /\ UNCHANGED <<path, broker, backlog, serving, kind, attempt, inbox, policy,
                   gaveUp>>

DirectEnded(c) ==
    /\ pc[c] = "running" /\ Direct \notin child[c]
    /\ pc' = [pc EXCEPT ![c] = "cleanup"]
    /\ UNCHANGED <<path, broker, backlog, serving, kind, attempt, inbox, policy,
                   child, runs, gaveUp, faults>>

\* The launch returns the command's result, or an error without one.
Returned(c) == IF pc[c] = "cleanup" THEN "done" ELSE "failed"

\* Slip: the policy file outlives the launch.
CleanupKeepsPolicy(c) ==
    /\ pc[c] \in {"cleanup", "abort"}
    /\ pc' = [pc EXCEPT ![c] = Returned(c)]
    /\ UNCHANGED <<path, broker, backlog, serving, kind, attempt, inbox, policy,
                   child, runs, gaveUp, faults>>

\* The deferred cleanups: the policy is removed and the runtime released.
Cleanup(c) ==
    /\ pc[c] \in {"cleanup", "abort"}
    /\ policy' = [policy EXCEPT ![c] = FALSE]
    /\ pc' = [pc EXCEPT ![c] = Returned(c)]
    /\ UNCHANGED <<path, broker, backlog, serving, kind, attempt, inbox, child,
                   runs, gaveUp, faults>>

\* The hazmat process dies: nothing is cleaned up, its connection closes.
Die(c) ==
    /\ Fault
    /\ pc[c] \notin {"idle", "done", "failed", "crashed"}
    /\ pc' = [pc EXCEPT ![c] = "crashed"]
    /\ inbox' = [inbox EXCEPT ![c] = None]
    /\ Hangup(c)
    /\ UNCHANGED <<path, broker, kind, attempt, policy, child, runs, gaveUp>>

----------------------------------------------------------------------------
(* The broker process: runLaunchBrokerAgentEntry, Service and Server.      *)

\* Listen, first half: bind creates the socket file and fails on any other.
Bind(b) ==
    /\ broker[b] = "starting"
    /\ IF path = NoSocket
       THEN broker' = [broker EXCEPT ![b] = "bound"] /\ path' = b
       ELSE broker' = [broker EXCEPT ![b] = "dead"] /\ UNCHANGED path
    /\ UNCHANGED <<backlog, serving, inbox, child, runs, faults>> /\ UNCHANGED clientVars

\* Listen, second half: chmod needs a file at the path, whoever made it;
\* without one the listener's Close and the os.Remove after it both remove
\* the path, and the process ends.
Chmod(b) ==
    /\ broker[b] = "bound"
    /\ broker' = [broker EXCEPT ![b] = IF path = NoSocket THEN "remove"
                                                          ELSE "listening"]
    /\ UNCHANGED <<path, backlog, serving, inbox, child, runs, faults>>
    /\ UNCHANGED clientVars

\* A write to a client that is gone fails with EPIPE, and Serve returns it.
Abandon(b) == broker' = [broker EXCEPT ![b] =
                  IF @ = "listening" THEN "closing" ELSE @]

\* Accept the next connection and read its request.  A connection that was
\* closed in the queue may be dropped by accept, or fail the peer check or
\* the decoding, or, if it held a request, still be read in full.
Accept(b) ==
    /\ broker[b] = "listening" /\ serving[b] = None /\ backlog[b] # <<>>
    /\ backlog' = [backlog EXCEPT ![b] = Tail(@)]
    /\ LET e == Head(backlog[b]) IN
       \/ /\ e.what = "launch"
          /\ serving' = [serving EXCEPT ![b] =
                 [from |-> e.from, open |-> e.open, stage |-> "handle"]]
          /\ UNCHANGED broker
       \/ /\ ~e.open
          /\ UNCHANGED <<serving, broker>>
       \/ /\ ~e.open
          /\ Abandon(b)
          /\ UNCHANGED serving
    /\ UNCHANGED <<path, inbox, child, runs, faults>> /\ UNCHANGED clientVars

\* The request in progress moves on.
Stage(b, stage) ==
    serving' = [serving EXCEPT ![b] = [from |-> @.from, open |-> @.open,
                                       stage |-> stage]]

\* The helper validates and reads the policy file at its start.
PolicyFound(c) == policy[c]

\* Verify the request and start the helper, which must find the policy file.
\* A cancelled context or a refused request starts nothing, and a helper
\* that finds no policy exits at once.
StartHelper(b) ==
    /\ serving[b] # None /\ serving[b].stage = "handle"
    /\ LET c == serving[b].from IN
       \/ /\ broker[b] = "listening" /\ PolicyFound(c)
          /\ Stage(b, "run")
          /\ child' = [child EXCEPT ![c] = @ \cup {b}]
          /\ runs' = [runs EXCEPT ![c] = @ + 1]
          /\ UNCHANGED faults
       \/ /\ broker[b] = "listening" /\ ~PolicyFound(c)
          /\ Stage(b, "ok")
          /\ UNCHANGED <<child, runs, faults>>
       \/ /\ (broker[b] # "listening" /\ UNCHANGED faults) \/ Fault
          /\ Stage(b, "refused")
          /\ UNCHANGED <<child, runs>>
    /\ UNCHANGED <<path, broker, backlog, inbox>> /\ UNCHANGED clientVars

\* Slip: the broker answers before the helper has ended.
HelperNotAwaited(b) ==
    /\ serving[b] # None /\ serving[b].stage = "run"
    /\ Stage(b, "ok")
    /\ UNCHANGED <<path, broker, backlog, inbox, child, runs, faults>>
    /\ UNCHANGED clientVars

\* The buffered runner returns when the command has ended.
HelperEnded(b) ==
    /\ serving[b] # None /\ serving[b].stage = "run"
    /\ b \notin child[serving[b].from]
    /\ Stage(b, "ok")
    /\ UNCHANGED <<path, broker, backlog, inbox, child, runs, faults>>
    /\ UNCHANGED clientVars

\* Write the response.  One larger than the client's limit is cut off there:
\* the client fails to decode it and closes, perhaps before it is written.
Reply(b) ==
    /\ serving[b] # None /\ serving[b].stage \in {"ok", "refused"}
    /\ serving' = [serving EXCEPT ![b] = None]
    /\ LET r == serving[b] IN
       \/ /\ r.open
          /\ inbox' = [inbox EXCEPT ![r.from] = r.stage]
          /\ UNCHANGED <<broker, faults>>
       \/ /\ r.open /\ r.stage = "ok" /\ Fault
          /\ inbox' = [inbox EXCEPT ![r.from] = "reset"]
          /\ Abandon(b) \/ UNCHANGED broker
       \/ /\ ~r.open
          /\ Abandon(b)
          /\ UNCHANGED <<inbox, faults>>
    /\ UNCHANGED <<path, backlog, child, runs>> /\ UNCHANGED clientVars

\* Server.Close: the listener unlinks the path it was bound to and closes.
CloseListener(b) ==
    /\ broker[b] = "closing"
    /\ broker' = [broker EXCEPT ![b] = "remove"]
    /\ path' = NoSocket
    /\ backlog' = [backlog EXCEPT ![b] = <<>>]
    /\ Reset(Pending(b))
    /\ UNCHANGED <<serving, child, runs, faults>> /\ UNCHANGED clientVars

\* The os.Remove after it, and the one of the second Close, which runs when
\* the request in progress is finished.
RemovePath(b) ==
    /\ \/ /\ broker[b] = "remove"
          /\ broker' = [broker EXCEPT ![b] = "removeAgain"]
       \/ /\ broker[b] = "removeAgain" /\ serving[b] = None
          /\ broker' = [broker EXCEPT ![b] = "dead"]
    /\ path' = NoSocket
    /\ UNCHANGED <<backlog, serving, inbox, child, runs, faults>> /\ UNCHANGED clientVars

\* SIGTERM or SIGINT cancels the context: a running helper is killed and the
\* service is closed.
Signal(b) ==
    /\ Fault
    /\ broker[b] = "listening"
    /\ broker' = [broker EXCEPT ![b] = "closing"]
    /\ child' = [c \in Client |-> child[c] \ {b}]
    /\ UNCHANGED <<path, backlog, serving, inbox, runs>> /\ UNCHANGED clientVars

Kill(b) ==
    /\ Fault
    /\ broker[b] \notin {"none", "dead"}
    /\ Killed(b)
    /\ UNCHANGED <<path, child, runs>> /\ UNCHANGED clientVars

----------------------------------------------------------------------------
\* The command of client c ends where it runs.
ChildEnds(c, x) ==
    /\ x \in child[c]
    /\ child' = [child EXCEPT ![c] = @ \ {x}]
    /\ UNCHANGED <<path, broker, backlog, serving, inbox, runs, faults>>
    /\ UNCHANGED clientVars

ClientStep(c) ==
    \/ Connect(c) \/ Receive(c) \/ Timeout(c) \/ Ensure(c) \/ UnlinkAndSpawn(c)
    \/ Await(c) \/ Stop(c) \/ RunDirect(c) \/ DirectEnded(c)
    \/ Cleanup(c)

BrokerStep(b) ==
    \/ Bind(b) \/ Chmod(b) \/ Accept(b) \/ StartHelper(b) \/ HelperEnded(b)
    \/ Reply(b) \/ CloseListener(b) \/ RemovePath(b)

Next ==
    \E c \in Client :
        \/ Begin(c) \/ ClientStep(c) \/ Die(c)
        \/ BrokerStep(c) \/ Signal(c) \/ Kill(c)
        \/ \E x \in Client \cup {Direct} : ChildEnds(c, x)

Spec == Init /\ [][Next]_vars

\* A launched hazmat process keeps running and a direct command comes to an
\* end.  Nothing is assumed of the brokers.
FairSpec ==
    /\ Spec
    /\ \A c \in Client : WF_vars(ClientStep(c) \/ ChildEnds(c, Direct))

----------------------------------------------------------------------------
(* Properties.                                                             *)

\* Every variable keeps its type; in particular a launch makes at most two
\* round trips.
TypeOK ==
    /\ path \in Client \cup {NoSocket, Stale}
    /\ broker \in [Client -> {"none", "starting", "bound", "listening",
                              "closing", "remove", "removeAgain", "dead"}]
    /\ backlog \in [Client -> Seq(Entry)]
    /\ serving \in [Client -> Request \cup {None}]
    /\ pc \in [Client -> PC]
    /\ kind \in Launches
    /\ attempt \in [Client -> 1 .. 2]
    /\ inbox \in [Client -> {None, "ok", "refused", "reset"}]
    /\ policy \in [Client -> BOOLEAN]
    /\ child \in [Client -> SUBSET (Client \cup {Direct})]
    /\ runs \in [Client -> Nat]
    /\ gaveUp \in [Client -> BOOLEAN]
    /\ faults \in 0 .. MaxFaults

\* The same request is offered to a broker up to twice and then run directly
\* (tryRunNativeLaunchViaBroker).  Unless a round trip broke after the
\* request was sent, the command is nevertheless started at most once, and
\* exactly once when the launch returns a result.
StartedOnce ==
    \A c \in Client : ~gaveUp[c] =>
        /\ runs[c] <= 1
        /\ pc[c] = "done" => runs[c] = 1

\* The deferred cleanups of a launch (removal of the policy and of the
\* session's temporary directory) begin after its command has ended, on
\* whichever path it ran, unless a round trip broke.
CleanupAfterCommand ==
    \A c \in Client :
        pc[c] \in {"cleanup", "abort", "done", "failed"} /\ ~gaveUp[c] =>
            child[c] = {}

\* A request that is still queued at a broker when its client has given up
\* and finished is never started: its policy file is gone.
NoStartAfterRelease ==
    [][\A c \in Client : pc[c] \in {"done", "failed"} =>
           child'[c] \subseteq child[c]]_vars

\* A launch seen from outside: what became of it, and of its command.
Life(c) ==
    CASE pc[c] = "cleanup" -> "returned"
      [] pc[c] = "abort" -> "failed"
      [] pc[c] \in {"done", "failed"} -> "released"
      [] pc[c] = "crashed" -> "abandoned"
      [] OTHER -> "open"

Promise == INSTANCE CommandLaunch WITH
    Caller <- Client, Place <- Client \cup {Direct},
    life <- [c \in Client |-> Life(c)], starts <- runs, places <- child, doubt <- gaveUp

\* Through a broker, after a broken round trip, through a broker started on
\* demand or directly: a launch runs its command as CommandLaunch promises
\* (tryRunNativeLaunchViaBroker and its caller), whatever happens to the
\* brokers and whoever removes whose socket.
LaunchesAsPromised == Promise!Spec

\* Every launch ends, whatever the brokers do: refuse, hang, die at any
\* step, never come up, or remove each other's socket.
LaunchEnds ==
    \A c \in Client : pc[c] = "connect" ~> pc[c] \in {"done", "failed", "crashed"}

\* "the host-side broker supervisor removes only stale Unix socket path
\* residue before startup: live sockets are left intact and reported": the
\* path the supervisor removes is not the socket of a live broker.
LiveSocketLeftIntact ==
    [][\A c \in Client : pc[c] = "unlink" /\ pc'[c] # "unlink" =>
           ~Live \/ path' = path]_vars
=============================================================================
