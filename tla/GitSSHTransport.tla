--------------------------- MODULE GitSSHTransport ---------------------------
(***************************************************************************)
(* One request to the Git SSH transport broker: the ssh command line Git   *)
(* asked for is parsed, a key is selected, the destination is resolved     *)
(* through the host user's ssh configuration with its ProxyJump chains,    *)
(* and ssh runs on the host with its output copied to the session in       *)
(* frames by two goroutines.                                               *)
(***************************************************************************)
EXTENDS Naturals, Sequences, FiniteSets, SequencesExt

CONSTANTS
    SSHHost,    \* hosts and aliases of the ssh configuration
    Origin,     \* the host of the request
    MaxChunks   \* reads of output that one stream of ssh fills

ASSUME SSHAssumption ==
    IsFiniteSet(SSHHost) /\ Origin \in SSHHost /\ MaxChunks \in Nat

SSHStream == {"stdout", "stderr"}

VARIABLES
    invocation, \* the arguments Git gave the helper
    jumps,      \* jumps[h]: the ProxyJump list of h in the ssh configuration
    reqStep,    \* where the request is
    frames,     \* the calls of resolveGitSSHTestTargetWithSeen in progress
    jumpPath,   \* the jump targets found so far, in order
    sshState,   \* "none", "running", "exited", "reaped" or "failed"
    written,    \* written[s]: chunks ssh wrote to stream s
    pipe,       \* pipe[s]: chunks in the pipe of stream s, if it is open
    copier,     \* copier[s]: the goroutine that copies stream s
    mu,         \* the goroutine that holds writeMu, or "free"
    conn,       \* what has been written to the connection
    helperGone  \* the helper in the session hung up

sshVars == <<invocation, jumps, reqStep, frames, jumpPath, sshState, written,
             pipe, copier, mu, conn, helperGone>>
runVars == <<sshState, written, pipe, copier, mu, conn, helperGone>>

JumpLists == {<<>>} \union {<<h>> : h \in SSHHost}
               \union {<<g, h>> : g \in SSHHost, h \in SSHHost}

Invocation == [option : {"allowed", "unsupported"}, command : 0..2,
               verb : {"git", "other"}]
NoJumps == [h \in SSHHost |-> <<>>]

SSHInit ==
    /\ invocation \in Invocation
    /\ jumps \in [SSHHost -> JumpLists]
    /\ invocation # [option |-> "allowed", command |-> 1, verb |-> "git"]
         => jumps = NoJumps
    /\ reqStep = "parse" /\ frames = <<>> /\ jumpPath = <<>>
    /\ sshState = "none" /\ written = [s \in SSHStream |-> 0]
    /\ pipe = [s \in SSHStream |-> 0] /\ copier = [s \in SSHStream |-> "off"]
    /\ mu = "free" /\ conn = <<>> /\ helperGone = FALSE

Header(s) == [part |-> "header", of |-> s]
Payload(s) == [part |-> "payload", of |-> s]

\* A refusal is told in an error frame before the exit frame.
RefuseGit ==
    /\ reqStep' = "exit" /\ sshState' = "failed" /\ frames' = <<>>
    /\ conn' = conn \o <<Header("stderr"), Payload("stderr")>>
    /\ jumps' = NoJumps /\ jumpPath' = <<>>
    /\ UNCHANGED <<invocation, written, pipe, copier, mu, helperGone>>

----------------------------------------------------------------------------
(* Parsing and selecting.                                                  *)

validateGitSSHRemoteCommand == invocation.verb = "git"

\* parseGitSSHTransportInvocation: only known options, one destination and
\* exactly one Git command.
Parse ==
    /\ reqStep = "parse"
    /\ IF /\ invocation.option = "allowed" /\ invocation.command = 1
          /\ validateGitSSHRemoteCommand
       THEN reqStep' = "select"
            /\ UNCHANGED <<invocation, jumps, frames, jumpPath, runVars>>
       ELSE RefuseGit

\* A key of the session answers for the host and its files are there.
Select ==
    /\ reqStep = "select"
    /\ reqStep' = "resolve" /\ frames' = <<[host |-> Origin, left |-> jumps[Origin]]>>
    /\ UNCHANGED <<invocation, jumps, jumpPath, runVars>>

NoKeyForHost == reqStep = "select" /\ RefuseGit

----------------------------------------------------------------------------
(* Resolving the destination: a depth-first walk of the ProxyJump lists.   *)

\* Slip: only the host that names itself is noticed.
SeenLast == {frames[i].host : i \in {n \in 1..Len(frames) : n = Len(frames)}}

Seen == {frames[i].host : i \in 1..Len(frames)}

\* resolveSSHConfigProxyJump takes the next host of the list and resolves it
\* first; a host that is being resolved already is a cycle.
Descend ==
    /\ reqStep = "resolve" /\ frames # <<>> /\ Last(frames).left # <<>>
    /\ LET h == Head(Last(frames).left)
           rest == [Last(frames) EXCEPT !.left = Tail(@)]
       IN IF h \in Seen THEN RefuseGit
          ELSE /\ frames' = Front(frames) \o <<rest, [host |-> h, left |-> jumps[h]]>>
               /\ UNCHANGED <<invocation, jumps, reqStep, jumpPath, runVars>>

\* The list is exhausted: the host itself follows its own jump targets.
Ascend ==
    /\ reqStep = "resolve" /\ frames # <<>> /\ Last(frames).left = <<>>
    /\ frames' = Front(frames)
    /\ jumpPath' = IF Len(frames) > 1 THEN Append(jumpPath, Last(frames).host)
                   ELSE jumpPath
    /\ UNCHANGED <<invocation, jumps, reqStep, runVars>>

----------------------------------------------------------------------------
(* Running ssh: runGitSSHTransportRequest.                                 *)

StartSSH ==
    /\ reqStep = "resolve" /\ frames = <<>>
    /\ reqStep' = "run" /\ sshState' = "running"
    /\ copier' = [s \in SSHStream |-> "read"]
    /\ jumps' = NoJumps /\ jumpPath' = <<>>
    /\ UNCHANGED <<invocation, frames, written, pipe, mu, conn, helperGone>>

StartFails == reqStep = "resolve" /\ frames = <<>> /\ RefuseGit

\* ssh writes to a pipe (external).
SSHWrites(s) ==
    /\ sshState = "running" /\ written[s] < MaxChunks
    /\ written' = [written EXCEPT ![s] = @ + 1]
    /\ pipe' = [pipe EXCEPT ![s] = @ + 1]
    /\ UNCHANGED <<invocation, jumps, reqStep, frames, jumpPath, sshState,
                   copier, mu, conn, helperGone>>

SSHExits ==
    /\ sshState = "running" /\ sshState' = "exited"
    /\ UNCHANGED <<invocation, jumps, reqStep, frames, jumpPath, written, pipe,
                   copier, mu, conn, helperGone>>

\* cmd.Wait has seen the process exit and closes the read ends of its pipes.
WaitReturns ==
    /\ sshState = "exited" /\ sshState' = "reaped"
    /\ pipe' = [s \in SSHStream |-> 0]
    /\ UNCHANGED <<invocation, jumps, reqStep, frames, jumpPath, written,
                   copier, mu, conn, helperGone>>

\* copyStream reads a chunk; at the end of the stream it is done.
ReadChunk(s) ==
    /\ copier[s] = "read"
    /\ \/ /\ pipe[s] > 0 /\ pipe' = [pipe EXCEPT ![s] = @ - 1]
          /\ copier' = [copier EXCEPT ![s] = "lock"]
       \/ /\ pipe[s] = 0 /\ sshState \in {"exited", "reaped"}
          /\ copier' = [copier EXCEPT ![s] = "done"] /\ UNCHANGED pipe
    /\ UNCHANGED <<invocation, jumps, reqStep, frames, jumpPath, sshState,
                   written, mu, conn, helperGone>>

\* Slip: a frame is written without taking the lock.
WriteHeaderUnlocked(s) ==
    /\ copier[s] = "lock" /\ ~helperGone
    /\ copier' = [copier EXCEPT ![s] = "payload"] /\ mu' = s
    /\ conn' = Append(conn, Header(s))
    /\ UNCHANGED <<invocation, jumps, reqStep, frames, jumpPath, sshState,
                   written, pipe, helperGone>>

\* writeFrame takes the lock; header and payload are two writes.
WriteHeader(s) ==
    /\ copier[s] = "lock" /\ mu = "free" /\ ~helperGone
    /\ copier' = [copier EXCEPT ![s] = "payload"] /\ mu' = s
    /\ conn' = Append(conn, Header(s))
    /\ UNCHANGED <<invocation, jumps, reqStep, frames, jumpPath, sshState,
                   written, pipe, helperGone>>

WritePayload(s) ==
    /\ copier[s] = "payload" /\ ~helperGone
    /\ copier' = [copier EXCEPT ![s] = "read"] /\ mu' = "free"
    /\ conn' = Append(conn, Payload(s))
    /\ UNCHANGED <<invocation, jumps, reqStep, frames, jumpPath, sshState,
                   written, pipe, helperGone>>

\* A write to a connection the helper closed fails and ends the goroutine.
WriteFails(s) ==
    /\ helperGone /\ copier[s] \in {"lock", "payload"}
    /\ copier[s] = "lock" => mu = "free"
    /\ copier' = [copier EXCEPT ![s] = "done"] /\ mu' = "free"
    /\ UNCHANGED <<invocation, jumps, reqStep, frames, jumpPath, sshState,
                   written, pipe, conn, helperGone>>

\* Slip: the exit is reported as soon as ssh has been waited for.
ReportWithoutCopies ==
    /\ reqStep = "run" /\ sshState = "reaped" /\ reqStep' = "exit"
    /\ UNCHANGED <<invocation, jumps, frames, jumpPath, runVars>>

\* wg.Wait: both goroutines are done before the exit code is reported.
CopiesDone ==
    /\ reqStep = "run" /\ sshState = "reaped"
    /\ \A s \in SSHStream : copier[s] = "done"
    /\ reqStep' = "exit"
    /\ UNCHANGED <<invocation, jumps, frames, jumpPath, runVars>>

\* handleConn writes the exit frame, without the lock, and hangs up.
WriteExit ==
    /\ reqStep = "exit" /\ reqStep' = "done"
    /\ conn' = IF helperGone THEN conn
               ELSE conn \o <<Header("exit"), Payload("exit")>>
    /\ UNCHANGED <<invocation, jumps, frames, jumpPath, sshState, written, pipe,
                   copier, mu, helperGone>>

\* Git kills the helper, or the session ends.
HelperHangsUp ==
    /\ ~helperGone /\ helperGone' = TRUE /\ reqStep # "done"
    /\ UNCHANGED <<invocation, jumps, reqStep, frames, jumpPath, sshState,
                   written, pipe, copier, mu, conn>>

SSHNext ==
    \/ Parse \/ Select \/ NoKeyForHost \/ Descend \/ Ascend \/ StartSSH \/ StartFails
    \/ SSHExits \/ WaitReturns \/ CopiesDone \/ WriteExit \/ HelperHangsUp
    \/ \E s \in SSHStream : \/ SSHWrites(s) \/ ReadChunk(s) \/ WriteHeader(s)
                         \/ WritePayload(s) \/ WriteFails(s)

SSHSpec == SSHInit /\ [][SSHNext]_sshVars

----------------------------------------------------------------------------
(* Properties.                                                             *)

\* The type of the state.
SSHTypeOK ==
    /\ invocation \in Invocation /\ jumps \in [SSHHost -> JumpLists]
    /\ reqStep \in {"parse", "select", "resolve", "run", "exit", "done"}
    /\ Seen \subseteq SSHHost /\ ToSet(jumpPath) \subseteq SSHHost
    /\ sshState \in {"none", "running", "exited", "reaped", "failed"}
    /\ written \in [SSHStream -> 0..MaxChunks] /\ pipe \in [SSHStream -> 0..MaxChunks]
    /\ copier \in [SSHStream -> {"off", "read", "lock", "payload", "done"}]
    /\ mu \in SSHStream \union {"free"} /\ helperGone \in BOOLEAN

\* The walk of the ProxyJump lists ends and what it finds is a usable route:
\* no host waits for itself, and every jump host comes after the hosts that
\* lead to it (resolveGitSSHTestTargetWithSeen, resolveSSHConfigProxyJump).
JumpRouteOrdered ==
    /\ Len(frames) <= Cardinality(SSHHost)
    /\ reqStep = "resolve" =>
         \A i \in 1..Len(jumpPath) : \A h \in ToSet(jumps[jumpPath[i]]) :
             \E j \in 1..(i - 1) : jumpPath[j] = h

\* The helper can always take the connection apart again: every frame is its
\* header and then its own payload, although two goroutines and the handler
\* write frames, and nothing follows the exit frame.
FramesAreWhole ==
    \A i \in 1..Len(conn) :
        IF conn[i].part = "header"
        THEN /\ i < Len(conn) => conn[i + 1] = Payload(conn[i].of)
             /\ conn[i].of = "exit" => i >= Len(conn) - 1
        ELSE i > 1 /\ conn[i - 1] = Header(conn[i].of)

\* What Git over SSH needs to work: a request reported as finished has had
\* all of ssh's output copied to the session.
FinishedOutputIsComplete ==
    (reqStep = "done" /\ sshState = "reaped" /\ ~helperGone) =>
        \A s \in SSHStream :
            Len(SelectSeq(conn, LAMBDA f : f = Payload(s))) = written[s]

\* What a request sends is in the order its readers rely on: the jump hosts of
\* the test connection, and the frames on the connection to the helper.
RequestsInOrder == JumpRouteOrdered /\ FramesAreWhole
=============================================================================
