------------------------------- MODULE McpProxy -------------------------------
(***************************************************************************)
(* The MCP stdio proxy on the process runner: the server process and its   *)
(* pipes, one goroutine per output stream copying to the client, and the   *)
(* loop that reads the client's lines, asks the policy and forwards them   *)
(* or answers with an error. The client's output has two writers, the      *)
(* stdout copier and the loop, under one lock.                             *)
(***************************************************************************)
EXTENDS Naturals, Sequences

CONSTANT MaxLines \* lines the client sends, and chunks a stream carries

ASSUME McpAssumption == MaxLines \in Nat

\* A client line: an allowed call, a denied one (with an id or a
\* notification), a response for the server, or no JSON-RPC message at all.
Line == {"call", "denied", "notification", "response", "malformed"}
Stream == {"stdout", "stderr"}

VARIABLES
    mcpStep,   \* where the runner is
    mcpLine,   \* the line the loop is at, or "none"
    mcpLines,  \* lines read from the client so far
    mcpServed, \* calls and responses the server was given
    mcpDenied, \* errors written to the client
    mcpServer, \* the server process: "none", "running", "exited", "reaped"
    mcpPipe,   \* mcpPipe[s]: chunks in the pipe of s
    mcpOut,    \* mcpOut[s]: chunks the server wrote
    mcpCopied, \* mcpCopied[s]: chunks the client got
    mcpCopier, \* mcpCopier[s]: "idle", "run", "eof" or "error"
    mcpErrs,   \* results received from the copiers
    mcpResult, \* what Run returned: "none", "ok" or "error"
    mcpTidied  \* calls of the request's cleanup

mcpVars == <<mcpStep, mcpLine, mcpLines, mcpServed, mcpDenied, mcpServer, mcpPipe,
             mcpOut, mcpCopied, mcpCopier, mcpErrs, mcpResult, mcpTidied>>
loopVars == <<mcpLine, mcpLines, mcpServed, mcpDenied>>
pipeVars == <<mcpPipe, mcpOut, mcpCopied, mcpCopier>>

McpInit ==
    /\ mcpStep = "start" /\ mcpLine = "none" /\ mcpLines = 0
    /\ mcpServed = 0 /\ mcpDenied = 0 /\ mcpServer = "none"
    /\ mcpPipe = [s \in Stream |-> 0] /\ mcpOut = [s \in Stream |-> 0]
    /\ mcpCopied = [s \in Stream |-> 0] /\ mcpCopier = [s \in Stream |-> "idle"]
    /\ mcpErrs = 0 /\ mcpResult = "none" /\ mcpTidied = 0

----------------------------------------------------------------------------
(* The runner.                                                             *)

\* A start that fails calls the cleanup and returns.
StartServer ==
    /\ mcpStep = "start"
    /\ \/ /\ mcpStep' = "loop" /\ mcpServer' = "running"
          /\ mcpCopier' = [s \in Stream |-> "run"]
          /\ UNCHANGED <<mcpResult, mcpTidied>>
       \/ /\ mcpStep' = "over" /\ mcpResult' = "error" /\ mcpTidied' = mcpTidied + 1
          /\ UNCHANGED <<mcpServer, mcpCopier>>
    /\ UNCHANGED <<mcpPipe, mcpOut, mcpCopied, mcpErrs, loopVars>>

\* forwardClient reads a line, or meets the end of the input, or is told to
\* stop, or cannot read.
ReadLine ==
    /\ mcpStep = "loop" /\ mcpLine = "none"
    /\ \/ /\ mcpLines < MaxLines /\ mcpLines' = mcpLines + 1
          /\ mcpLine' \in Line /\ UNCHANGED mcpStep
       \/ mcpStep' = "drain" /\ UNCHANGED <<mcpLine, mcpLines>>
       \/ mcpStep' = "kill" /\ UNCHANGED <<mcpLine, mcpLines>>
    /\ UNCHANGED <<mcpServed, mcpDenied, mcpServer, mcpErrs, mcpResult, mcpTidied,
                   pipeVars>>

\* forwardClientLine: a malformed line ends the loop; a response goes through
\* as it is; the policy decides the rest, and a denied call is answered when
\* it has an id. A write to a server that has gone fails.
forwardClientLine ==
    /\ mcpStep = "loop" /\ mcpLine # "none" /\ mcpLine' = "none"
    /\ \/ /\ mcpLine = "malformed" /\ mcpStep' = "kill"
          /\ UNCHANGED <<mcpServed, mcpDenied>>
       \/ /\ mcpLine = "denied" /\ mcpDenied' = mcpDenied + 1
          /\ UNCHANGED <<mcpStep, mcpServed>>
       \/ mcpLine = "notification" /\ UNCHANGED <<mcpStep, mcpServed, mcpDenied>>
       \/ /\ mcpLine \in {"call", "response"} /\ mcpServer = "running"
          /\ mcpServed' = mcpServed + 1 /\ UNCHANGED <<mcpStep, mcpDenied>>
       \/ /\ mcpLine \in {"call", "response"} /\ mcpServer = "exited"
          /\ mcpStep' = "kill" /\ UNCHANGED <<mcpServed, mcpDenied>>
    /\ UNCHANGED <<mcpLines, mcpServer, mcpErrs, mcpResult, mcpTidied, pipeVars>>

\* Slip: the runner goes on to Wait at the end of the input, as if the
\* copiers had nothing left to do.
DrainNothing ==
    /\ mcpStep = "drain" /\ mcpStep' = "wait"
    /\ UNCHANGED <<mcpServer, mcpErrs, mcpResult, mcpTidied, loopVars, pipeVars>>

\* The server's input was closed; the loop receives the two results, and the
\* first error ends it.
Drain ==
    /\ mcpStep = "drain"
    /\ \/ /\ mcpErrs = 2 /\ mcpStep' = "wait" /\ UNCHANGED <<mcpErrs, pipeVars>>
       \/ \E s \in Stream :
            /\ mcpCopier[s] = "eof" /\ mcpErrs' = mcpErrs + 1
            /\ mcpCopier' = [mcpCopier EXCEPT ![s] = "idle"]
            /\ UNCHANGED <<mcpStep, mcpPipe, mcpOut, mcpCopied>>
       \/ \E s \in Stream :
            /\ mcpCopier[s] = "error" /\ mcpStep' = "kill"
            /\ UNCHANGED <<mcpErrs, pipeVars>>
    /\ UNCHANGED <<mcpServer, mcpResult, mcpTidied, loopVars>>

\* An error of the loop: the server is killed, then waited for.
Kill ==
    /\ mcpStep = "kill" /\ mcpStep' = "wait"
    /\ mcpServer' = "exited" /\ mcpResult' = "error"
    /\ UNCHANGED <<mcpErrs, mcpTidied, loopVars, pipeVars>>

\* Wait reaps the server and closes the pipes, then the cleanup is called.
Wait ==
    /\ mcpStep = "wait" /\ mcpServer = "exited" /\ mcpStep' = "over"
    /\ mcpServer' = "reaped" /\ mcpPipe' = [s \in Stream |-> 0]
    /\ mcpCopier' = [s \in Stream |->
                       IF mcpCopier[s] = "run" THEN "error" ELSE mcpCopier[s]]
    /\ mcpResult' \in IF mcpResult = "error" THEN {"error"} ELSE {"ok", "error"}
    /\ mcpTidied' = mcpTidied + 1
    /\ UNCHANGED <<mcpOut, mcpCopied, mcpErrs, loopVars>>

----------------------------------------------------------------------------
(* The server and the copiers.                                             *)

ServerWrites(s) ==
    /\ mcpServer = "running" /\ mcpOut[s] < MaxLines
    /\ mcpOut' = [mcpOut EXCEPT ![s] = @ + 1]
    /\ mcpPipe' = [mcpPipe EXCEPT ![s] = @ + 1]
    /\ UNCHANGED <<mcpStep, mcpServer, mcpCopied, mcpCopier, mcpErrs, mcpResult,
                   mcpTidied, loopVars>>

\* The server ends by itself, or when its input is closed.
ServerExits ==
    /\ mcpServer = "running" /\ mcpServer' = "exited"
    /\ UNCHANGED <<mcpStep, mcpErrs, mcpResult, mcpTidied, loopVars, pipeVars>>

\* io.Copy: a chunk to the client, or its failure, or the end of the stream.
copyStream(s) ==
    /\ mcpCopier[s] = "run"
    /\ \/ /\ mcpPipe[s] > 0 /\ mcpPipe' = [mcpPipe EXCEPT ![s] = @ - 1]
          /\ mcpCopied' = [mcpCopied EXCEPT ![s] = @ + 1] /\ UNCHANGED mcpCopier
       \/ /\ mcpPipe[s] > 0 /\ mcpPipe' = [mcpPipe EXCEPT ![s] = @ - 1]
          /\ mcpCopier' = [mcpCopier EXCEPT ![s] = "error"] /\ UNCHANGED mcpCopied
       \/ /\ mcpPipe[s] = 0 /\ mcpServer = "exited"
          /\ mcpCopier' = [mcpCopier EXCEPT ![s] = "eof"]
          /\ UNCHANGED <<mcpPipe, mcpCopied>>
    /\ UNCHANGED <<mcpStep, mcpServer, mcpOut, mcpErrs, mcpResult, mcpTidied, loopVars>>

McpNext ==
    \/ StartServer \/ ReadLine \/ forwardClientLine \/ Drain \/ Kill \/ Wait
    \/ ServerExits
    \/ \E s \in Stream : ServerWrites(s) \/ copyStream(s)

McpSpec == McpInit /\ [][McpNext]_mcpVars

----------------------------------------------------------------------------

\* Types of the variables.
McpTypeOK ==
    /\ mcpStep \in {"start", "loop", "drain", "kill", "wait", "over"}
    /\ mcpLine \in Line \union {"none"}
    /\ mcpLines \in 0..MaxLines /\ mcpServed \in 0..MaxLines
    /\ mcpDenied \in 0..MaxLines
    /\ mcpServer \in {"none", "running", "exited", "reaped"}
    /\ mcpPipe \in [Stream -> 0..MaxLines] /\ mcpOut \in [Stream -> 0..MaxLines]
    /\ mcpCopied \in [Stream -> 0..MaxLines]
    /\ mcpCopier \in [Stream -> {"idle", "run", "eof", "error"}]
    /\ mcpErrs \in 0..2 /\ mcpResult \in {"none", "ok", "error"}
    /\ mcpTidied \in 0..1

\* A proxy that reports success has given the client everything the server
\* wrote, on both streams, and has cleaned up once, after the server was
\* reaped: the loop ends with both copiers before Wait closes the pipes.
ProxyOutputComplete ==
    /\ mcpResult = "ok" => mcpCopied = mcpOut
    /\ mcpStep = "over" => mcpTidied = 1 /\ mcpServer \in {"none", "reaped"}
=============================================================================
