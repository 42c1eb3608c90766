--------------------------- MODULE SessionRuntime ---------------------------
(***************************************************************************)
(* One native launch from the startup phases to the return of the launch   *)
(* function: what it creates on the host, the two Git brokers it runs for  *)
(* the contained command, the signals it meets, and how it takes            *)
(* everything down.  A connection k is one git process in the containment  *)
(* that asks a broker; the command's descendants may outlive it.           *)
(***************************************************************************)
EXTENDS Naturals, Sequences, FiniteSets

CONSTANTS Conn,        \* the connections git processes make to the brokers
          MaxSignals   \* how many SIGINT or SIGTERM hazmat receives

ASSUME SignalsAssumption == MaxSignals \in Nat

Broker == {"https", "ssh"}

\* preflight: host mutations come before the snapshot; bar: whether the
\* status bar starts at once, when the command switches to the alternate
\* screen, or never.
Config == [preflight : BOOLEAN, https : BOOLEAN, ssh : BOOLEAN,
           bar : {"now", "altscreen", "never"}]

VARIABLES
    cfg,        \* the prepared session
    pc,         \* where the launch is
    todo,       \* the phases or runtime steps still to run
    held,       \* the resources created and not yet released, oldest first
    outcome,    \* what the launch will return
    listener,   \* listener[b]: the broker's socket
    conn,       \* conn[k]: where connection k is, and with which broker
    child,      \* the direct child: sudo, or script around it
    contained,  \* the contained command itself
    bar,        \* the status bar is drawn and swallows signals
    interrupts, \* SIGINTs seen while the command runs
    killTimer,  \* the two-second timer that kills the direct child
    signals     \* signals received so far

launchVars == <<cfg, todo, held, outcome>>
commandVars == <<child, contained, bar, interrupts, killTimer>>
runtimeVars == <<cfg, pc, todo, held, outcome, listener, conn, child,
                 contained, bar, interrupts, killTimer, signals>>

NotConnected == [to |-> "none", at |-> "out"]

\* The startup order of sessionflow; launch is the hand-off that follows.
Phases(c) ==
    IF c.preflight THEN <<"render", "mutations", "snapshot", "launch">>
                   ELSE <<"render", "snapshot", "mutations", "launch">>

\* The runtime steps a session prepares, in order.
RuntimeSteps(c) ==
    <<"temp", "auth">> \o (IF c.https THEN <<"https">> ELSE <<>>)
                       \o (IF c.ssh THEN <<"ssh">> ELSE <<>>)

Init ==
    /\ cfg \in Config
    /\ pc = "startup" /\ todo = Phases(cfg) /\ held = <<>> /\ outcome = "none"
    /\ listener = [b \in Broker |-> "none"]
    /\ conn = [k \in Conn |-> NotConnected]
    /\ child = "none" /\ contained = "none"
    /\ bar = FALSE /\ interrupts = 0 /\ killTimer = FALSE /\ signals = 0

----------------------------------------------------------------------------
(* Startup and preparation.                                                *)

\* A startup phase.  Only a host mutation can fail, and it ends the launch
\* before anything is prepared; a failed snapshot is a warning.
StartupPhase ==
    /\ pc = "startup" /\ todo # <<>>
    /\ \/ /\ todo' = IF Tail(todo) = <<>> THEN RuntimeSteps(cfg) ELSE Tail(todo)
          /\ pc' = IF Tail(todo) = <<>> THEN "prepare" ELSE pc
          /\ UNCHANGED outcome
       \/ /\ Head(todo) = "mutations"
          /\ pc' = "release" /\ outcome' = "error" /\ UNCHANGED todo
    /\ UNCHANGED <<cfg, held, listener, conn, signals, commandVars>>

\* A runtime step succeeds: a broker step leaves its listener open.
PrepareStep ==
    /\ pc = "prepare" /\ todo # <<>>
    /\ held' = Append(held, Head(todo)) /\ todo' = Tail(todo)
    /\ listener' = IF Head(todo) \in Broker
                   THEN [listener EXCEPT ![Head(todo)] = "open"] ELSE listener
    /\ pc' = IF Tail(todo) = <<>> THEN "policy" ELSE pc
    /\ UNCHANGED <<cfg, outcome, conn, signals, commandVars>>

\* Slip: an error leaves the steps prepared before it as they are.
PrepareFailsWithoutCleanup ==
    /\ pc = "prepare" /\ pc' = "done" /\ outcome' = "error"
    /\ UNCHANGED <<cfg, todo, held, listener, conn, signals, commandVars>>

\* A runtime step fails.  It has removed its own directory and listener, and
\* the steps before it are cleaned in reverse order.
PrepareFails ==
    /\ pc = "prepare" /\ pc' = "release" /\ outcome' = "error"
    /\ UNCHANGED <<cfg, todo, held, listener, conn, signals, commandVars>>

\* The policy file, the session metadata and the build of the command line.
PreparePolicy ==
    /\ pc = "policy"
    /\ \/ /\ held' = Append(held, "policy") /\ pc' = "command" /\ UNCHANGED outcome
       \/ /\ pc' = "release" /\ outcome' = "error" /\ UNCHANGED held
    /\ UNCHANGED <<cfg, todo, listener, conn, signals, commandVars>>

\* Marshalling the metadata or creating the fallback temporary directory
\* fails between the policy and the command.
LateFailure ==
    /\ pc = "command" /\ pc' = "release" /\ outcome' = "error"
    /\ UNCHANGED <<cfg, todo, held, listener, conn, signals, commandVars>>

\* The deferred teardown of the display is registered, the bar may be drawn,
\* and the command is started.
StartCommand ==
    /\ pc = "command"
    /\ held' = Append(held, "display") /\ bar' = (cfg.bar = "now")
    /\ \/ /\ child' = "running" /\ contained' = "running"
          /\ pc' = "running" /\ UNCHANGED outcome
       \/ /\ pc' = "post" /\ outcome' = "error" /\ UNCHANGED <<child, contained>>
    /\ UNCHANGED <<cfg, todo, listener, conn, signals, interrupts, killTimer>>

----------------------------------------------------------------------------
(* The command and its signals.                                            *)

\* The watcher sees the switch to the alternate screen in the transcript.
AltScreen ==
    /\ pc = "running" /\ cfg.bar = "altscreen" /\ ~bar /\ bar' = TRUE
    /\ UNCHANGED <<launchVars, pc, listener, conn, child, contained, signals,
                   interrupts, killTimer>>

\* The contained command ends, and sudo with it.
CommandEnds ==
    /\ contained = "running" /\ contained' = "ended"
    /\ child' = "exited"
    /\ UNCHANGED <<launchVars, pc, listener, conn, bar, signals, interrupts,
                   killTimer>>

\* Slip: the first interrupt already starts the kill timer.
KillOnFirstSignal ==
    /\ pc = "running" /\ signals < MaxSignals /\ signals' = signals + 1
    /\ \E sig \in {"INT", "TERM"} :
          interrupts' = IF sig = "INT" THEN interrupts + 1 ELSE interrupts
    /\ killTimer' = (child = "running")
    /\ UNCHANGED <<launchVars, pc, listener, conn, child, contained, bar>>

\* A signal while the command runs is passed on; SIGTERM or a second SIGINT
\* starts the timer.  The command decides for itself what to do about it.
ForwardSignal ==
    /\ pc = "running" /\ signals < MaxSignals /\ signals' = signals + 1
    /\ \E sig \in {"INT", "TERM"} :
          /\ interrupts' = IF sig = "INT" THEN interrupts + 1 ELSE interrupts
          /\ killTimer' = (killTimer \/
                 (child = "running" /\ (sig = "TERM" \/ interrupts' >= 2)))
    /\ UNCHANGED <<launchVars, pc, listener, conn, child, contained, bar>>

\* The timer kills the direct child.  The contained command belongs to
\* another user and is not the process that was signalled: it may go on.
KillChild ==
    /\ killTimer /\ killTimer' = FALSE
    /\ IF child = "running"
       THEN child' = "exited" /\ contained' \in {contained, "ended"}
       ELSE UNCHANGED <<child, contained>>
    /\ UNCHANGED <<launchVars, pc, listener, conn, bar, signals, interrupts>>

\* Wait returns.
CommandWaited ==
    /\ pc = "running" /\ child = "exited"
    /\ pc' = "post" /\ outcome' \in {"ok", "error"}
    /\ UNCHANGED <<cfg, todo, held, listener, conn, signals, commandVars>>

\* Git metadata is repaired and denials are remembered; neither fails.
PostSession ==
    /\ pc = "post" /\ pc' = "release"
    /\ UNCHANGED <<launchVars, listener, conn, signals, commandVars>>

\* Outside the wait a signal has its default effect unless the bar swallows
\* it: the process is gone without its deferred calls.
SignalOutsideCommand ==
    /\ pc \notin {"running", "done", "dead"}
    /\ signals < MaxSignals /\ signals' = signals + 1
    /\ IF bar THEN UNCHANGED <<pc, listener, conn, killTimer>>
       ELSE /\ pc' = "dead" /\ killTimer' = FALSE
            /\ listener' = [b \in Broker |->
                   IF listener[b] = "open" THEN "closed" ELSE listener[b]]
            /\ conn' = [k \in Conn |-> NotConnected]
    /\ UNCHANGED <<launchVars, child, contained, bar, interrupts>>

----------------------------------------------------------------------------
(* Teardown.                                                               *)

Top == held[Len(held)]
Pop == held' = SubSeq(held, 1, Len(held) - 1)

\* A resource that is released in one step: the display (watcher, transcript
\* and bar), the policy file, the harness credentials and the temporary
\* directory, whose removal is only started.
Release ==
    /\ pc = "release" /\ held # <<>> /\ Top \notin Broker
    /\ Pop /\ bar' = (bar /\ Top # "display")
    /\ UNCHANGED <<cfg, todo, outcome, pc, listener, conn, child, contained,
                   signals, interrupts, killTimer>>

\* Close: the listener goes first.  What it has not accepted is reset.
CloseListener ==
    /\ pc = "release" /\ held # <<>> /\ Top \in Broker /\ listener[Top] = "open"
    /\ listener' = [listener EXCEPT ![Top] = "closed"]
    /\ conn' = [k \in Conn |-> IF conn[k].to = Top /\ conn[k].at = "queued"
                               THEN NotConnected ELSE conn[k]]
    /\ UNCHANGED <<launchVars, pc, signals, commandVars>>

\* The HTTPS service answers one connection at a time in its accept loop;
\* the SSH broker gives each its own goroutine.
Handling(b) == {k \in Conn : conn[k].to = b /\ conn[k].at \in {"reading", "serving"}}

\* Slip: the SSH broker too waits for the connections it handles.
EveryLoopBusy(b) == Handling(b) # {}

\* Slip: the HTTPS service too gives each connection a goroutine.
NoLoopBusy(b) == FALSE

LoopBusy(b) == b = "https" /\ Handling(b) # {}

\* Slip: Close does not wait for the accept loop.
RemoveWithoutWaiting ==
    /\ pc = "release" /\ held # <<>> /\ Top \in Broker /\ listener[Top] = "closed"
    /\ listener' = [listener EXCEPT ![Top] = "removed"] /\ Pop
    /\ UNCHANGED <<cfg, todo, outcome, pc, conn, signals, commandVars>>

\* Close: once the accept loop has ended the directory is removed.
RemoveBroker ==
    /\ pc = "release" /\ held # <<>> /\ Top \in Broker /\ listener[Top] = "closed"
    /\ ~LoopBusy(Top)
    /\ listener' = [listener EXCEPT ![Top] = "removed"] /\ Pop
    /\ UNCHANGED <<cfg, todo, outcome, pc, conn, signals, commandVars>>

Return ==
    /\ pc = "release" /\ held = <<>> /\ pc' = "done"
    /\ UNCHANGED <<launchVars, listener, conn, signals, commandVars>>

----------------------------------------------------------------------------
(* The Git brokers and the processes that ask them.                        *)

ConnStep(k, at) == conn' = [conn EXCEPT ![k].at = at]

\* A git process dials a broker.
Dial(k, b) ==
    /\ contained # "none" /\ conn[k] = NotConnected /\ listener[b] = "open"
    /\ conn' = [conn EXCEPT ![k] = [to |-> b, at |-> "queued"]]
    /\ UNCHANGED <<launchVars, pc, listener, signals, commandVars>>

Accept(k) ==
    /\ conn[k].at = "queued" /\ listener[conn[k].to] = "open"
    /\ ~LoopBusy(conn[k].to)
    /\ ConnStep(k, "reading")
    /\ UNCHANGED <<launchVars, pc, listener, signals, commandVars>>

\* The whole request has arrived: the credential store or ssh is run for it,
\* or it is refused with an error frame.
Serve(k) ==
    /\ conn[k].at = "reading"
    /\ \E at \in {"serving", "answered"} : ConnStep(k, at)
    /\ UNCHANGED <<launchVars, pc, listener, signals, commandVars>>

Answer(k) ==
    /\ conn[k].at = "serving"
    /\ ConnStep(k, "answered")
    /\ UNCHANGED <<launchVars, pc, listener, signals, commandVars>>

\* A client hangs up before it has sent its request, or after its answer.
HangUp(k) ==
    /\ conn[k].at \in {"queued", "reading", "answered"}
    /\ conn' = [conn EXCEPT ![k] = NotConnected]
    /\ UNCHANGED <<launchVars, pc, listener, signals, commandVars>>

Launch == StartupPhase \/ PrepareStep \/ PreparePolicy \/ StartCommand
          \/ CommandWaited \/ PostSession \/ Release \/ CloseListener
          \/ RemoveBroker \/ Return

Failure == PrepareFails \/ LateFailure

Environment == AltScreen \/ CommandEnds \/ ForwardSignal \/ KillChild
               \/ SignalOutsideCommand

Git == \E k \in Conn : Accept(k) \/ Serve(k) \/ Answer(k) \/ HangUp(k)
                       \/ \E b \in Broker : Dial(k, b)

Next == Launch \/ Failure \/ Environment \/ Git

Spec == Init /\ [][Next]_runtimeVars

\* The launch, the brokers and the kill timer go on by themselves; nothing
\* makes a client send its request or hang up, nor the command end.
Fairness ==
    /\ WF_runtimeVars(Launch) /\ WF_runtimeVars(KillChild)
    /\ \A k \in Conn : WF_runtimeVars(Accept(k)) /\ WF_runtimeVars(Answer(k))

FairSpec == Spec /\ Fairness

----------------------------------------------------------------------------
Resource == {"temp", "auth", "https", "ssh", "policy", "display"}

TypeOK ==
    /\ cfg \in Config
    /\ pc \in {"startup", "prepare", "policy", "command", "running", "post",
               "release", "done", "dead"}
    /\ todo \in Seq({"render", "snapshot", "mutations", "launch"} \cup Resource)
    /\ held \in Seq(Resource) /\ outcome \in {"none", "ok", "error"}
    /\ listener \in [Broker -> {"none", "open", "closed", "removed"}]
    /\ conn \in [Conn -> [to : Broker \cup {"none"},
                          at : {"out", "queued", "reading", "serving", "answered"}]]
    /\ Cardinality(Handling("https")) <= 1
    /\ child \in {"none", "running", "exited"}
    /\ contained \in {"none", "running", "ended"}
    /\ bar \in BOOLEAN /\ killTimer \in BOOLEAN
    /\ interrupts \in 0..MaxSignals /\ signals \in 0..MaxSignals

\* The launch seen as the stack it promises to be.
Stack == INSTANCE ResourceStack WITH
    phase <- CASE pc = "done" -> "returned" [] pc = "dead" -> "dead"
               [] pc = "release" -> "releasing" [] OTHER -> "acquiring"

\* Every path through the launch function and its deferred calls, failures
\* of any step included, acquires and releases as ResourceStack says.
ReleasesInReverse == Stack!Spec

\* Once the HTTPS service's Close has returned, no git process is being given
\* a credential: the accept loop, which handles requests itself, has ended.
NoCredentialAfterClose == listener["https"] = "removed" => Handling("https") = {}

\* The launch takes its runtime down under a contained command that is still
\* running only after SIGTERM or a second interrupt had the child killed.
OrphanOnlyAfterInsistence ==
    child = "exited" /\ contained = "running"
        => interrupts >= 2 \/ signals > interrupts

\* The teardown can hang for one reason only: a process that connected to
\* the HTTPS credential socket neither sends a request nor hangs up.
TeardownBlockedOnlyBySilentClient ==
    <>[](pc = "release") =>
        \E k \in Conn : <>[](conn[k] = [to |-> "https", at |-> "reading"])

\* What a launch leaves behind: no credential after the service closed, and no
\* contained command unless the user insisted.
NothingOutlivesTheLaunch == NoCredentialAfterClose /\ OrphanOnlyAfterInsistence
=============================================================================
