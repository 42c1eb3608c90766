------------------------ MODULE SessionRuntimeProofs ------------------------
(***************************************************************************)
(* About one native launch, for any number of git connections and signals: *)
(* what it cannot leave behind, and that it releases what it creates in    *)
(* reverse.                                                                *)
(***************************************************************************)
EXTENDS SessionRuntime, FiniteSetTheorems, SequenceTheorems, TLAPS

\* SIGTERM, or a second interrupt, was received while the command ran or before.
Insisted == interrupts >= 2 \/ signals > interrupts

ConnState == [to : Broker \union {"none"}, at : {"out", "queued", "reading", "serving", "answered"}]

\* The two properties; that a socket is only closed once the launch is being
\* taken down, so that no broker step can open it again; and that the timer
\* which kills the child only runs after the user insisted.
LeftInv ==
    /\ conn \in [Conn -> ConnState]
    /\ listener \in [Broker -> {"none", "open", "closed", "removed"}]
    /\ interrupts \in Nat /\ signals \in Nat /\ interrupts <= signals
    /\ \A b \in Broker : listener[b] \in {"closed", "removed"} => pc \in {"release", "done", "dead"}
    /\ (killTimer = TRUE) => Insisted
    /\ killTimer \in BOOLEAN
    /\ NoCredentialAfterClose
    /\ OrphanOnlyAfterInsistence

LEMMA LeftInvInit == Init => LeftInv
<1> SUFFICES ASSUME Init
             PROVE  LeftInv
    OBVIOUS
<1>1. conn \in [Conn -> ConnState] /\ listener \in [Broker -> {"none", "open", "closed", "removed"}]
    BY DEF Init, ConnState, NotConnected
<1>2. \A b \in Broker : listener[b] = "none"
    BY DEF Init
<1>3. NoCredentialAfterClose
    BY <1>2 DEF NoCredentialAfterClose, Broker
<1>4. interrupts = 0 /\ signals = 0 /\ killTimer = FALSE /\ child = "none"
    BY DEF Init
<1>5. OrphanOnlyAfterInsistence
    BY <1>4 DEF OrphanOnlyAfterInsistence
<1>6. \A b \in Broker : listener[b] \in {"closed", "removed"} => pc \in {"release", "done", "dead"}
    BY <1>2
<1>7. interrupts \in Nat /\ signals \in Nat /\ interrupts <= signals
    BY <1>4
<1>8. killTimer \in BOOLEAN /\ ~(killTimer = TRUE)
    BY <1>4, Zenon
<1> QED
    BY <1>1, <1>3, <1>5, <1>6, <1>7, <1>8 DEF LeftInv

----------------------------------------------------------------------------
\* Steps of the launch and of the signals that leave every connection and
\* socket alone.
LEMMA CommandStepKeepsInv ==
    ASSUME LeftInv,
           UNCHANGED <<listener, conn>>, pc' = pc \/ pc' \in {"release", "done", "dead"}
               \/ pc \notin {"release", "done", "dead"},
           interrupts' \in Nat, signals' \in Nat, interrupts' <= signals',
           Insisted => Insisted',
           killTimer' \in BOOLEAN, (killTimer' = TRUE) => Insisted',
           child' = "exited" /\ contained' = "running" => Insisted'
    PROVE  LeftInv'
<1>1. \A b \in Broker : listener'[b] \in {"closed", "removed"} => pc' \in {"release", "done", "dead"}
    BY DEF LeftInv
<1>2. NoCredentialAfterClose'
    BY DEF LeftInv, NoCredentialAfterClose, Handling
<1>3. OrphanOnlyAfterInsistence'
    BY DEF OrphanOnlyAfterInsistence, Insisted
<1> QED
    BY <1>1, <1>2, <1>3 DEF LeftInv

\* A signal while the command runs: the timer starts only on insistence, and
\* what was insisted on before still is.
LEMMA ForwardSignalKeepsInv == LeftInv /\ ForwardSignal => LeftInv'
<1> SUFFICES ASSUME LeftInv, ForwardSignal
             PROVE  LeftInv'
    OBVIOUS
<1>1. PICK sig \in {"INT", "TERM"} :
         /\ interrupts' = IF sig = "INT" THEN interrupts + 1 ELSE interrupts
         /\ killTimer' = (killTimer \/
                (child = "running" /\ (sig = "TERM" \/ interrupts' >= 2)))
    BY DEF ForwardSignal
<1>2. signals' = signals + 1 /\ UNCHANGED <<listener, conn, pc, child, contained>>
    BY DEF ForwardSignal
<1>3. interrupts \in Nat /\ signals \in Nat /\ interrupts <= signals
    BY DEF LeftInv
<1>4. interrupts' \in Nat /\ signals' \in Nat /\ interrupts' <= signals' /\ (Insisted => Insisted')
    BY <1>1, <1>2, <1>3 DEF Insisted
<1>5. sig = "TERM" \/ interrupts' >= 2 => Insisted'
    BY <1>1, <1>2, <1>3 DEF Insisted
<1>6. killTimer' \in BOOLEAN /\ ((killTimer' = TRUE) => Insisted')
    <2>1. killTimer \in BOOLEAN /\ ((killTimer = TRUE) => Insisted)
        BY DEF LeftInv
    <2> HIDE DEF Insisted
    <2> QED
        BY <1>1, <1>4, <1>5, <2>1
<1>7. child' = "exited" /\ contained' = "running" => Insisted'
    BY <1>2, <1>4 DEF LeftInv, OrphanOnlyAfterInsistence, Insisted
<1> QED
    BY <1>2, <1>4, <1>6, <1>7, CommandStepKeepsInv

\* The steps of the launch and the command that meet no signal.
LEMMA QuietStepKeepsInv ==
    ASSUME LeftInv, UNCHANGED <<listener, conn, interrupts, signals>>,
           pc' = pc \/ pc' \in {"release", "done", "dead"} \/ pc \notin {"release", "done", "dead"},
           UNCHANGED killTimer \/ killTimer' = FALSE,
           \/ UNCHANGED <<child, contained>>
           \/ contained' = "ended" \/ child' = "running"
           \/ Insisted
    PROVE  LeftInv'
<1>1. interrupts' \in Nat /\ signals' \in Nat /\ interrupts' <= signals' /\ Insisted' = Insisted
    BY DEF LeftInv, Insisted
<1>2. killTimer' \in BOOLEAN /\ ((killTimer' = TRUE) => Insisted')
    BY <1>1 DEF LeftInv
<1>3. child' = "exited" /\ contained' = "running" => Insisted'
    BY <1>1 DEF LeftInv, OrphanOnlyAfterInsistence, Insisted
<1> QED
    BY <1>1, <1>2, <1>3, CommandStepKeepsInv

LEMMA KillChildKeepsInv == LeftInv /\ KillChild => LeftInv'
<1> SUFFICES ASSUME LeftInv, KillChild
             PROVE  LeftInv'
    OBVIOUS
<1>1. Insisted
    BY DEF KillChild, LeftInv
<1> QED
    BY <1>1, QuietStepKeepsInv DEF KillChild, launchVars

----------------------------------------------------------------------------
\* A connection makes a step of its own: none begins to be served once the
\* socket is closed.
LEMMA GitKeepsInv == LeftInv /\ Git => LeftInv'
<1> SUFFICES ASSUME LeftInv, Git
             PROVE  LeftInv'
    OBVIOUS
<1>1. PICK k \in Conn : Accept(k) \/ Serve(k) \/ Answer(k) \/ HangUp(k) \/ \E b \in Broker : Dial(k, b)
    BY DEF Git
<1>2. UNCHANGED <<launchVars, pc, listener, signals, commandVars>>
    BY <1>1 DEF Accept, Serve, Answer, HangUp, Dial
<1>3. PICK c \in ConnState :
         /\ conn' = [conn EXCEPT ![k] = c]
         /\ listener["https"] = "removed" /\ c.to = "https" /\ c.at \in {"reading", "serving"}
               => conn[k].to = "https" /\ conn[k].at \in {"reading", "serving"}
    <2>1. conn[k] \in ConnState /\ NotConnected \in ConnState
        BY DEF LeftInv, ConnState, NotConnected
    <2>2. \A at \in {"reading", "serving", "answered"} :
             [conn[k] EXCEPT !.at = at] \in ConnState /\ [conn[k] EXCEPT !.at = at].to = conn[k].to
             /\ [conn[k] EXCEPT !.at = at].at = at
        BY <2>1 DEF ConnState
    <2>3. CASE Accept(k)
        <3>1. conn' = [conn EXCEPT ![k] = [conn[k] EXCEPT !.at = "reading"]] /\ listener[conn[k].to] = "open"
            BY <2>3 DEF Accept, ConnStep, LeftInv
        <3> QED
            BY <2>2, <3>1
    <2>4. CASE Serve(k)
        <3>1. PICK at \in {"serving", "answered"} : conn' = [conn EXCEPT ![k] = [conn[k] EXCEPT !.at = at]]
            BY <2>4 DEF Serve, ConnStep
        <3> QED
            BY <2>2, <2>4, <3>1 DEF Serve
    <2>5. CASE Answer(k)
        <3>1. conn' = [conn EXCEPT ![k] = [conn[k] EXCEPT !.at = "answered"]]
            BY <2>5 DEF Answer, ConnStep
        <3> QED
            BY <2>2, <3>1
    <2>6. CASE HangUp(k)
        BY <2>1, <2>6 DEF HangUp, NotConnected
    <2>7. ASSUME NEW b \in Broker, Dial(k, b)
          PROVE  \E c \in ConnState :
                    /\ conn' = [conn EXCEPT ![k] = c]
                    /\ c.at = "queued"
        <3>1. [to |-> b, at |-> "queued"] \in ConnState
            BY DEF ConnState
        <3> QED
            BY <2>7, <3>1 DEF Dial
    <2> QED
        BY <1>1, <2>3, <2>4, <2>5, <2>6, <2>7
<1>4. conn' \in [Conn -> ConnState]
    BY <1>3 DEF LeftInv
<1>5. NoCredentialAfterClose'
    <2> SUFFICES ASSUME listener["https"] = "removed", NEW j \in Handling("https")'
                 PROVE  FALSE
        BY <1>2 DEF NoCredentialAfterClose
    <2>1. Handling("https") = {}
        BY DEF LeftInv, NoCredentialAfterClose
    <2> QED
        BY <1>3, <2>1 DEF Handling, LeftInv
<1>6. OrphanOnlyAfterInsistence' /\ Insisted' = Insisted
    BY <1>2 DEF LeftInv, OrphanOnlyAfterInsistence, Insisted, commandVars
<1> QED
    BY <1>2, <1>4, <1>5, <1>6 DEF LeftInv, commandVars

----------------------------------------------------------------------------
\* A socket is opened before any is closed.
LEMMA PrepareStepKeepsInv == LeftInv /\ PrepareStep => LeftInv'
<1> SUFFICES ASSUME LeftInv, PrepareStep
             PROVE  LeftInv'
    OBVIOUS
<1>1. pc = "prepare" /\ UNCHANGED <<conn, signals, commandVars>>
    BY DEF PrepareStep
<1>2. \A b \in Broker : listener'[b] \in {listener[b], "open"}
    BY DEF PrepareStep, LeftInv
<1>3. listener' \in [Broker -> {"none", "open", "closed", "removed"}]
    BY DEF PrepareStep, LeftInv
<1>4. \A b \in Broker : listener'[b] \notin {"closed", "removed"}
    BY <1>1, <1>2 DEF LeftInv
<1>5. NoCredentialAfterClose'
    BY <1>4 DEF NoCredentialAfterClose, Broker
<1>6. OrphanOnlyAfterInsistence' /\ Insisted' = Insisted
    BY <1>1 DEF LeftInv, OrphanOnlyAfterInsistence, Insisted, commandVars
<1> QED
    BY <1>1, <1>3, <1>4, <1>5, <1>6 DEF LeftInv, commandVars

\* Hazmat dies: its sockets and connections go with it.
LEMMA SignalOutsideCommandKeepsInv == LeftInv /\ SignalOutsideCommand => LeftInv'
<1> SUFFICES ASSUME LeftInv, SignalOutsideCommand
             PROVE  LeftInv'
    OBVIOUS
<1>1. /\ interrupts' \in Nat /\ signals' \in Nat /\ interrupts' <= signals' /\ (Insisted => Insisted')
      /\ UNCHANGED <<child, contained>>
    BY DEF SignalOutsideCommand, LeftInv, Insisted
<1>2. child' = "exited" /\ contained' = "running" => Insisted'
    BY <1>1 DEF LeftInv, OrphanOnlyAfterInsistence, Insisted
<1>3. CASE UNCHANGED <<pc, listener, conn, killTimer>>
    BY <1>1, <1>2, <1>3, CommandStepKeepsInv DEF LeftInv
<1>4. CASE /\ pc' = "dead" /\ killTimer' = FALSE
           /\ listener' = [b \in Broker |-> IF listener[b] = "open" THEN "closed" ELSE listener[b]]
           /\ conn' = [k \in Conn |-> NotConnected]
    <2>1. /\ conn' \in [Conn -> ConnState]
          /\ listener' \in [Broker -> {"none", "open", "closed", "removed"}]
        BY <1>4 DEF LeftInv, ConnState, NotConnected
    <2>2. NoCredentialAfterClose'
        BY <1>4 DEF NoCredentialAfterClose, Handling, NotConnected
    <2>3. OrphanOnlyAfterInsistence'
        BY <1>2 DEF OrphanOnlyAfterInsistence, Insisted
    <2> QED
        BY <1>1, <1>4, <2>1, <2>2, <2>3 DEF LeftInv
<1> QED
    BY <1>3, <1>4 DEF SignalOutsideCommand

\* Close of a broker: its listener goes, then, once its loop is idle, its
\* directory.
LEMMA CloseKeepsInv == LeftInv /\ (CloseListener \/ RemoveBroker) => LeftInv'
<1> SUFFICES ASSUME LeftInv, CloseListener \/ RemoveBroker
             PROVE  LeftInv'
    OBVIOUS
<1>1. pc = "release" /\ pc' = pc /\ Top \in Broker /\ UNCHANGED <<signals, commandVars>>
    BY DEF CloseListener, RemoveBroker, launchVars
<1>2. PICK at \in {"closed", "removed"} : listener' = [listener EXCEPT ![Top] = at]
    BY DEF CloseListener, RemoveBroker
<1>3. listener' \in [Broker -> {"none", "open", "closed", "removed"}]
    BY <1>2 DEF LeftInv
<1>4. OrphanOnlyAfterInsistence' /\ Insisted' = Insisted
    BY <1>1 DEF LeftInv, OrphanOnlyAfterInsistence, Insisted, commandVars
<1>5. conn' \in [Conn -> ConnState] /\ NoCredentialAfterClose'
    <2>1. CASE CloseListener
        <3>1. conn' = [k \in Conn |-> IF conn[k].to = Top /\ conn[k].at = "queued"
                                      THEN NotConnected ELSE conn[k]]
            BY <2>1 DEF CloseListener
        <3>2. NotConnected \in ConnState /\ NotConnected.at = "out"
            BY DEF NotConnected, ConnState
        <3>3. Handling("https")' \subseteq Handling("https")
            BY <3>1, <3>2 DEF Handling
        <3>4. listener' = [listener EXCEPT ![Top] = "closed"]
            BY <2>1 DEF CloseListener
        <3>5. listener'["https"] = "removed" => listener["https"] = "removed"
            BY <1>1, <3>4 DEF LeftInv, Broker
        <3> QED
            BY <3>1, <3>2, <3>3, <3>5 DEF LeftInv, NoCredentialAfterClose
    <2>2. CASE RemoveBroker
        <3>1. UNCHANGED conn /\ ~LoopBusy(Top) /\ listener' = [listener EXCEPT ![Top] = "removed"]
            BY <2>2 DEF RemoveBroker
        <3>2. CASE Top = "https"
            BY <3>1, <3>2 DEF LoopBusy, LeftInv, NoCredentialAfterClose, Handling
        <3>3. CASE Top # "https"
            BY <1>1, <3>1, <3>3 DEF LeftInv, NoCredentialAfterClose, Handling, Broker
        <3> QED
            BY <3>2, <3>3
    <2> QED
        BY <2>1, <2>2
<1> QED
    BY <1>1, <1>3, <1>4, <1>5 DEF LeftInv, commandVars

LEMMA LeftInvStep == LeftInv /\ [Next]_runtimeVars => LeftInv'
<1> SUFFICES ASSUME LeftInv, [Next]_runtimeVars
             PROVE  LeftInv'
    OBVIOUS
<1>1. CASE StartupPhase \/ PrepareFails \/ PreparePolicy \/ LateFailure \/ StartCommand
    BY <1>1, QuietStepKeepsInv
       DEF StartupPhase, PrepareFails, PreparePolicy, LateFailure, StartCommand, commandVars
<1>2. CASE AltScreen \/ CommandEnds
    BY <1>2, QuietStepKeepsInv DEF AltScreen, CommandEnds
<1>3. CASE CommandWaited \/ PostSession \/ Release \/ Return \/ UNCHANGED runtimeVars
    BY <1>3, QuietStepKeepsInv
       DEF CommandWaited, PostSession, Release, Return, commandVars, runtimeVars
<1> QED
    BY <1>1, <1>2, <1>3, PrepareStepKeepsInv, CloseKeepsInv, ForwardSignalKeepsInv,
       KillChildKeepsInv, SignalOutsideCommandKeepsInv, GitKeepsInv
       DEF Next, Launch, Failure, Environment

----------------------------------------------------------------------------
\* defaultRunAgentSeatbeltScriptWithPlan and Close of the HTTPS credential service: once
\* the service is gone no git process is being given a credential, and a
\* launch that takes its runtime down under a running command was told to
\* more than once, or by SIGTERM.
THEOREM NothingIsLeft == Spec => []NothingOutlivesTheLaunch
<1>1. Spec => []LeftInv
    BY LeftInvInit, LeftInvStep, PTL DEF Spec
<1>2. LeftInv => NothingOutlivesTheLaunch
    BY DEF LeftInv, NothingOutlivesTheLaunch
<1> QED
    BY <1>1, <1>2, PTL

----------------------------------------------------------------------------
(* The launch implements the stack it promises to be.                      *)

RuntimeStep == {"temp", "auth", "https", "ssh"}

\* Nothing is created twice: what is still to be prepared is not held, and the
\* policy file and the display come after all of it.
HeldInv ==
    /\ cfg \in Config /\ held \in Seq(Resource)
    /\ pc = "startup" => held = <<>>
    /\ pc = "prepare" =>
          /\ todo \in Seq(RuntimeStep)
          /\ \A i, j \in 1..Len(todo) : todo[i] = todo[j] => i = j
          /\ \A i \in 1..Len(held), j \in 1..Len(todo) : held[i] # todo[j]
    /\ pc \in {"prepare", "policy"} => \A i \in 1..Len(held) : held[i] \in RuntimeStep
    /\ pc = "command" => \A i \in 1..Len(held) : held[i] # "display"

LEMMA HeldInvInit == Init => HeldInv
BY DEF Init, HeldInv

LEMMA OneOrNone ==
    ASSUME NEW x \in RuntimeStep, NEW wanted
    PROVE  LET steps == IF wanted THEN <<x>> ELSE <<>> IN
           /\ steps \in Seq(RuntimeStep) /\ Len(steps) \in {0, 1}
           /\ \A i \in 1..Len(steps) : steps[i] = x
<1>1. <<x>> \in Seq(RuntimeStep) /\ Len(<<x>>) = 1 /\ <<x>>[1] = x
    OBVIOUS
<1>2. <<>> \in Seq(RuntimeStep) /\ Len(<<>>) = 0
    OBVIOUS
<1>3. CASE wanted
    BY <1>1, <1>3
<1>4. CASE ~wanted
    BY <1>2, <1>4
<1> QED
    BY <1>3, <1>4

\* defaultPrepareSessionRuntime names each step once.
LEMMA StepsAreDistinct ==
    ASSUME NEW c \in Config
    PROVE  /\ RuntimeSteps(c) \in Seq(RuntimeStep)
           /\ \A i, j \in 1..Len(RuntimeSteps(c)) : RuntimeSteps(c)[i] = RuntimeSteps(c)[j] => i = j
<1> DEFINE https == IF c.https THEN <<"https">> ELSE <<>>
           ssh == IF c.ssh THEN <<"ssh">> ELSE <<>>
           first == <<"temp", "auth">> \o https
<1>1. /\ <<"temp", "auth">> \in Seq(RuntimeStep) /\ Len(<<"temp", "auth">>) = 2
      /\ <<"temp", "auth">>[1] = "temp" /\ <<"temp", "auth">>[2] = "auth"
    BY DEF RuntimeStep
<1>2. /\ https \in Seq(RuntimeStep) /\ Len(https) \in {0, 1}
      /\ \A i \in 1..Len(https) : https[i] = "https"
    BY OneOrNone DEF RuntimeStep
<1>3. /\ ssh \in Seq(RuntimeStep) /\ Len(ssh) \in {0, 1}
      /\ \A i \in 1..Len(ssh) : ssh[i] = "ssh"
    BY OneOrNone DEF RuntimeStep
<1>4. RuntimeSteps(c) = first \o ssh
    BY DEF RuntimeSteps
<1> HIDE DEF https, ssh
<1>5. /\ first \in Seq(RuntimeStep) /\ Len(first) = 2 + Len(https)
      /\ \A i \in 1..Len(first) : first[i] = IF i = 1 THEN "temp" ELSE IF i = 2 THEN "auth" ELSE "https"
      /\ Len(first) \in {2, 3}
    BY <1>1, <1>2, ConcatProperties
<1> HIDE DEF first
<1>6. /\ first \o ssh \in Seq(RuntimeStep) /\ Len(first \o ssh) = Len(first) + Len(ssh)
      /\ \A i \in 1..Len(first \o ssh) :
            (first \o ssh)[i] = IF i = 1 THEN "temp" ELSE IF i = 2 THEN "auth"
                                ELSE IF i <= Len(first) THEN "https" ELSE "ssh"
    BY <1>3, <1>5, ConcatProperties
<1> QED
    BY <1>3, <1>4, <1>5, <1>6

\* A step that leaves what is held as it is.
LEMMA SameHeld ==
    ASSUME HeldInv, UNCHANGED <<cfg, held>>,
           \/ UNCHANGED <<pc, todo>>
           \/ pc' \notin {"startup", "prepare", "policy", "command"}
    PROVE  HeldInv'
BY DEF HeldInv

\* A phase is run: the runtime steps come after the last.
LEMMA StartupKeepsHeld == HeldInv /\ StartupPhase => HeldInv'
<1> SUFFICES ASSUME HeldInv, StartupPhase
             PROVE  HeldInv'
    OBVIOUS
<1>1. held = <<>> /\ Len(held) = 0 /\ UNCHANGED <<cfg, held>> /\ cfg \in Config /\ pc = "startup"
    BY DEF HeldInv, StartupPhase
<1>2. CASE pc' = "prepare" /\ todo' = RuntimeSteps(cfg)
    BY <1>1, <1>2, StepsAreDistinct DEF HeldInv
<1>3. CASE pc' = pc \/ pc' = "release"
    BY <1>1, <1>3 DEF HeldInv
<1> QED
    BY <1>2, <1>3 DEF StartupPhase

\* A runtime step is prepared: it was not held, and the rest is not either.
LEMMA PrepareKeepsHeld ==
    HeldInv /\ PrepareStep
        => HeldInv' /\ Head(todo) \in RuntimeStep /\ \A i \in 1..Len(held) : held[i] # Head(todo)
<1> SUFFICES ASSUME HeldInv, PrepareStep
             PROVE  HeldInv' /\ Head(todo) \in RuntimeStep
                    /\ \A i \in 1..Len(held) : held[i] # Head(todo)
    OBVIOUS
<1> DEFINE step == Head(todo)
           n == Len(held)
           m == Len(todo)
<1>1. /\ pc = "prepare" /\ todo # <<>> /\ held' = Append(held, step) /\ todo' = Tail(todo)
      /\ pc' \in {"prepare", "policy"} /\ cfg' = cfg
    BY DEF PrepareStep
<1>2. /\ todo \in Seq(RuntimeStep) /\ m \in Nat \ {0} /\ n \in Nat
      /\ held \in Seq(Resource) /\ held \in Seq(RuntimeStep)
    <2>1. todo \in Seq(RuntimeStep) /\ m \in Nat \ {0} /\ n \in Nat /\ held \in Seq(Resource)
        BY <1>1, EmptySeq DEF HeldInv
    <2>2. \A i \in 1..n : held[i] \in RuntimeStep
        BY <1>1 DEF HeldInv
    <2> QED
        BY <2>1, <2>2
<1>3. step \in RuntimeStep /\ step = todo[1] /\ step \in Resource
    BY <1>2 DEF RuntimeStep, Resource
<1>4. /\ todo' \in Seq(RuntimeStep) /\ Len(todo') = m - 1
      /\ \A i \in 1..(m - 1) : todo'[i] = todo[i + 1]
    BY <1>1, <1>2, HeadTailProperties
<1>5. /\ held' \in Seq(Resource) /\ Len(held') = n + 1 /\ held'[n + 1] = step
      /\ \A i \in 1..n : held'[i] = held[i]
    <2> HIDE DEF step
    <2> QED
        BY <1>1, <1>2, <1>3, AppendProperties
<1>6. \A i \in 1..(n + 1) : i = n + 1 \/ i \in 1..n
    BY <1>2
<1>7. \A i \in 1..n : held[i] # step
    BY <1>1, <1>2, <1>3 DEF HeldInv
<1>8. \A i, j \in 1..Len(todo') : todo'[i] = todo'[j] => i = j
    <2>1. \A i \in 1..(m - 1) : i + 1 \in 1..m
        BY <1>2
    <2>2. \A i, j \in 1..m : todo[i] = todo[j] => i = j
        BY <1>1 DEF HeldInv
    <2>3. ASSUME NEW i \in 1..(m - 1), NEW j \in 1..(m - 1), todo'[i] = todo'[j]
          PROVE  i = j
        BY <1>4, <2>1, <2>2, <2>3
    <2> QED
        BY <1>4, <2>3
<1>9. \A i \in 1..Len(held'), j \in 1..Len(todo') : held'[i] # todo'[j]
    <2>1. ASSUME NEW i \in 1..(n + 1), NEW j \in 1..(m - 1)
          PROVE  held'[i] # todo'[j]
        <3>1. j + 1 \in 1..m /\ 1 \in 1..m /\ j + 1 # 1 /\ todo'[j] = todo[j + 1]
            BY <1>2, <1>4
        <3>2. CASE i = n + 1
            BY <1>1, <1>3, <1>5, <3>1, <3>2 DEF HeldInv
        <3>3. CASE i \in 1..n
            BY <1>1, <1>5, <3>1, <3>3 DEF HeldInv
        <3> QED
            BY <1>6, <3>2, <3>3
    <2> QED
        BY <1>4, <1>5, <2>1
<1>10. \A i \in 1..Len(held') : held'[i] \in RuntimeStep
    BY <1>1, <1>3, <1>5, <1>6 DEF HeldInv
<1> QED
    BY <1>1, <1>3, <1>4, <1>5, <1>7, <1>8, <1>9, <1>10 DEF HeldInv

\* The policy file, and after it the display.
LEMMA AcquireKeepsHeld ==
    ASSUME HeldInv, NEW r \in {"policy", "display"}, held' = Append(held, r), cfg' = cfg,
           \/ pc = "policy" /\ r = "policy" /\ pc' = "command"
           \/ pc = "command" /\ r = "display" /\ pc' \in {"running", "post"}
    PROVE  HeldInv' /\ \A i \in 1..Len(held) : held[i] # r
<1> DEFINE n == Len(held)
<1>1. held \in Seq(Resource) /\ r \in Resource /\ n \in Nat
    BY DEF HeldInv, Resource
<1>2. /\ held' \in Seq(Resource) /\ Len(held') = n + 1 /\ held'[n + 1] = r
      /\ \A i \in 1..n : held'[i] = held[i]
    BY <1>1, AppendProperties
<1>3. \A i \in 1..(n + 1) : i = n + 1 \/ i \in 1..n
    BY <1>1
<1>4. \A i \in 1..n : held[i] # r
    BY DEF HeldInv, RuntimeStep
<1>5. pc' = "command" => \A i \in 1..Len(held') : held'[i] # "display"
    BY <1>2, <1>3 DEF HeldInv, RuntimeStep
<1> QED
    BY <1>2, <1>4, <1>5 DEF HeldInv

\* What was created last is released.
LEMMA PopKeepsHeld ==
    ASSUME HeldInv, pc = "release", held # <<>>, Pop, UNCHANGED <<pc, cfg>>
    PROVE  HeldInv'
<1>1. held \in Seq(Resource) /\ Len(held) \in Nat \ {0}
    BY EmptySeq DEF HeldInv
<1>2. held' \in Seq(Resource)
    <2>1. \A i \in 1..(Len(held) - 1) : held[i] \in Resource
        BY <1>1
    <2> QED
        BY <1>1, <2>1, SubSeqProperties DEF Pop
<1> QED
    BY <1>2 DEF HeldInv

\* Every other step leaves what is held alone, and either moves on, or begins
\* to release, returns with nothing held, or dies.
Holds ==
    /\ UNCHANGED <<cfg, held>>
    /\ \/ UNCHANGED pc /\ (UNCHANGED todo \/ pc \notin {"startup", "prepare", "policy", "command"})
       \/ pc' = "post" /\ pc \notin {"release", "done", "dead"}
       \/ pc' = "release" /\ pc \notin {"release", "done", "dead"}
       \/ pc' = "done" /\ pc = "release" /\ held = <<>>
       \/ pc' = "dead" /\ pc \notin {"done", "dead"}

LEMMA OtherStepsHold ==
    ASSUME \/ PrepareFails \/ LateFailure \/ CommandWaited \/ PostSession \/ CloseListener \/ Return
           \/ Environment \/ Git \/ UNCHANGED runtimeVars
    PROVE  Holds
<1>1. PrepareFails \/ LateFailure \/ CommandWaited \/ PostSession \/ CloseListener \/ Return => Holds
    BY DEF PrepareFails, LateFailure, CommandWaited, PostSession, CloseListener, Return, launchVars, Holds
<1>2. Environment => Holds
    BY DEF Environment, AltScreen, CommandEnds, ForwardSignal, KillChild, SignalOutsideCommand,
           launchVars, Holds
<1>3. Git => Holds
    BY DEF Git, Accept, Serve, Answer, HangUp, Dial, launchVars, Holds
<1>4. UNCHANGED runtimeVars => Holds
    BY DEF runtimeVars, Holds
<1> QED
    BY <1>1, <1>2, <1>3, <1>4

\* The step of the stack that a step of the launch is.
LEMMA StackInvStep ==
    HeldInv /\ [Next]_runtimeVars
        => HeldInv' /\ [Stack!Next]_<<held, CASE pc = "done" -> "returned" [] pc = "dead" -> "dead"
                                             [] pc = "release" -> "releasing" [] OTHER -> "acquiring">>
<1> DEFINE phase == CASE pc = "done" -> "returned" [] pc = "dead" -> "dead"
                      [] pc = "release" -> "releasing" [] OTHER -> "acquiring"
<1> SUFFICES ASSUME HeldInv, [Next]_runtimeVars
             PROVE  HeldInv' /\ [Stack!Next]_<<held, phase>>
    OBVIOUS
<1>1. CASE StartupPhase
    <2>1. /\ HeldInv' /\ held' = held
          /\ pc = "startup" /\ pc' \in {"startup", "prepare", "release"}
        BY <1>1, StartupKeepsHeld DEF StartupPhase
    <2> QED
        BY <2>1 DEF Stack!Next, Stack!StartReleasing
<1>2. CASE PrepareStep
    <2>1. /\ HeldInv' /\ Head(todo) \in Resource
          /\ \A i \in DOMAIN held : held[i] # Head(todo)
        BY <1>2, PrepareKeepsHeld, LenProperties DEF RuntimeStep, Resource, HeldInv
    <2>2. pc = "prepare" /\ pc' \in {"prepare", "policy"} /\ held' = Append(held, Head(todo))
        BY <1>2 DEF PrepareStep
    <2> QED
        BY <2>1, <2>2 DEF Stack!Next, Stack!Acquire
<1>3. CASE PreparePolicy
    <2>1. CASE held' = Append(held, "policy") /\ pc' = "command"
        <3>1. HeldInv' /\ pc = "policy" /\ \A i \in DOMAIN held : held[i] # "policy"
            BY <1>3, <2>1, AcquireKeepsHeld, LenProperties DEF PreparePolicy, HeldInv
        <3> QED
            BY <2>1, <3>1 DEF Stack!Next, Stack!Acquire, Resource
    <2>2. CASE pc' = "release" /\ UNCHANGED held
        BY <1>3, <2>2, SameHeld DEF PreparePolicy, Stack!Next, Stack!StartReleasing
    <2> QED
        BY <1>3, <2>1, <2>2 DEF PreparePolicy
<1>4. CASE StartCommand
    <2>1. pc = "command" /\ pc' \in {"running", "post"} /\ held' = Append(held, "display") /\ cfg' = cfg
        BY <1>4 DEF StartCommand
    <2>2. HeldInv' /\ \A i \in DOMAIN held : held[i] # "display"
        BY <2>1, AcquireKeepsHeld, LenProperties DEF HeldInv
    <2> QED
        BY <2>1, <2>2 DEF Stack!Next, Stack!Acquire, Resource
<1>5. CASE Release \/ RemoveBroker
    <2>1. pc = "release" /\ pc' = pc /\ held # <<>> /\ Pop /\ cfg' = cfg
        BY <1>5 DEF Release, RemoveBroker
    <2> QED
        BY <2>1, PopKeepsHeld DEF Pop, Stack!Next, Stack!Release
<1>6. CASE Holds
    <2>1. HeldInv'
        BY <1>6 DEF Holds, HeldInv
    <2> QED
        BY <1>6, <2>1 DEF Holds, Stack!Next, Stack!StartReleasing, Stack!Return, Stack!Die
<1>7. \/ StartupPhase \/ PrepareStep \/ PreparePolicy \/ StartCommand \/ Release \/ RemoveBroker
      \/ Holds
    <2>1. CASE Next
        BY <2>1, OtherStepsHold DEF Next, Launch, Failure
    <2>2. CASE UNCHANGED runtimeVars
        BY <2>2, OtherStepsHold
    <2> QED
        BY <2>1, <2>2
<1> HIDE DEF phase
<1> QED
    BY <1>1, <1>2, <1>3, <1>4, <1>5, <1>6, <1>7

\* Every path through a native launch, its failures and its death included,
\* creates and releases as ResourceStack says: each resource once, in the
\* reverse order, and none left when the launch function returns.
THEOREM LaunchReleasesInReverse == Spec => ReleasesInReverse
<1>1. Init => Stack!Init
    BY DEF Init, Stack!Init
<1>2. Spec => []HeldInv
    BY HeldInvInit, StackInvStep, PTL DEF Spec
<1> QED
    BY <1>1, <1>2, StackInvStep, PTL DEF Spec, ReleasesInReverse, Stack!Spec

----------------------------------------------------------------------------
(* Types, and that the HTTPS service answers one connection at a time.     *)

Duty == {"render", "snapshot", "mutations", "launch"} \union Resource

\* What TypeOK says beyond the two invariants above, with the number of
\* connections the accept loop handles said without counting.
OneAtATime == \A j, k \in Handling("https") : j = k

Places ==
    /\ pc \in {"startup", "prepare", "policy", "command", "running", "post",
               "release", "done", "dead"}
    /\ outcome \in {"none", "ok", "error"}
    /\ child \in {"none", "running", "exited"}
    /\ contained \in {"none", "running", "ended"}
    /\ bar \in BOOLEAN
    /\ signals <= MaxSignals

TypeInv == LeftInv /\ HeldInv /\ Places /\ todo \in Seq(Duty) /\ OneAtATime

\* Any sequence of duties without its first is one.
LEMMA TailIsDuties ==
    ASSUME todo \in Seq(Duty), todo # <<>>
    PROVE  Tail(todo) \in Seq(Duty)
BY HeadTailProperties

LEMMA TypeInvInit == Init => TypeInv
<1> SUFFICES ASSUME Init
             PROVE  TypeInv
    OBVIOUS
<1>1. Places
    <2>1. bar \in BOOLEAN
        BY Zenon DEF Init
    <2> QED
        BY <2>1, SignalsAssumption DEF Init, Places
<1>2. todo \in Seq(Duty)
    <2>1. /\ <<"render", "mutations", "snapshot", "launch">> \in Seq(Duty)
          /\ <<"render", "snapshot", "mutations", "launch">> \in Seq(Duty)
        BY DEF Duty
    <2> QED
        BY <2>1 DEF Init, Phases
<1>3. OneAtATime
    BY DEF Init, OneAtATime, Handling, NotConnected
<1> QED
    BY <1>1, <1>2, <1>3, LeftInvInit, HeldInvInit DEF TypeInv

\* The launch goes on to a known step, with what is left of its duties.
LEMMA DutiesStay == TypeInv /\ [Next]_runtimeVars => todo' \in Seq(Duty)
<1> SUFFICES ASSUME TypeInv, [Next]_runtimeVars
             PROVE  todo' \in Seq(Duty)
    OBVIOUS
<1>1. todo \in Seq(Duty) /\ cfg \in Config
    BY DEF TypeInv, HeldInv
<1>2. RuntimeSteps(cfg) \in Seq(Duty)
    <2>1. RuntimeSteps(cfg) \in Seq(RuntimeStep)
        BY <1>1, StepsAreDistinct
    <2> QED
        BY <2>1 DEF RuntimeStep, Duty, Resource
<1>3. todo # <<>> => Tail(todo) \in Seq(Duty)
    BY <1>1, TailIsDuties
<1>4. CASE StartupPhase
    BY <1>1, <1>2, <1>3, <1>4 DEF StartupPhase
<1>5. CASE PrepareStep
    BY <1>3, <1>5 DEF PrepareStep
<1>6. CASE UNCHANGED todo
    BY <1>1, <1>6
<1>7. StartupPhase \/ PrepareStep \/ UNCHANGED todo
    BY DEF Next, Launch, Failure, Environment, Git, PreparePolicy, StartCommand, CommandWaited,
           PostSession, Release, CloseListener, RemoveBroker, Return, PrepareFails, LateFailure,
           AltScreen, CommandEnds, ForwardSignal, KillChild, SignalOutsideCommand, Accept, Serve,
           Answer, HangUp, Dial, launchVars, runtimeVars
<1> QED
    BY <1>4, <1>5, <1>6, <1>7

LEMMA PlacesStay == TypeInv /\ [Next]_runtimeVars => Places'
<1> SUFFICES ASSUME TypeInv, [Next]_runtimeVars
             PROVE  Places'
    OBVIOUS
<1>1. Places /\ signals \in Nat /\ MaxSignals \in Nat
    BY SignalsAssumption DEF TypeInv, LeftInv
<1>2. CASE StartupPhase \/ PrepareStep \/ PrepareFails \/ PreparePolicy \/ LateFailure
    BY <1>1, <1>2 DEF Places, StartupPhase, PrepareStep, PrepareFails, PreparePolicy, LateFailure,
                      commandVars
<1>3. CASE StartCommand
    <2>1. bar' \in BOOLEAN
        BY <1>3, Zenon DEF StartCommand
    <2> QED
        BY <1>1, <1>3, <2>1 DEF Places, StartCommand
<1>4. CASE CommandWaited \/ PostSession \/ CloseListener \/ RemoveBroker \/ Return
    BY <1>1, <1>4 DEF Places, CommandWaited, PostSession, CloseListener, RemoveBroker, Return,
                      launchVars, commandVars
<1>5. CASE Release
    <2>1. bar' \in BOOLEAN
        BY <1>5, Zenon DEF Release
    <2> QED
        BY <1>1, <1>5, <2>1 DEF Places, Release
<1>6. CASE AltScreen \/ CommandEnds \/ KillChild
    <2>1. bar' \in BOOLEAN
        BY <1>1, <1>6, Zenon DEF Places, AltScreen, CommandEnds, KillChild, launchVars
    <2>2. UNCHANGED <<pc, outcome, signals>>
        BY <1>6 DEF AltScreen, CommandEnds, KillChild, launchVars
    <2>3. child' \in {"none", "running", "exited"} /\ contained' \in {"none", "running", "ended"}
        BY <1>1, <1>6 DEF Places, AltScreen, CommandEnds, KillChild
    <2> QED
        BY <1>1, <2>1, <2>2, <2>3 DEF Places
<1>7. CASE ForwardSignal \/ SignalOutsideCommand
    <2>1. UNCHANGED <<outcome, child, contained, bar>> /\ pc' \in {pc, "dead"}
        BY <1>7 DEF ForwardSignal, SignalOutsideCommand, launchVars
    <2>2. signals' = signals + 1 /\ signals < MaxSignals
        BY <1>7 DEF ForwardSignal, SignalOutsideCommand
    <2>3. signals' <= MaxSignals
        BY <1>1, <2>2
    <2> QED
        BY <1>1, <2>1, <2>3 DEF Places
<1>8. CASE Git \/ UNCHANGED runtimeVars
    <2>1. UNCHANGED <<pc, outcome, child, contained, bar, signals>>
        BY <1>8 DEF Git, Accept, Serve, Answer, HangUp, Dial, launchVars, commandVars, runtimeVars
    <2> QED
        BY <1>1, <2>1 DEF Places
<1> QED
    BY <1>2, <1>3, <1>4, <1>5, <1>6, <1>7, <1>8 DEF Next, Launch, Failure, Environment

\* A connection is handled by the HTTPS service only after its accept loop has
\* taken it, which the loop does when it handles none.
LEMMA OneAtATimeStays == TypeInv /\ [Next]_runtimeVars => OneAtATime'
<1> SUFFICES ASSUME TypeInv, [Next]_runtimeVars
             PROVE  OneAtATime'
    OBVIOUS
<1>1. OneAtATime /\ conn \in [Conn -> ConnState]
    BY DEF TypeInv, LeftInv
<1>2. CASE Handling("https")' \subseteq Handling("https")
    BY <1>1, <1>2 DEF OneAtATime
<1>3. CASE UNCHANGED conn
    BY <1>2, <1>3 DEF Handling
<1>4. CASE CloseListener \/ SignalOutsideCommand
    <2>1. NotConnected.at = "out"
        BY DEF NotConnected
    <2>2. \A k \in Conn : UNCHANGED conn \/ conn'[k] \in {conn[k], NotConnected}
        BY <1>4 DEF CloseListener, SignalOutsideCommand
    <2> QED
        BY <1>2, <2>1, <2>2 DEF Handling
<1>5. ASSUME NEW k \in Conn, Accept(k)
      PROVE  OneAtATime'
    <2>1. conn' = [conn EXCEPT ![k] = [conn[k] EXCEPT !.at = "reading"]] /\ ~LoopBusy(conn[k].to)
        BY <1>1, <1>5 DEF Accept, ConnStep
    <2>2. [conn[k] EXCEPT !.at = "reading"].to = conn[k].to
        BY <1>1 DEF ConnState
    <2>3. CASE conn[k].to = "https"
        <3>1. Handling("https") = {}
            BY <2>1, <2>3 DEF LoopBusy
        <3>2. Handling("https")' \subseteq {k}
            BY <1>1, <2>1, <3>1 DEF Handling
        <3> QED
            BY <3>2 DEF OneAtATime
    <2>4. CASE conn[k].to # "https"
        BY <1>1, <1>2, <2>1, <2>2, <2>4 DEF Handling
    <2> QED
        BY <2>3, <2>4
<1>6. ASSUME NEW k \in Conn, Serve(k) \/ Answer(k)
      PROVE  OneAtATime'
    <2>1. PICK at \in {"serving", "answered"} : conn' = [conn EXCEPT ![k] = [conn[k] EXCEPT !.at = at]]
        BY <1>1, <1>6 DEF Serve, Answer, ConnStep
    <2>2. [conn[k] EXCEPT !.at = at].to = conn[k].to
        BY <1>1 DEF ConnState
    <2>3. conn[k].at \in {"reading", "serving"}
        BY <1>6 DEF Serve, Answer
    <2> QED
        BY <1>1, <1>2, <2>1, <2>2, <2>3 DEF Handling
<1>7. ASSUME NEW k \in Conn, HangUp(k) \/ \E b \in Broker : Dial(k, b)
      PROVE  OneAtATime'
    <2>1. PICK c : conn' = [conn EXCEPT ![k] = c] /\ c.at \in {"out", "queued"}
        BY <1>7 DEF HangUp, Dial, NotConnected
    <2> QED
        BY <1>1, <1>2, <2>1 DEF Handling
<1>8. \/ UNCHANGED conn \/ CloseListener \/ SignalOutsideCommand \/ Git
    BY DEF Next, Launch, Failure, Environment, StartupPhase, PrepareStep, PreparePolicy,
           StartCommand, CommandWaited, PostSession, Release, RemoveBroker, Return, PrepareFails,
           LateFailure, AltScreen, CommandEnds, ForwardSignal, KillChild, runtimeVars
<1> QED
    BY <1>3, <1>4, <1>5, <1>6, <1>7, <1>8 DEF Git

\* Whatever fails, is signalled or hangs up, the launch is at a known step, and
\* the accept loop of git_https_credentials.go handles no second connection
\* while it handles one.
THEOREM TypeCorrect == Spec => []TypeOK
<1>1. TypeInv /\ [Next]_runtimeVars => TypeInv'
    BY LeftInvStep, StackInvStep, DutiesStay, PlacesStay, OneAtATimeStays DEF TypeInv
<1>2. TypeInv => TypeOK
    <2> SUFFICES ASSUME TypeInv
                 PROVE  TypeOK
        OBVIOUS
    <2>1. Cardinality(Handling("https")) <= 1
        <3>1. CASE Handling("https") = {}
            BY <3>1, FS_EmptySet
        <3>2. ASSUME NEW k \in Handling("https")
              PROVE  Cardinality(Handling("https")) <= 1
            <4>1. Handling("https") = {k}
                BY DEF TypeInv, OneAtATime
            <4> QED
                BY <4>1, FS_Singleton
        <3> QED
            BY <3>1, <3>2
    <2>2. interrupts \in 0..MaxSignals /\ signals \in 0..MaxSignals
        BY SignalsAssumption DEF TypeInv, LeftInv, Places
    <2>3. bar \in BOOLEAN /\ killTimer \in BOOLEAN
        BY DEF TypeInv, LeftInv, Places
    <2> QED
        BY <2>1, <2>2, <2>3 DEF TypeOK, TypeInv, LeftInv, HeldInv, Places, ConnState, Duty
<1>3. Spec => []TypeInv
    BY TypeInvInit, <1>1, PTL DEF Spec
<1> QED
    BY <1>2, <1>3, PTL
=============================================================================
