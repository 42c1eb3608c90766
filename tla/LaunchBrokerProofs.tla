------------------------- MODULE LaunchBrokerProofs -------------------------
(* Proofs about LaunchBroker, for every set of hazmat processes, every mix *)
(* of launches and every number of faults.                                 *)
EXTENDS LaunchBroker, TLAPS

\* The inductive form of the type invariant: a broker is only started after
\* the first round trip.
FirstRoundTrip ==
    \A c \in Client : pc[c] \in {"ensure", "unlink", "await"} => attempt[c] = 1

TypeInv == TypeOK /\ FirstRoundTrip

\* Closing a connection changes neither the shape of a queue nor of a request.
LEMMA HangupTyped ==
    ASSUME TypeOK, NEW c \in Client, Hangup(c)
    PROVE  /\ backlog' \in [Client -> Seq(Entry)]
           /\ serving' \in [Client -> Request \cup {None}]
<1>1. ASSUME NEW b \in Client
      PROVE  [i \in DOMAIN backlog[b] |-> Shut(backlog[b][i], c)] \in Seq(Entry)
  <2>1. backlog[b] \in Seq(Entry)
    BY DEF TypeOK
  <2>2. \A e \in Entry : Shut(e, c) \in Entry
    BY DEF Shut, Entry
  <2>3. \A i \in 1 .. Len(backlog[b]) : backlog[b][i] \in Entry
    BY <2>1
  <2>4. DOMAIN backlog[b] = 1 .. Len(backlog[b]) /\ Len(backlog[b]) \in Nat
    BY <2>1
  <2> QED  BY <2>1, <2>2, <2>3, <2>4
<1>2. ASSUME NEW b \in Client
      PROVE  (IF serving[b] = None THEN None ELSE Shut(serving[b], c))
                 \in Request \cup {None}
  BY ZenonT(40) DEF TypeOK, Shut, Request
<1> QED  BY <1>1, <1>2 DEF Hangup

\* Where a failed round trip leads.
LEMMA AfterFailureTyped ==
    ASSUME TypeInv, NEW c \in Client, NEW cold \in BOOLEAN
    PROVE  /\ AfterFailure(c, cold) \in {"abort", "direct", "ensure"}
           /\ AfterFailure(c, cold) = "ensure" => attempt[c] = 1
BY DEF TypeInv, TypeOK, AfterFailure

\* A fault is counted.
LEMMA FaultTyped ==
    ASSUME TypeOK, Fault
    PROVE  faults' \in 0 .. MaxFaults
BY MaxFaultsAssumption DEF TypeOK, Fault

\* Starting a broker keeps the types of what it changes.
LEMMA SpawnTyped ==
    ASSUME TypeInv, NEW c \in Client, Spawn(c)
    PROVE  /\ broker' \in [Client -> {"none", "starting", "bound", "listening",
                                "closing", "remove", "removeAgain", "dead"}]
           /\ pc' \in [Client -> PC]
           /\ faults' \in 0 .. MaxFaults
           /\ pc[c] \in {"ensure", "unlink"} /\ UNCHANGED attempt => FirstRoundTrip'
<1> USE DEF TypeInv, TypeOK, FirstRoundTrip, PC
<1>1. CASE broker' = [broker EXCEPT ![c] = "starting"]
           /\ pc' = [pc EXCEPT ![c] = "await"] /\ UNCHANGED faults
  BY <1>1
<1>2. CASE Fault /\ pc' = [pc EXCEPT ![c] = "direct"] /\ UNCHANGED broker
  BY <1>2, FaultTyped
<1> QED  BY <1>1, <1>2 DEF Spawn

\* A killed broker keeps the types of what it leaves behind.
LEMMA KilledTyped ==
    ASSUME TypeOK, NEW b \in Client, Killed(b)
    PROVE  /\ broker' \in [Client -> {"none", "starting", "bound", "listening",
                                "closing", "remove", "removeAgain", "dead"}]
           /\ backlog' \in [Client -> Seq(Entry)]
           /\ serving' \in [Client -> Request \cup {None}]
           /\ inbox' \in [Client -> {None, "ok", "refused", "reset"}]
<1>1. <<>> \in Seq(Entry)  OBVIOUS
<1> QED  BY <1>1 DEF TypeOK, Killed, Reset

\* A request that moves on keeps its type.
LEMMA StageTyped ==
    ASSUME TypeOK, NEW b \in Client, serving[b] # None,
           NEW stage \in {"handle", "run", "ok", "refused"}, Stage(b, stage)
    PROVE  serving' \in [Client -> Request \cup {None}]
BY DEF TypeOK, Stage, Request

\* The initial state is well typed.
LEMMA TypeInitial == Init => TypeInv
<1> SUFFICES ASSUME Init PROVE TypeInv
  OBVIOUS
<1>1. path \in Client \cup {NoSocket, Stale}
  BY DEF Init, Past
<1>2. backlog \in [Client -> Seq(Entry)]
  BY DEF Init
<1> QED
  BY <1>1, <1>2, MaxFaultsAssumption DEF Init, TypeInv, TypeOK, FirstRoundTrip, PC

\* The steps of a client keep the types.
LEMMA ClientTyped ==
    ASSUME TypeInv, NEW c \in Client, Begin(c) \/ ClientStep(c) \/ Die(c)
    PROVE  TypeInv'
<1> USE DEF TypeInv, TypeOK, FirstRoundTrip, PC
<1>1. CASE Begin(c)
  BY <1>1 DEF Begin
<1>2. CASE Connect(c)
  <2>1. CASE Live /\ UNCHANGED <<path, broker, serving, kind, attempt, inbox,
                                 policy, child, runs, gaveUp, faults>>
             /\ backlog' = [backlog EXCEPT ![path] =
                    Append(@, [from |-> c, what |-> "launch", open |-> TRUE])]
             /\ pc' = [pc EXCEPT ![c] = "wait"]
    <3>1. [from |-> c, what |-> "launch", open |-> TRUE] \in Entry
      BY DEF Entry
    <3>2. backlog' \in [Client -> Seq(Entry)]
      BY <2>1, <3>1 DEF Live
    <3> QED  BY <2>1, <3>2
  <2>2. ASSUME NEW cold \in BOOLEAN,
               pc' = [pc EXCEPT ![c] = AfterFailure(c, cold)],
               UNCHANGED <<path, broker, backlog, serving, kind, attempt, inbox,
                           policy, child, runs, gaveUp, faults>>
        PROVE  TypeInv'
    BY <2>2, AfterFailureTyped
  <2> QED  BY <1>2, <2>1, <2>2 DEF Connect
<1>3. CASE Receive(c)
  BY <1>3, HangupTyped, AfterFailureTyped DEF Receive
<1>4. CASE Timeout(c)
  BY <1>4, HangupTyped, AfterFailureTyped DEF Timeout
<1>5. CASE Ensure(c)
  <2>1. [from |-> c, what |-> "probe", open |-> FALSE] \in Entry
    BY DEF Entry
  <2>2. CASE Fault /\ pc' = [pc EXCEPT ![c] = "direct"]
             /\ UNCHANGED <<backlog, broker>>
    BY <1>5, <2>2, FaultTyped DEF Ensure
  <2>3. CASE Live /\ pc' = [pc EXCEPT ![c] = "direct"]
             /\ UNCHANGED <<broker, faults>>
             /\ backlog' = [backlog EXCEPT ![path] =
                    Append(@, [from |-> c, what |-> "probe", open |-> FALSE])]
    <3>1. backlog' \in [Client -> Seq(Entry)]
      BY <2>1, <2>3 DEF Live
    <3> QED  BY <1>5, <2>3, <3>1 DEF Ensure
  <2>4. CASE pc' = [pc EXCEPT ![c] = "unlink"]
             /\ UNCHANGED <<backlog, broker, faults>>
    BY <1>5, <2>4 DEF Ensure
  <2>5. CASE Spawn(c) /\ UNCHANGED backlog
    BY <1>5, <2>5, SpawnTyped DEF Ensure
  <2> QED  BY <1>5, <2>2, <2>3, <2>4, <2>5 DEF Ensure
<1>6. CASE UnlinkAndSpawn(c)
  BY <1>6, SpawnTyped DEF UnlinkAndSpawn
<1>7. CASE Await(c)
  <2>1. CASE pc' = [pc EXCEPT ![c] = "connect"]
             /\ attempt' = [attempt EXCEPT ![c] = @ + 1]
    <3>1. attempt[c] + 1 = 2
      BY <1>7 DEF Await
    <3> QED  BY <1>7, <2>1, <3>1 DEF Await
  <2>2. CASE pc' = [pc EXCEPT ![c] = "stop"] /\ UNCHANGED attempt
    BY <1>7, <2>2 DEF Await
  <2> QED  BY <1>7, <2>1, <2>2 DEF Await
<1>8. CASE Stop(c)
  <2>1. /\ broker' \in [Client -> {"none", "starting", "bound", "listening",
                               "closing", "remove", "removeAgain", "dead"}]
        /\ backlog' \in [Client -> Seq(Entry)]
        /\ serving' \in [Client -> Request \cup {None}]
        /\ inbox' \in [Client -> {None, "ok", "refused", "reset"}]
    BY <1>8, KilledTyped DEF Stop
  <2> QED  BY <1>8, <2>1 DEF Stop
<1>9. CASE RunDirect(c)
  <2>1. CASE /\ child' = [child EXCEPT ![c] = @ \cup {Direct}]
             /\ runs' = [runs EXCEPT ![c] = @ + 1]
             /\ pc' = [pc EXCEPT ![c] = "running"]
             /\ UNCHANGED faults
    BY <1>9, <2>1 DEF RunDirect
  <2>2. CASE Fault /\ pc' = [pc EXCEPT ![c] = "abort"]
             /\ UNCHANGED <<child, runs>>
    BY <1>9, <2>2, FaultTyped DEF RunDirect
  <2> QED  BY <1>9, <2>1, <2>2 DEF RunDirect
<1>10. CASE DirectEnded(c)
  BY <1>10 DEF DirectEnded
<1>11. CASE Cleanup(c)
  BY <1>11 DEF Cleanup, Returned
<1>12. CASE Die(c)
  BY <1>12, HangupTyped, MaxFaultsAssumption DEF Die, Fault
<1> QED
  BY <1>1, <1>2, <1>3, <1>4, <1>5, <1>6, <1>7, <1>8, <1>9, <1>10, <1>11, <1>12
     DEF ClientStep

\* The steps of a broker, its faults and the end of a command keep the types.
LEMMA BrokerTyped ==
    ASSUME TypeInv, NEW b \in Client,
           \/ BrokerStep(b) \/ Signal(b) \/ Kill(b)
           \/ \E x \in Client \cup {Direct} : ChildEnds(b, x)
    PROVE  TypeInv'
<1> USE DEF TypeInv, TypeOK, FirstRoundTrip, PC, clientVars
<1>1. CASE Bind(b)
  BY <1>1 DEF Bind
<1>2. CASE Chmod(b)
  BY <1>2 DEF Chmod
<1>3. CASE Accept(b)
  <2>1. backlog[b] \in Seq(Entry) /\ backlog[b] # <<>>
    BY <1>3 DEF Accept
  <2>2. Head(backlog[b]) \in Entry /\ Tail(backlog[b]) \in Seq(Entry)
    BY <2>1
  <2>3. backlog' \in [Client -> Seq(Entry)]
    BY <1>3, <2>2 DEF Accept
  <2>4. serving' \in [Client -> Request \cup {None}]
    BY <1>3, <2>2 DEF Accept, Entry, Request
  <2> QED  BY <1>3, <2>3, <2>4 DEF Accept, Abandon
<1>4. CASE StartHelper(b)
  <2>1. serving[b] # None /\ serving[b].from \in Client
    BY <1>4 DEF StartHelper, Request
  <2>2. serving' \in [Client -> Request \cup {None}]
    BY <1>4, <2>1, StageTyped DEF StartHelper
  <2>3. faults' \in 0 .. MaxFaults
    BY <1>4, FaultTyped DEF StartHelper
  <2>4. \/ UNCHANGED <<child, runs>>
        \/ /\ child' = [child EXCEPT ![serving[b].from] = @ \cup {b}]
           /\ runs' = [runs EXCEPT ![serving[b].from] = @ + 1]
    BY <1>4 DEF StartHelper
  <2>5. child' \in [Client -> SUBSET (Client \cup {Direct})]
    <3>1. child \in [Client -> SUBSET (Client \cup {Direct})]
      OBVIOUS
    <3>2. child[serving[b].from] \cup {b} \in SUBSET (Client \cup {Direct})
      BY <2>1, <3>1
    <3> HIDE DEF TypeInv
    <3> QED  BY <2>1, <2>4, <3>1, <3>2
  <2>6. runs' \in [Client -> Nat]
    BY <2>1, <2>4
  <2> QED  BY <1>4, <2>2, <2>3, <2>5, <2>6 DEF StartHelper
<1>5. CASE HelperEnded(b)
  BY <1>5, StageTyped DEF HelperEnded
<1>6. CASE Reply(b)
  <2>1. serving[b] \in Request
    BY <1>6 DEF Reply
  <2>2. inbox' \in [Client -> {None, "ok", "refused", "reset"}]
    BY <1>6, <2>1 DEF Reply, Request
  <2>3. faults' \in 0 .. MaxFaults
    BY <1>6, FaultTyped DEF Reply
  <2>4. broker' \in [Client -> {"none", "starting", "bound", "listening",
                               "closing", "remove", "removeAgain", "dead"}]
    BY <1>6, ZenonT(40) DEF Reply, Abandon
  <2> QED  BY <1>6, <2>2, <2>3, <2>4 DEF Reply
<1>7. CASE CloseListener(b)
  BY <1>7 DEF CloseListener, Reset
<1>8. CASE RemovePath(b)
  BY <1>8 DEF RemovePath
<1>9. CASE Signal(b)
  BY <1>9, FaultTyped DEF Signal
<1>10. CASE Kill(b)
  BY <1>10, KilledTyped, FaultTyped DEF Kill
<1>11. ASSUME NEW x \in Client \cup {Direct}, ChildEnds(b, x)
       PROVE  TypeInv'
  BY <1>11 DEF ChildEnds
<1> QED
  BY <1>1, <1>2, <1>3, <1>4, <1>5, <1>6, <1>7, <1>8, <1>9, <1>10, <1>11
     DEF BrokerStep

\* Every step keeps the types.
LEMMA TypeStep == TypeInv /\ [Next]_vars => TypeInv'
<1> SUFFICES ASSUME TypeInv, [Next]_vars PROVE TypeInv'
  OBVIOUS
<1>1. CASE Next
  BY <1>1, ClientTyped, BrokerTyped DEF Next
<1>2. CASE UNCHANGED vars
  BY <1>2 DEF vars, TypeInv, TypeOK, FirstRoundTrip
<1> QED  BY <1>1, <1>2

\* The types, and the count of round trips, hold in every reachable state.
LEMMA TypeAlways == Spec => []TypeInv
<1> QED  BY TypeInitial, TypeStep, PTL DEF Spec

\* Every variable keeps its type, and no launch makes a third round trip.
THEOREM TypeCorrect == Spec => []TypeOK
<1>1. TypeInv => TypeOK
  BY DEF TypeInv
<1> QED  BY <1>1, TypeAlways, PTL

----------------------------------------------------------------------------
(* The requests of one client, and how often its command has been started. *)

\* Client c has a launch request at place i of the queue of broker b, or in
\* the hands of b.
Queued(b, i, c) == /\ i \in DOMAIN backlog[b]
                   /\ backlog[b][i].from = c /\ backlog[b][i].what = "launch"
Serves(b, c) == serving[b] # None /\ serving[b].from = c

Waits(c) == pc[c] = "wait" /\ inbox[c] = None
Left(c) == gaveUp[c] \/ pc[c] = "crashed"
Unstarted(c) == runs[c] = 0 /\ child[c] = {}
Ran(c) == runs[c] = 1 /\ child[c] = {}

\* The policy file exists from the preparation of a launch to its cleanup.
PolicyHeld(c) == policy[c] <=> pc[c] \notin {"idle", "done", "failed"}

\* A response is delivered to a client that waits for it.
Delivered(c) == inbox[c] # None => pc[c] = "wait"

\* A connection is open while its client waits for the answer; with a request
\* still under way it is closed only by giving up or dying.
OpenIffAwaited(c) ==
    \A b \in Client :
        /\ \A i \in DOMAIN backlog[b] : Queued(b, i, c) =>
               IF backlog[b][i].open THEN Waits(c) ELSE Left(c)
        /\ Serves(b, c) => IF serving[b].open THEN Waits(c) ELSE Left(c)

\* There is at most one open request of the client in all brokers, and
\* unless it gave up at most one of any kind.
Matters(open, c) == open \/ ~gaveUp[c]

OneRequest(c) ==
    \A a, b \in Client :
        /\ \A i \in DOMAIN backlog[a], j \in DOMAIN backlog[b] :
               Queued(a, i, c) /\ Matters(backlog[a][i].open, c)
               /\ Queued(b, j, c) /\ Matters(backlog[b][j].open, c)
                   => a = b /\ i = j
        /\ \A i \in DOMAIN backlog[a] :
               Queued(a, i, c) /\ Matters(backlog[a][i].open, c) =>
                   ~(Serves(b, c) /\ Matters(serving[b].open, c))
        /\ Serves(a, c) /\ Matters(serving[a].open, c)
           /\ Serves(b, c) /\ Matters(serving[b].open, c) => a = b

\* What has been started follows from where the request is ...
StartedByRequest(c) ==
    \A b \in Client :
        /\ \A i \in DOMAIN backlog[b] : Queued(b, i, c) => Unstarted(c)
        /\ Serves(b, c) =>
            /\ serving[b].stage \in {"handle", "refused"} => Unstarted(c)
            /\ serving[b].stage = "run" => runs[c] = 1 /\ child[c] \subseteq {b}
            /\ serving[b].stage = "ok" => Ran(c)

\* ... and from where the client is.
StartedByClient(c) ==
    /\ inbox[c] = "ok" => Ran(c)
    /\ inbox[c] = "refused" => Unstarted(c)
    /\ pc[c] \in {"idle", "connect", "ensure", "unlink", "await", "stop",
                  "direct", "abort", "failed"} => Unstarted(c)
    /\ pc[c] = "running" => runs[c] = 1 /\ child[c] \subseteq {Direct}
    /\ pc[c] \in {"cleanup", "done"} => Ran(c)
    /\ runs[c] <= 1

Row(c) ==
    /\ PolicyHeld(c) /\ Delivered(c) /\ OpenIffAwaited(c) /\ OneRequest(c)
    /\ ~gaveUp[c] => StartedByRequest(c) /\ StartedByClient(c)

LaunchInv == TypeInv /\ \A c \in Client : Row(c)

SameClient(c) ==
    /\ pc'[c] = pc[c] /\ inbox'[c] = inbox[c] /\ policy'[c] = policy[c]
    /\ gaveUp'[c] = gaveUp[c] /\ runs'[c] = runs[c] /\ child'[c] = child[c]

\* The requests of c after the step are requests it had before.
SameQueued(c) ==
    \A b \in Client : \A i \in DOMAIN backlog'[b] :
        Queued(b, i, c)' => Queued(b, i, c)
                            /\ (backlog'[b][i].open <=> backlog[b][i].open)
SameServed(c) ==
    \A b \in Client : Serves(b, c)' =>
        Serves(b, c) /\ serving'[b].stage = serving[b].stage
                     /\ (serving'[b].open <=> serving[b].open)

\* A step that leaves a client and its requests alone keeps its row.
LEMMA Frame ==
    ASSUME NEW c \in Client, Row(c), SameClient(c), SameQueued(c), SameServed(c)
    PROVE  Row(c)'
<1> USE DEF Row, SameClient
<1>1. PolicyHeld(c)' /\ Delivered(c)'
  BY DEF PolicyHeld, Delivered
<1>2. OpenIffAwaited(c)'
  BY DEF OpenIffAwaited, SameQueued, SameServed, Waits, Left, Queued
<1>3. OneRequest(c)'
  BY DEF OneRequest, SameQueued, SameServed, Queued, Matters
<1>4. ~gaveUp'[c] => StartedByRequest(c)'
  BY DEF StartedByRequest, SameQueued, SameServed, Unstarted, Ran, Queued
<1>5. ~gaveUp'[c] => StartedByClient(c)'
  BY DEF StartedByClient, Unstarted, Ran
<1> QED  BY <1>1, <1>2, <1>3, <1>4, <1>5

\* Before any launch every row holds.
LEMMA LaunchInitial == Init => LaunchInv
<1> SUFFICES ASSUME Init, NEW c \in Client PROVE Row(c)
  BY TypeInitial DEF LaunchInv
<1>1. \A b \in Client : DOMAIN backlog[b] = {} /\ serving[b] = None
  BY DEF Init
<1>2. PolicyHeld(c) /\ Delivered(c)
  BY DEF Init, PolicyHeld, Delivered
<1>3. OpenIffAwaited(c) /\ OneRequest(c) /\ StartedByRequest(c)
  BY <1>1 DEF OpenIffAwaited, OneRequest, StartedByRequest, Queued, Serves
<1>4. StartedByClient(c)
  BY NamesAssumption DEF Init, StartedByClient, Unstarted, Ran
<1> QED  BY <1>2, <1>3, <1>4 DEF Row

\* A step of the client itself, which sends and receives nothing, keeps its
\* row if it keeps the policy and the count.
LEMMA MoveRow ==
    ASSUME NEW c \in Client, Row(c), SameQueued(c), SameServed(c),
           pc[c] \notin {"wait", "crashed"},
           inbox'[c] = inbox[c], gaveUp'[c] = gaveUp[c],
           PolicyHeld(c)', ~gaveUp[c] => StartedByClient(c)'
    PROVE  Row(c)'
<1> USE DEF Row
<1>1. /\ \A b \in Client : \A i \in DOMAIN backlog[b] :
             Queued(b, i, c) => ~backlog[b][i].open /\ gaveUp[c]
      /\ \A b \in Client : Serves(b, c) => ~serving[b].open /\ gaveUp[c]
  BY DEF OpenIffAwaited, Waits, Left
<1>2. /\ \A b \in Client : \A i \in DOMAIN backlog'[b] :
             Queued(b, i, c)' => ~backlog'[b][i].open /\ gaveUp[c]
      /\ \A b \in Client : Serves(b, c)' => ~serving'[b].open /\ gaveUp[c]
  BY <1>1 DEF SameQueued, SameServed, Queued
<1>3. Delivered(c)'
  BY DEF Delivered
<1>4. OpenIffAwaited(c)'
  BY <1>2 DEF OpenIffAwaited, Left
<1>5. OneRequest(c)'
  BY <1>2 DEF OneRequest, Matters
<1>6. ~gaveUp'[c] => StartedByRequest(c)'
  BY <1>2 DEF StartedByRequest
<1> QED  BY <1>3, <1>4, <1>5, <1>6

\* Closing the connection of d closes its requests and no others.
LEMMA ShutRequests ==
    ASSUME TypeInv, NEW d \in Client, Hangup(d)
    PROVE  /\ \A c \in Client \ {d} : SameQueued(c) /\ SameServed(c)
           /\ \A b \in Client : \A i \in DOMAIN backlog'[b] :
                  Queued(b, i, d)' => Queued(b, i, d) /\ ~backlog'[b][i].open
           /\ \A b \in Client : Serves(b, d)' =>
                  Serves(b, d) /\ serving'[b].stage = serving[b].stage
                               /\ ~serving'[b].open
<1>1. ASSUME NEW b \in Client
      PROVE  /\ DOMAIN backlog'[b] = DOMAIN backlog[b]
             /\ \A i \in DOMAIN backlog[b] :
                    backlog'[b][i] = Shut(backlog[b][i], d)
             /\ serving'[b] = IF serving[b] = None THEN None ELSE Shut(serving[b], d)
  BY DEF Hangup
<1>2. ASSUME NEW b \in Client, NEW i \in DOMAIN backlog[b]
      PROVE  backlog[b][i] \in Entry
  BY DEF TypeInv, TypeOK
<1>3. \A e \in Entry : /\ Shut(e, d).from = e.from /\ Shut(e, d).what = e.what
                       /\ e.from = d => ~Shut(e, d).open
                       /\ e.from # d => Shut(e, d) = e
  BY DEF Shut, Entry
<1>4. \A r \in Request : /\ Shut(r, d).from = r.from /\ Shut(r, d).stage = r.stage
                         /\ r.from = d => ~Shut(r, d).open
                         /\ r.from # d => Shut(r, d) = r
  BY DEF Shut, Request
<1>5. ASSUME NEW c \in Client \ {d} PROVE SameQueued(c)
  BY <1>1, <1>2, <1>3 DEF SameQueued, Queued
<1>6. ASSUME NEW b \in Client, NEW c \in Client, Serves(b, c)'
      PROVE  /\ Serves(b, c) /\ serving'[b].stage = serving[b].stage
             /\ c # d => serving'[b] = serving[b]
             /\ c = d => ~serving'[b].open
  <2>1. serving[b] # None
    BY <1>1, <1>6 DEF Serves
  <2>2. serving[b] \in Request
    BY <2>1 DEF TypeInv, TypeOK
  <2> QED  BY <1>1, <1>4, <1>6, <2>1, <2>2 DEF Serves
<1>7. ASSUME NEW c \in Client \ {d} PROVE SameServed(c)
  BY <1>6 DEF SameServed
<1>8. ASSUME NEW b \in Client, NEW i \in DOMAIN backlog'[b], Queued(b, i, d)'
      PROVE  Queued(b, i, d) /\ ~backlog'[b][i].open
  BY <1>1, <1>2, <1>3, <1>8 DEF Queued
<1> QED  BY <1>5, <1>6, <1>7, <1>8

\* A client that hangs up with no answer to come, because it has one, because
\* it gives up or because it dies, keeps its row.
LEMMA HangupRow ==
    ASSUME TypeInv, NEW d \in Client, Row(d), Hangup(d), pc[d] # "crashed",
           inbox'[d] = None, PolicyHeld(d)', gaveUp[d] => gaveUp'[d],
           UNCHANGED <<runs, child>>,
           \/ gaveUp'[d]
           \/ inbox[d] # None /\ StartedByClient(d)'
           \/ pc'[d] = "crashed"
    PROVE  Row(d)'
<1> USE DEF Row
<1>1. /\ \A b \in Client : \A i \in DOMAIN backlog'[b] :
             Queued(b, i, d)' => Queued(b, i, d) /\ ~backlog'[b][i].open
      /\ \A b \in Client : Serves(b, d)' =>
             Serves(b, d) /\ serving'[b].stage = serving[b].stage
                          /\ ~serving'[b].open
  BY ShutRequests
<1>2. Delivered(d)'
  BY DEF Delivered
<1>3. ASSUME ~gaveUp'[d], pc'[d] # "crashed"
      PROVE  /\ \A b \in Client : \A i \in DOMAIN backlog'[b] : ~Queued(b, i, d)'
             /\ \A b \in Client : ~Serves(b, d)'
  BY <1>1, <1>3 DEF OpenIffAwaited, Waits, Left, Queued
<1>4. OpenIffAwaited(d)'
  BY <1>1, <1>3 DEF OpenIffAwaited, Left
<1>5. OneRequest(d)'
  <2>1. CASE gaveUp'[d]
    BY <1>1, <2>1 DEF OneRequest, Matters
  <2>2. CASE ~gaveUp'[d]
    BY <1>1, <2>2 DEF OneRequest, Matters, Queued
  <2> QED  BY <2>1, <2>2
<1>6. ~gaveUp'[d] => StartedByRequest(d)'
  BY <1>1 DEF StartedByRequest, Unstarted, Ran, Queued
<1>7. ~gaveUp'[d] => StartedByClient(d)'
  BY NamesAssumption DEF StartedByClient, Unstarted, Ran
<1> QED  BY <1>2, <1>4, <1>5, <1>6, <1>7

\* Sending the request.
LEMMA AskRow ==
    ASSUME TypeInv, NEW c \in Client, NEW p \in Client, Row(c), pc[c] = "connect",
           backlog' = [backlog EXCEPT ![p] =
               Append(@, [from |-> c, what |-> "launch", open |-> TRUE])],
           pc'[c] = "wait",
           UNCHANGED <<serving, inbox, policy, gaveUp, runs, child>>
    PROVE  Row(c)'
<1> USE DEF Row
<1>1. /\ \A b \in Client : \A i \in DOMAIN backlog[b] :
             Queued(b, i, c) => ~backlog[b][i].open /\ gaveUp[c]
      /\ \A b \in Client : Serves(b, c) => ~serving[b].open /\ gaveUp[c]
  BY DEF OpenIffAwaited, Waits, Left
<1>2. inbox[c] = None
  BY DEF Delivered
<1>3. ASSUME NEW b \in Client, NEW i \in DOMAIN backlog'[b], Queued(b, i, c)'
      PROVE  \/ b = p /\ i = Len(backlog[p]) + 1 /\ backlog'[b][i].open = TRUE
             \/ i \in DOMAIN backlog[b] /\ ~backlog'[b][i].open /\ gaveUp[c]
  <2>1. backlog[b] \in Seq(Entry)
    BY DEF TypeInv, TypeOK
  <2>2. CASE b # p
    BY <1>1, <1>3, <2>2 DEF Queued, TypeInv, TypeOK
  <2>3. CASE b = p
    <3>1. backlog'[p] = Append(backlog[p],
                            [from |-> c, what |-> "launch", open |-> TRUE])
      BY DEF TypeInv, TypeOK
    <3>2. CASE i = Len(backlog[p]) + 1
      BY <2>1, <2>3, <3>1, <3>2
    <3>3. CASE i # Len(backlog[p]) + 1
      <4>1. i \in DOMAIN backlog[p] /\ backlog'[p][i] = backlog[p][i]
        BY <2>1, <2>3, <3>1, <3>3
      <4> QED  BY <1>1, <1>3, <2>3, <4>1 DEF Queued
    <3> QED  BY <3>2, <3>3
  <2> QED  BY <2>2, <2>3
<1>4. PolicyHeld(c)' /\ Delivered(c)'
  BY DEF PolicyHeld, Delivered
<1>5. OpenIffAwaited(c)'
  BY <1>1, <1>2, <1>3 DEF OpenIffAwaited, Waits, Left, Serves
<1>6. OneRequest(c)'
  BY <1>1, <1>3, ZenonT(40) DEF OneRequest, Matters, Serves
<1>7. ~gaveUp'[c] => StartedByRequest(c)'
  BY <1>1 DEF StartedByRequest, StartedByClient, Unstarted, Serves
<1>8. ~gaveUp'[c] => StartedByClient(c)'
  BY <1>2, NamesAssumption DEF StartedByClient, Unstarted
<1> QED  BY <1>4, <1>5, <1>6, <1>7, <1>8

\* A connection that is queued at a broker leaves the other clients alone.
LEMMA AppendRequests ==
    ASSUME TypeInv, NEW p \in Client, NEW e \in Entry, NEW c \in Client,
           e.from # c \/ e.what # "launch",
           backlog' = [backlog EXCEPT ![p] = Append(@, e)]
    PROVE  SameQueued(c)
<1>1. ASSUME NEW b \in Client, NEW i \in DOMAIN backlog'[b], Queued(b, i, c)'
      PROVE  Queued(b, i, c) /\ (backlog'[b][i].open <=> backlog[b][i].open)
  <2>1. backlog[b] \in Seq(Entry)
    BY DEF TypeInv, TypeOK
  <2>2. CASE b # p
    BY <1>1, <2>2 DEF Queued, TypeInv, TypeOK
  <2>3. CASE b = p
    <3>1. backlog'[p] = Append(backlog[p], e)
      BY DEF TypeInv, TypeOK
    <3>2. i # Len(backlog[p]) + 1
      BY <1>1, <2>1, <2>3, <3>1 DEF Queued
    <3>3. i \in DOMAIN backlog[p] /\ backlog'[p][i] = backlog[p][i]
      BY <2>1, <2>3, <3>1, <3>2
    <3> QED  BY <1>1, <2>3, <3>3 DEF Queued
  <2> QED  BY <2>2, <2>3
<1> QED  BY <1>1 DEF SameQueued

\* A broker that drops its queue, and perhaps the request in its hands,
\* resets the connections that were open.
LEMMA DropRow ==
    ASSUME TypeInv, NEW b \in Client, NEW c \in Client, Row(c),
           NEW dropped \in BOOLEAN,
           backlog' = [backlog EXCEPT ![b] = <<>>],
           serving' = IF dropped THEN [serving EXCEPT ![b] = None] ELSE serving,
           inbox'[c] = IF \/ c \in Pending(b)
                          \/ dropped /\ Serves(b, c) /\ serving[b].open
                       THEN "reset" ELSE inbox[c],
           pc'[c] = pc[c], policy'[c] = policy[c], gaveUp'[c] = gaveUp[c],
           runs'[c] = runs[c], child'[c] = child[c]
    PROVE  Row(c)'
<1>1. ASSUME NEW a \in Client, NEW i \in DOMAIN backlog'[a], Queued(a, i, c)'
      PROVE  a # b /\ Queued(a, i, c) /\ backlog'[a][i] = backlog[a][i]
  BY <1>1 DEF Queued, TypeInv, TypeOK
<1>2. ASSUME NEW a \in Client, Serves(a, c)'
      PROVE  Serves(a, c) /\ serving'[a] = serving[a] /\ (dropped => a # b)
  BY <1>2 DEF Serves, TypeInv, TypeOK
<1>3. SameQueued(c) /\ SameServed(c)
  BY <1>1, <1>2 DEF SameQueued, SameServed
<1>4. CASE inbox'[c] = inbox[c]
  BY <1>3, <1>4, Frame DEF SameClient
<1>5. CASE \/ c \in Pending(b)
           \/ dropped /\ Serves(b, c) /\ serving[b].open
  <2> USE DEF Row
  <2>1. Waits(c)
    BY <1>5 DEF OpenIffAwaited, Pending, Queued
  <2>2. ASSUME NEW a \in Client, NEW i \in DOMAIN backlog'[a], Queued(a, i, c)'
        PROVE  ~backlog'[a][i].open /\ gaveUp[c]
    <3>1. ~Matters(backlog[a][i].open, c)
      BY <1>1, <1>5, <2>2 DEF OneRequest, Pending, Queued, Matters
    <3> QED  BY <1>1, <2>2, <3>1 DEF Matters
  <2>3. ASSUME NEW a \in Client, Serves(a, c)'
        PROVE  ~serving'[a].open /\ gaveUp[c]
    <3>1. ~Matters(serving[a].open, c)
      BY <1>2, <1>5, <2>3 DEF OneRequest, Pending, Queued, Matters
    <3> QED  BY <1>2, <2>3, <3>1 DEF Matters
  <2>4. PolicyHeld(c)' /\ Delivered(c)'
    BY <2>1 DEF PolicyHeld, Delivered, Waits
  <2>5. OpenIffAwaited(c)'
    BY <2>2, <2>3 DEF OpenIffAwaited, Left
  <2>6. OneRequest(c)'
    BY <2>2, <2>3 DEF OneRequest, Matters
  <2>7. ~gaveUp'[c] => StartedByRequest(c)'
    BY <2>2, <2>3 DEF StartedByRequest
  <2>8. ~gaveUp'[c] => StartedByClient(c)'
    BY <1>5, <2>1 DEF StartedByClient, Waits, Unstarted, Ran
  <2> QED  BY <2>4, <2>5, <2>6, <2>7, <2>8
<1> QED  BY <1>4, <1>5

\* A command that runs in fewer places keeps the row.
LEMMA ShrinkRow ==
    ASSUME NEW c \in Client, Row(c), child'[c] \subseteq child[c],
           UNCHANGED <<backlog, serving, pc, inbox, policy, gaveUp, runs>>
    PROVE  Row(c)'
<1> USE DEF Row
<1>1. PolicyHeld(c)' /\ Delivered(c)' /\ OpenIffAwaited(c)' /\ OneRequest(c)'
  BY DEF PolicyHeld, Delivered, OpenIffAwaited, OneRequest, Queued, Serves,
         Waits, Left, Matters
<1>2. ~gaveUp'[c] => StartedByRequest(c)'
  BY DEF StartedByRequest, Queued, Serves, Unstarted, Ran
<1>3. ~gaveUp'[c] => StartedByClient(c)'
  BY DEF StartedByClient, Unstarted, Ran
<1> QED  BY <1>1, <1>2, <1>3

\* Accepting moves the first request of the queue into the broker's hands,
\* or loses it.
LEMMA AcceptRow ==
    ASSUME TypeInv, NEW b \in Client, Accept(b), NEW c \in Client, Row(c)
    PROVE  Row(c)'
<1> DEFINE At(a, i) == IF a = b THEN i + 1 ELSE i
<1>1. /\ UNCHANGED <<pc, inbox, policy, gaveUp, runs, child>>
      /\ backlog[b] \in Seq(Entry) /\ backlog[b] # <<>>
      /\ backlog' = [backlog EXCEPT ![b] = Tail(@)]
      /\ serving[b] = None
  BY DEF Accept, clientVars, TypeInv, TypeOK
<1>2. ASSUME NEW a \in Client, NEW i \in DOMAIN backlog'[a], Queued(a, i, c)'
      PROVE  /\ i \in Nat /\ At(a, i) \in DOMAIN backlog[a]
             /\ Queued(a, At(a, i), c)
             /\ backlog'[a][i] = backlog[a][At(a, i)]
             /\ a = b => At(a, i) # 1
  <2>1. backlog[a] \in Seq(Entry)
    BY DEF TypeInv, TypeOK
  <2>2. CASE a # b
    BY <1>1, <1>2, <2>1, <2>2 DEF Queued, TypeInv, TypeOK
  <2>3. CASE a = b
    <3>1. backlog'[b] = Tail(backlog[b])
      BY <1>1 DEF TypeInv, TypeOK
    <3>2. i \in 1 .. Len(backlog[b]) - 1 /\ backlog'[b][i] = backlog[b][i + 1]
      <4>1. /\ Tail(backlog[b]) \in Seq(Entry)
            /\ Len(Tail(backlog[b])) = Len(backlog[b]) - 1
        BY <1>1
      <4>2. DOMAIN Tail(backlog[b]) = 1 .. Len(backlog[b]) - 1
        BY <4>1
      <4>3. i \in 1 .. Len(backlog[b]) - 1
        BY <2>3, <3>1, <4>2
      <4>4. Tail(backlog[b])[i] = backlog[b][i + 1]
        BY <1>1, <4>3
      <4> QED  BY <3>1, <4>3, <4>4
    <3>3. i + 1 \in DOMAIN backlog[b] /\ i \in Nat /\ i + 1 # 1
      BY <1>1, <3>2
    <3> QED  BY <1>2, <2>3, <3>2, <3>3 DEF Queued
  <2> QED  BY <2>2, <2>3
<1>3. ASSUME NEW a \in Client, Serves(a, c)'
      PROVE  \/ /\ a = b /\ Queued(b, 1, c) /\ 1 \in DOMAIN backlog[b]
                /\ serving'[b].open = backlog[b][1].open
                /\ serving'[b].stage = "handle"
             \/ a # b /\ Serves(a, c) /\ serving'[a] = serving[a]
  <2>1. Head(backlog[b]) = backlog[b][1] /\ 1 \in DOMAIN backlog[b]
    BY <1>1
  <2>2. \/ UNCHANGED serving
        \/ /\ backlog[b][1].what = "launch"
           /\ serving' = [serving EXCEPT ![b] =
                  [from |-> backlog[b][1].from, open |-> backlog[b][1].open,
                   stage |-> "handle"]]
    BY <2>1 DEF Accept
  <2> QED  BY <1>1, <1>3, <2>1, <2>2 DEF Serves, Queued, TypeInv, TypeOK
<1> HIDE DEF At
<1> USE DEF Row
<1>4. PolicyHeld(c)' /\ Delivered(c)'
  BY <1>1 DEF PolicyHeld, Delivered
<1>5. OpenIffAwaited(c)'
  BY <1>1, <1>2, <1>3 DEF OpenIffAwaited, Waits, Left
<1>6. OneRequest(c)'
  <2>1. ASSUME NEW a \in Client, NEW d \in Client,
               NEW i \in DOMAIN backlog'[a], NEW j \in DOMAIN backlog'[d],
               Queued(a, i, c)', Matters(backlog[a][i].open, c)',
               Queued(d, j, c)', Matters(backlog[d][j].open, c)'
        PROVE  a = d /\ i = j
    <3>1. a = d /\ At(a, i) = At(d, j)
      BY <1>1, <1>2, <2>1 DEF OneRequest, Matters
    <3> QED  BY <1>2, <2>1, <3>1 DEF At
  <2>2. ASSUME NEW a \in Client, NEW d \in Client, NEW i \in DOMAIN backlog'[a],
               Queued(a, i, c)', Matters(backlog[a][i].open, c)',
               Serves(d, c)', Matters(serving[d].open, c)'
        PROVE  FALSE
    <3>1. Queued(a, At(a, i), c) /\ Matters(backlog[a][At(a, i)].open, c)
      BY <1>1, <1>2, <2>2 DEF Matters
    <3>2. CASE d = b /\ Queued(b, 1, c) /\ 1 \in DOMAIN backlog[b]
               /\ serving'[b].open = backlog[b][1].open
      BY <1>1, <1>2, <2>2, <3>1, <3>2 DEF OneRequest, Matters
    <3>3. CASE Serves(d, c) /\ serving'[d] = serving[d]
      BY <1>1, <1>2, <2>2, <3>1, <3>3 DEF OneRequest, Matters
    <3> QED  BY <1>3, <2>2, <3>2, <3>3
  <2>3. ASSUME NEW a \in Client, NEW d \in Client,
               Serves(a, c)', Matters(serving[a].open, c)',
               Serves(d, c)', Matters(serving[d].open, c)'
        PROVE  a = d
    BY <1>1, <1>3, <2>3 DEF OneRequest, Matters
  <2> QED  BY <2>1, <2>2, <2>3 DEF OneRequest
<1>7. ~gaveUp'[c] => StartedByRequest(c)'
  BY <1>1, <1>2, <1>3 DEF StartedByRequest, Unstarted, Ran
<1>8. ~gaveUp'[c] => StartedByClient(c)'
  BY <1>1 DEF StartedByClient, Unstarted, Ran
<1> QED  BY <1>4, <1>5, <1>6, <1>7, <1>8

\* The request in the hands of a broker moves on.
LEMMA StageRow ==
    ASSUME TypeInv, NEW b \in Client, serving[b] # None, NEW c \in Client, Row(c),
           NEW stage \in {"run", "ok", "refused"}, Stage(b, stage),
           UNCHANGED <<backlog, pc, inbox, policy, gaveUp>>,
           ~Serves(b, c) => runs'[c] = runs[c] /\ child'[c] = child[c],
           Serves(b, c) /\ ~gaveUp[c] =>
               /\ pc[c] \in {"wait", "crashed"} /\ inbox[c] = None
               /\ stage = "refused" => Unstarted(c)'
               /\ stage = "run" => runs'[c] = 1 /\ child'[c] \subseteq {b}
               /\ stage = "ok" => Ran(c)'
    PROVE  Row(c)'
<1>1. ASSUME NEW a \in Client, Serves(a, c)'
      PROVE  /\ Serves(a, c) /\ serving'[a].open = serving[a].open
             /\ a # b => serving'[a] = serving[a]
             /\ a = b => serving'[a].stage = stage
  BY <1>1 DEF Serves, Stage, TypeInv, TypeOK
<1>2. CASE ~Serves(b, c)
  <2>1. SameQueued(c) /\ SameServed(c) /\ SameClient(c)
    BY <1>1, <1>2 DEF SameQueued, SameServed, SameClient, Queued
  <2> QED  BY <2>1, Frame
<1>3. CASE Serves(b, c)
  <2> USE DEF Row
  <2>1. PolicyHeld(c)' /\ Delivered(c)'
    BY DEF PolicyHeld, Delivered
  <2>2. OpenIffAwaited(c)'
    BY <1>1 DEF OpenIffAwaited, Waits, Left, Queued
  <2>3. OneRequest(c)'
    BY <1>1 DEF OneRequest, Matters, Queued
  <2>4. ASSUME ~gaveUp[c] PROVE StartedByRequest(c)'
    <3>1. \A a \in Client : Serves(a, c)' => a = b
      BY <1>1, <1>3, <2>4 DEF OneRequest, Matters
    <3>2. \A a \in Client : \A i \in DOMAIN backlog'[a] : ~Queued(a, i, c)'
      BY <1>3, <2>4 DEF OneRequest, Matters, Queued
    <3> QED  BY <1>1, <1>3, <2>4, <3>1, <3>2 DEF StartedByRequest
  <2>5. ASSUME ~gaveUp[c] PROVE StartedByClient(c)'
    BY <1>3, <2>5, NamesAssumption DEF StartedByClient, Unstarted, Ran
  <2> QED  BY <2>1, <2>2, <2>3, <2>4, <2>5
<1> QED  BY <1>2, <1>3

\* The response leaves the broker, for a client that waits or for nobody.
LEMMA ReplyRow ==
    ASSUME TypeInv, NEW b \in Client, Reply(b), NEW c \in Client, Row(c)
    PROVE  Row(c)'
<1>1. /\ UNCHANGED <<backlog, pc, policy, gaveUp, runs, child>>
      /\ serving[b] # None /\ serving[b].stage \in {"ok", "refused"}
      /\ serving' = [serving EXCEPT ![b] = None]
  BY DEF Reply, clientVars
<1>2. ASSUME NEW a \in Client, Serves(a, c)'
      PROVE  a # b /\ Serves(a, c) /\ serving'[a] = serving[a]
  BY <1>1, <1>2 DEF Serves, TypeInv, TypeOK
<1>3. SameQueued(c) /\ SameServed(c)
  BY <1>1, <1>2 DEF SameQueued, SameServed, Queued
<1>4. CASE inbox'[c] = inbox[c]
  BY <1>1, <1>3, <1>4, Frame DEF SameClient
<1>5. CASE inbox'[c] # inbox[c]
  <2> USE DEF Row
  <2>1. /\ Serves(b, c) /\ serving[b].open
        /\ inbox'[c] \in {serving[b].stage, "reset"}
    BY <1>1, <1>5 DEF Reply, Serves, TypeInv, TypeOK
  <2>2. Waits(c)
    BY <2>1 DEF OpenIffAwaited
  <2>3. \A a \in Client : \A i \in DOMAIN backlog'[a] :
            Queued(a, i, c)' => ~backlog'[a][i].open /\ gaveUp[c]
    BY <1>1, <2>1 DEF OneRequest, Matters, Queued
  <2>4. \A a \in Client : Serves(a, c)' => ~serving'[a].open /\ gaveUp[c]
    BY <1>2, <2>1 DEF OneRequest, Matters
  <2>5. PolicyHeld(c)' /\ Delivered(c)'
    BY <1>1, <2>2 DEF PolicyHeld, Delivered, Waits
  <2>6. OpenIffAwaited(c)'
    BY <1>1, <2>3, <2>4 DEF OpenIffAwaited, Left
  <2>7. OneRequest(c)'
    BY <1>1, <2>3, <2>4 DEF OneRequest, Matters
  <2>8. ~gaveUp'[c] => StartedByRequest(c)'
    BY <1>1, <2>3, <2>4 DEF StartedByRequest
  <2>9. ~gaveUp'[c] => StartedByClient(c)'
    BY <1>1, <2>1, <2>2 DEF StartedByClient, StartedByRequest, Waits, Unstarted, Ran
  <2> QED  BY <2>5, <2>6, <2>7, <2>8, <2>9
<1> QED  BY <1>4, <1>5

\* A broker that touches no request, no client and no command.
LEMMA StillRow ==
    ASSUME NEW c \in Client, Row(c), SameClient(c), UNCHANGED <<backlog, serving>>
    PROVE  Row(c)'
<1>1. SameQueued(c) /\ SameServed(c)
  BY DEF SameQueued, SameServed, Queued, Serves
<1> QED  BY <1>1, Frame

\* A killed broker: what it does to the requests of a client, and to the one
\* that started it and is now stopping it.
LEMMA KilledRow ==
    ASSUME TypeInv, NEW b \in Client, Killed(b), NEW c \in Client, Row(c),
           pc'[c] = pc[c], policy'[c] = policy[c], gaveUp'[c] = gaveUp[c],
           runs'[c] = runs[c], child'[c] = child[c]
    PROVE  Row(c)'
<1>1. /\ backlog' = [backlog EXCEPT ![b] = <<>>]
      /\ serving' = [serving EXCEPT ![b] = None]
      /\ inbox'[c] = IF c \in Pending(b) \/ (Serves(b, c) /\ serving[b].open)
                     THEN "reset" ELSE inbox[c]
  BY DEF Killed, Reset, Serves
<1>2. PICK dropped \in BOOLEAN : dropped = TRUE
  OBVIOUS
<1> QED  BY <1>1, <1>2, DropRow

\* Whoever stops a broker that dies finds it dead, and keeps its row.
LEMMA KilledStopped ==
    ASSUME TypeInv, NEW c \in Client, Row(c), pc[c] = "stop", Killed(c)
    PROVE  inbox'[c] = inbox[c] /\ SameQueued(c) /\ SameServed(c)
<1>1. c \notin Pending(c) /\ ~(Serves(c, c) /\ serving[c].open)
  BY DEF Row, OpenIffAwaited, Waits, Pending, Queued
<1>2. inbox'[c] = inbox[c]
  BY <1>1 DEF Killed, Reset, Serves
<1>3. SameQueued(c) /\ SameServed(c)
  BY DEF Killed, SameQueued, SameServed, Queued, Serves, TypeInv, TypeOK
<1> QED  BY <1>2, <1>3

\* The steps of a client keep the rows of all clients.
LEMMA ClientRows ==
    ASSUME LaunchInv, NEW c \in Client, Begin(c) \/ ClientStep(c) \/ Die(c),
           NEW e \in Client
    PROVE  Row(e)'
<1> TypeInv /\ Row(e) /\ Row(c)
  BY DEF LaunchInv
<1> /\ pc \in [Client -> PC] /\ policy \in [Client -> BOOLEAN]
    /\ inbox \in [Client -> {None, "ok", "refused", "reset"}]
    /\ gaveUp \in [Client -> BOOLEAN] /\ runs \in [Client -> Nat]
    /\ child \in [Client -> SUBSET (Client \cup {Direct})]
  BY DEF TypeInv, TypeOK
\* What a step that sends and receives nothing has to show.
<1>a. ASSUME \A x \in Client : SameQueued(x) /\ SameServed(x),
             pc[c] \notin {"wait", "crashed"}, UNCHANGED <<inbox, gaveUp>>,
             PolicyHeld(c)', ~gaveUp[c] => StartedByClient(c)',
             e # c => SameClient(e)
      PROVE  Row(e)'
  BY <1>a, MoveRow, Frame
<1>b. ASSUME UNCHANGED <<backlog, serving>>
      PROVE  \A x \in Client : SameQueued(x) /\ SameServed(x)
  BY <1>b DEF SameQueued, SameServed, Queued, Serves
<1>c. PolicyHeld(c) /\ Delivered(c) /\ (~gaveUp[c] => StartedByClient(c))
  BY DEF Row
<1> USE DEF PolicyHeld, StartedByClient, Unstarted, Ran, SameClient
<1>1. CASE Begin(c)
  BY <1>1, <1>a, <1>b, <1>c DEF Begin
<1>2. CASE Connect(c)
  <2>1. CASE Live /\ UNCHANGED <<serving, inbox, policy, child, runs, gaveUp>>
             /\ backlog' = [backlog EXCEPT ![path] =
                    Append(@, [from |-> c, what |-> "launch", open |-> TRUE])]
             /\ pc' = [pc EXCEPT ![c] = "wait"]
    <3>1. path \in Client /\ pc[c] = "connect" /\ pc'[c] = "wait"
      BY <1>2, <2>1 DEF Live, Connect
    <3>2. CASE e = c
      BY <2>1, <3>1, <3>2, AskRow
    <3>3. CASE e # c
      <4>1. [from |-> c, what |-> "launch", open |-> TRUE] \in Entry
        BY DEF Entry
      <4>2. SameQueued(e)
        BY <2>1, <3>1, <3>3, <4>1, AppendRequests
      <4>3. SameServed(e) /\ SameClient(e)
        BY <2>1, <3>3 DEF SameServed, Serves
      <4> QED  BY <4>2, <4>3, Frame
    <3> QED  BY <3>2, <3>3
  <2>2. ASSUME NEW cold \in BOOLEAN,
               pc' = [pc EXCEPT ![c] = AfterFailure(c, cold)],
               UNCHANGED <<backlog, serving, inbox, policy, child, runs, gaveUp>>
        PROVE  Row(e)'
    <3>1. AfterFailure(c, cold) \in {"abort", "direct", "ensure"}
      BY AfterFailureTyped
    <3>2. pc'[c] \in {"abort", "direct", "ensure"} /\ pc[c] = "connect"
      BY <1>2, <2>2, <3>1 DEF Connect
    <3> QED  BY <1>a, <1>b, <1>c, <2>2, <3>2
  <2> QED  BY <1>2, <2>1, <2>2 DEF Connect
<1>3. CASE Receive(c)
  <2>1. /\ pc[c] = "wait" /\ inbox[c] # None /\ inbox'[c] = None /\ Hangup(c)
        /\ gaveUp' = [gaveUp EXCEPT ![c] = @ \/ inbox[c] = "reset"]
        /\ UNCHANGED <<policy, runs, child>>
    BY <1>3 DEF Receive
  <2>2. /\ inbox[c] = "ok" => pc'[c] = "cleanup"
        /\ inbox[c] # "ok" => pc'[c] \in {"abort", "direct", "ensure"}
    BY <1>3, AfterFailureTyped DEF Receive
  <2>3. CASE e = c
    <3>1. PolicyHeld(c)'
      BY <1>c, <2>1, <2>2
    <3>2. ~gaveUp'[c] => StartedByClient(c)'
      BY <1>c, <2>1, <2>2, NamesAssumption
    <3> QED  BY <2>1, <2>3, <3>1, <3>2, HangupRow
  <2>4. CASE e # c
    BY <1>3, <2>1, <2>4, ShutRequests, Frame DEF Receive
  <2> QED  BY <2>3, <2>4
<1>4. CASE Timeout(c)
  <2>1. /\ pc[c] = "wait" /\ inbox'[c] = None /\ Hangup(c) /\ gaveUp'[c]
        /\ UNCHANGED <<policy, runs, child>>
        /\ pc'[c] \in {"abort", "direct", "ensure"}
    BY <1>4, AfterFailureTyped DEF Timeout
  <2>2. CASE e = c
    BY <1>c, <2>1, <2>2, HangupRow
  <2>3. CASE e # c
    BY <1>4, <2>1, <2>3, ShutRequests, Frame DEF Timeout
  <2> QED  BY <2>2, <2>3
<1>5. CASE Ensure(c)
  <2>1. /\ pc[c] = "ensure" /\ pc'[c] \in {"direct", "unlink", "await"}
        /\ pc' = [pc EXCEPT ![c] = pc'[c]]
        /\ UNCHANGED <<serving, inbox, policy, child, runs, gaveUp>>
    BY <1>5 DEF Ensure, Spawn
  <2>2. \A x \in Client : SameQueued(x) /\ SameServed(x)
    <3>1. CASE UNCHANGED backlog
      BY <1>b, <2>1, <3>1
    <3>2. CASE Live /\ backlog' = [backlog EXCEPT ![path] =
                    Append(@, [from |-> c, what |-> "probe", open |-> FALSE])]
      <4>1. [from |-> c, what |-> "probe", open |-> FALSE] \in Entry
        BY DEF Entry
      <4>2. \A x \in Client : SameQueued(x)
        BY <3>2, <4>1, AppendRequests DEF Live
      <4> QED  BY <2>1, <4>2 DEF SameServed, Serves
    <3> QED  BY <1>5, <3>1, <3>2 DEF Ensure
  <2> QED  BY <1>a, <1>c, <2>1, <2>2
<1>6. CASE UnlinkAndSpawn(c)
  <2>1. /\ pc[c] = "unlink" /\ pc'[c] \in {"direct", "await"}
        /\ pc' = [pc EXCEPT ![c] = pc'[c]]
        /\ UNCHANGED <<backlog, serving, inbox, policy, child, runs, gaveUp>>
    BY <1>6 DEF UnlinkAndSpawn, Spawn
  <2> QED  BY <1>a, <1>b, <1>c, <2>1
<1>7. CASE Await(c)
  <2>1. /\ pc[c] = "await" /\ pc'[c] \in {"connect", "stop"}
        /\ pc' = [pc EXCEPT ![c] = pc'[c]]
        /\ UNCHANGED <<backlog, serving, inbox, policy, child, runs, gaveUp>>
    BY <1>7 DEF Await
  <2> QED  BY <1>a, <1>b, <1>c, <2>1
<1>8. CASE Stop(c)
  <2>1. /\ pc[c] = "stop" /\ pc' = [pc EXCEPT ![c] = "direct"]
        /\ UNCHANGED <<policy, child, runs, gaveUp>>
    BY <1>8 DEF Stop
  <2>2. CASE UNCHANGED <<backlog, serving, inbox>>
    BY <1>a, <1>b, <1>c, <2>1, <2>2
  <2>3. CASE Killed(c)
    <3>1. CASE e # c
      BY <2>1, <2>3, <3>1, KilledRow
    <3>2. CASE e = c
      <4>1. inbox'[c] = inbox[c] /\ SameQueued(c) /\ SameServed(c)
        BY <2>1, <2>3, KilledStopped
      <4> QED  BY <1>c, <2>1, <3>2, <4>1, MoveRow
    <3> QED  BY <3>1, <3>2
  <2> QED  BY <1>8, <2>2, <2>3 DEF Stop
<1>9. CASE RunDirect(c)
  <2>1. pc[c] = "direct" /\ UNCHANGED <<backlog, serving, inbox, policy, gaveUp>>
    BY <1>9 DEF RunDirect
  <2>2. CASE /\ child' = [child EXCEPT ![c] = @ \cup {Direct}]
             /\ runs' = [runs EXCEPT ![c] = @ + 1]
             /\ pc' = [pc EXCEPT ![c] = "running"]
    <3>1. ~gaveUp[c] => StartedByClient(c)'
      BY <1>c, <2>1, <2>2, NamesAssumption DEF Delivered
    <3> QED  BY <1>a, <1>b, <1>c, <2>1, <2>2, <3>1
  <2>3. CASE pc' = [pc EXCEPT ![c] = "abort"] /\ UNCHANGED <<child, runs>>
    BY <1>a, <1>b, <1>c, <2>1, <2>3
  <2> QED  BY <1>9, <2>2, <2>3 DEF RunDirect
<1>10. CASE DirectEnded(c)
  <2>1. ~gaveUp[c] => StartedByClient(c)'
    BY <1>10, <1>c DEF DirectEnded
  <2> QED  BY <1>10, <1>a, <1>b, <1>c, <2>1 DEF DirectEnded
<1>11. CASE Cleanup(c)
  <2>1. pc'[c] = IF pc[c] = "cleanup" THEN "done" ELSE "failed"
    BY <1>11 DEF Cleanup, Returned
  <2>2. ~gaveUp[c] => StartedByClient(c)'
    BY <1>11, <1>c, <2>1 DEF Cleanup
  <2> QED  BY <1>11, <1>a, <1>b, <1>c, <2>1, <2>2 DEF Cleanup
<1>12. CASE Die(c)
  <2>1. /\ pc[c] \notin {"idle", "done", "failed", "crashed"} /\ pc'[c] = "crashed"
        /\ inbox'[c] = None /\ Hangup(c) /\ UNCHANGED <<policy, runs, child, gaveUp>>
    BY <1>12 DEF Die
  <2>2. CASE e = c
    BY <1>c, <2>1, <2>2, HangupRow
  <2>3. CASE e # c
    BY <1>12, <2>1, <2>3, ShutRequests, Frame DEF Die
  <2> QED  BY <2>2, <2>3
<1> QED
  BY <1>1, <1>2, <1>3, <1>4, <1>5, <1>6, <1>7, <1>8, <1>9, <1>10, <1>11, <1>12
     DEF ClientStep

\* The steps of a broker, its faults and the end of a command keep them too.
LEMMA BrokerRows ==
    ASSUME LaunchInv, NEW b \in Client,
           \/ BrokerStep(b) \/ Signal(b) \/ Kill(b)
           \/ \E x \in Client \cup {Direct} : ChildEnds(b, x),
           NEW e \in Client
    PROVE  Row(e)'
<1> TypeInv /\ Row(e)
  BY DEF LaunchInv
<1>1. CASE Bind(b) \/ Chmod(b) \/ RemovePath(b)
  BY <1>1, StillRow DEF Bind, Chmod, RemovePath, clientVars, SameClient
<1>2. CASE Accept(b)
  BY <1>2, AcceptRow
<1>3. CASE StartHelper(b)
  <2>1. /\ serving[b] # None /\ serving[b].stage = "handle"
        /\ UNCHANGED <<backlog, pc, inbox, policy, gaveUp>>
        /\ serving[b].from \in Client
    BY <1>3 DEF StartHelper, clientVars, TypeInv, TypeOK, Request
  <2>2. ASSUME Serves(b, e), ~gaveUp[e]
        PROVE  /\ pc[e] \in {"wait", "crashed"} /\ inbox[e] = None /\ policy[e]
               /\ Unstarted(e)
    <3>1. pc[e] \in {"wait", "crashed"} /\ inbox[e] = None
      BY <2>2 DEF Row, OpenIffAwaited, Waits, Left, Delivered
    <3>2. policy[e]
      BY <3>1 DEF Row, PolicyHeld
    <3>3. Unstarted(e)
      BY <2>1, <2>2 DEF Row, StartedByRequest
    <3> QED  BY <3>1, <3>2, <3>3
  <2>3. CASE /\ Stage(b, "run")
             /\ child' = [child EXCEPT ![serving[b].from] = @ \cup {b}]
             /\ runs' = [runs EXCEPT ![serving[b].from] = @ + 1]
    <3>1. ~Serves(b, e) => runs'[e] = runs[e] /\ child'[e] = child[e]
      BY <2>1, <2>3 DEF Serves, TypeInv, TypeOK
    <3>2. Serves(b, e) /\ ~gaveUp[e] => runs'[e] = 1 /\ child'[e] \subseteq {b}
      BY <2>1, <2>2, <2>3 DEF Serves, Unstarted, TypeInv, TypeOK
    <3> QED  BY <2>1, <2>2, <2>3, <3>1, <3>2, StageRow
  <2>4. CASE Stage(b, "ok") /\ ~policy[serving[b].from] /\ UNCHANGED <<child, runs>>
    <3>1. ~(Serves(b, e) /\ ~gaveUp[e])
      BY <2>2, <2>4 DEF Serves
    <3> QED  BY <2>1, <2>4, <3>1, StageRow
  <2>5. CASE Stage(b, "refused") /\ UNCHANGED <<child, runs>>
    <3>1. Serves(b, e) /\ ~gaveUp[e] => Unstarted(e)'
      BY <2>2, <2>5 DEF Unstarted
    <3> QED  BY <2>1, <2>2, <2>5, <3>1, StageRow
  <2> QED  BY <1>3, <2>3, <2>4, <2>5 DEF StartHelper, PolicyFound
<1>4. CASE HelperEnded(b)
  <2>1. /\ serving[b] # None /\ serving[b].stage = "run" /\ Stage(b, "ok")
        /\ b \notin child[serving[b].from]
        /\ UNCHANGED <<backlog, pc, inbox, policy, gaveUp, child, runs>>
    BY <1>4 DEF HelperEnded, clientVars
  <2>2. ASSUME Serves(b, e), ~gaveUp[e]
        PROVE  pc[e] \in {"wait", "crashed"} /\ inbox[e] = None /\ Ran(e)'
    <3>1. pc[e] \in {"wait", "crashed"} /\ inbox[e] = None
      BY <2>2 DEF Row, OpenIffAwaited, Waits, Left, Delivered
    <3>2. runs[e] = 1 /\ child[e] \subseteq {b} /\ b \notin child[e]
      BY <2>1, <2>2 DEF Row, StartedByRequest, Serves
    <3> QED  BY <2>1, <3>1, <3>2 DEF Ran
  <2> QED  BY <2>1, <2>2, StageRow
<1>5. CASE Reply(b)
  BY <1>5, ReplyRow
<1>6. CASE CloseListener(b)
  <2>1. /\ backlog' = [backlog EXCEPT ![b] = <<>>] /\ UNCHANGED serving
        /\ inbox'[e] = IF e \in Pending(b) THEN "reset" ELSE inbox[e]
        /\ UNCHANGED <<pc, policy, gaveUp, runs, child>>
    BY <1>6 DEF CloseListener, Reset, clientVars
  <2> DEFINE dropped == FALSE
  <2> QED  BY <2>1, DropRow
<1>7. CASE Signal(b)
  <2>1. child'[e] \subseteq child[e]
        /\ UNCHANGED <<backlog, serving, pc, inbox, policy, gaveUp, runs>>
    BY <1>7 DEF Signal, clientVars
  <2> QED  BY <2>1, ShrinkRow
<1>8. CASE Kill(b)
  BY <1>8, KilledRow DEF Kill, clientVars
<1>9. ASSUME NEW x \in Client \cup {Direct}, ChildEnds(b, x)
      PROVE  Row(e)'
  <2>1. child'[e] \subseteq child[e]
        /\ UNCHANGED <<backlog, serving, pc, inbox, policy, gaveUp, runs>>
    BY <1>9 DEF ChildEnds, clientVars, TypeInv, TypeOK
  <2> QED  BY <2>1, ShrinkRow
<1> QED
  BY <1>1, <1>2, <1>3, <1>4, <1>5, <1>6, <1>7, <1>8, <1>9 DEF BrokerStep

\* The invariant is inductive.
LEMMA LaunchStep == LaunchInv /\ [Next]_vars => LaunchInv'
<1> SUFFICES ASSUME LaunchInv, [Next]_vars PROVE LaunchInv'
  OBVIOUS
<1>1. TypeInv'
  BY TypeStep DEF LaunchInv
<1>2. CASE Next
  BY <1>1, <1>2, ClientRows, BrokerRows DEF Next, LaunchInv
<1>3. CASE UNCHANGED vars
  <2>1. \A c \in Client : Row(c)'
    BY <1>3, StillRow DEF LaunchInv, vars, SameClient
  <2> QED  BY <1>1, <2>1 DEF LaunchInv
<1> QED  BY <1>2, <1>3

\* It holds in every reachable state.
LEMMA LaunchAlways == Spec => []LaunchInv
<1> QED  BY LaunchInitial, LaunchStep, PTL DEF Spec

\* Unless a round trip broke after its request was sent, a command is started
\* at most once, and exactly once by a launch that returns a result: for any
\* number of hazmat processes and brokers, and any faults.
THEOREM CommandStartedOnce == Spec => []StartedOnce
<1>1. LaunchInv => StartedOnce
  BY DEF LaunchInv, Row, StartedByClient, Ran, StartedOnce
<1> QED  BY <1>1, LaunchAlways, PTL

\* Cleanup begins after the command has ended, unless a round trip broke.
THEOREM CommandEndsBeforeCleanup == Spec => []CleanupAfterCommand
<1>1. LaunchInv => CleanupAfterCommand
  BY DEF LaunchInv, Row, StartedByClient, Ran, Unstarted, CleanupAfterCommand
<1> QED  BY <1>1, LaunchAlways, PTL

\* Nothing is started for a launch that has been cleaned up, also when its
\* request is still queued at some broker.
THEOREM NothingStartsAfterRelease == Spec => NoStartAfterRelease
<1>1. ASSUME LaunchInv, [Next]_vars, NEW c \in Client, pc[c] \in {"done", "failed"}
      PROVE  child'[c] \subseteq child[c]
  <2>1. ~policy[c]
    BY <1>1 DEF LaunchInv, Row, PolicyHeld
  <2>2. child \in [Client -> SUBSET (Client \cup {Direct})]
    BY <1>1 DEF LaunchInv, TypeInv, TypeOK
  <2>3. CASE UNCHANGED vars
    BY <2>3 DEF vars
  <2>4. ASSUME NEW b \in Client, RunDirect(b) PROVE child'[c] \subseteq child[c]
    BY <1>1, <2>2, <2>4 DEF RunDirect
  <2>5. ASSUME NEW b \in Client, StartHelper(b) PROVE child'[c] \subseteq child[c]
    BY <2>1, <2>2, <2>5 DEF StartHelper, PolicyFound
  <2>6. ASSUME NEW b \in Client, Signal(b) PROVE child'[c] \subseteq child[c]
    BY <2>2, <2>6 DEF Signal
  <2>7. ASSUME NEW b \in Client, NEW x \in Client \cup {Direct}, ChildEnds(b, x)
        PROVE  child'[c] \subseteq child[c]
    BY <2>2, <2>7 DEF ChildEnds
  <2>8. ASSUME NEW b \in Client,
               \/ Begin(b) \/ Connect(b) \/ Receive(b) \/ Timeout(b) \/ Ensure(b)
               \/ UnlinkAndSpawn(b) \/ Await(b) \/ Stop(b) \/ DirectEnded(b)
               \/ Cleanup(b) \/ Die(b) \/ Bind(b) \/ Chmod(b) \/ Accept(b)
               \/ HelperEnded(b) \/ Reply(b) \/ CloseListener(b)
               \/ RemovePath(b) \/ Kill(b)
        PROVE  child'[c] \subseteq child[c]
    BY <2>8 DEF Begin, Connect, Receive, Timeout, Ensure, UnlinkAndSpawn, Await,
                Stop, DirectEnded, Cleanup, Die, Bind, Chmod, Accept,
                HelperEnded, Reply, CloseListener, RemovePath, Kill
  <2> QED
    BY <1>1, <2>3, <2>4, <2>5, <2>6, <2>7, <2>8 DEF Next, ClientStep, BrokerStep
<1>2. LaunchInv /\ [Next]_vars =>
          [\A c \in Client : pc[c] \in {"done", "failed"} =>
               child'[c] \subseteq child[c]]_vars
  BY <1>1
<1> QED  BY <1>2, LaunchAlways, PTL DEF Spec, NoStartAfterRelease
----------------------------------------------------------------------------
(* The launch as CommandLaunch promises it.                                *)

Lives == [c \in Client |-> Life(c)]
Seen == <<Lives, runs, child, gaveUp>>

\* A client that moves changes its own life only.
LEMMA LivesMove ==
    ASSUME TypeInv, NEW c \in Client, NEW at \in PC, pc' = [pc EXCEPT ![c] = at]
    PROVE  Lives' = [Lives EXCEPT ![c] = Life(c)'] /\ pc'[c] = at
<1>1. pc'[c] = at /\ \A d \in Client \ {c} : pc'[d] = pc[d]
  BY DEF TypeInv, TypeOK
<1>2. \A d \in Client \ {c} : Life(d)' = Life(d)
  BY <1>1 DEF Life
<1> QED  BY <1>1, <1>2 DEF Lives

LEMMA LivesStay ==
    ASSUME NEW c \in Client, Lives' = [Lives EXCEPT ![c] = Life(c)'], Life(c)' = Life(c)
    PROVE  Lives' = Lives
BY DEF Lives

\* Each kind of step of the promise, said of the variables of the broker.
LEMMA Starts ==
    ASSUME NEW c \in Client, NEW p \in Client \cup {Direct}, Life(c) # "released",
           ~gaveUp[c] => runs[c] = 0 /\ Life(c) \in {"open", "abandoned"},
           runs' = [runs EXCEPT ![c] = @ + 1], child' = [child EXCEPT ![c] = @ \cup {p}],
           Lives' = Lives, gaveUp' = gaveUp
    PROVE  Promise!Next
<1>1. Promise!Start(c, p)
  BY DEF Promise!Start, Lives
<1> QED  BY <1>1 DEF Promise!Next

LEMMA Ends ==
    ASSUME child' \in [Client -> SUBSET (Client \cup {Direct})],
           \A c \in Client : child'[c] \subseteq child[c],
           Lives' = Lives, runs' = runs, gaveUp' = gaveUp
    PROVE  Promise!Next
<1>1. Promise!End
  BY DEF Promise!End, Lives
<1> QED  BY <1>1 DEF Promise!Next

LEMMA LosesTouch ==
    ASSUME NEW c \in Client, Life(c) = "open", Life(c)' \in {"open", "failed"},
           Lives' = [Lives EXCEPT ![c] = Life(c)'],
           gaveUp' = [gaveUp EXCEPT ![c] = TRUE], runs' = runs, child' = child
    PROVE  Promise!Next
<1>1. Promise!LoseTouch(c)
  BY DEF Promise!LoseTouch, Lives
<1> QED  BY <1>1 DEF Promise!Next

LEMMA Decides ==
    ASSUME NEW c \in Client, Life(c) = "open", Life(c)' \in {"returned", "failed"},
           ~gaveUp[c] => child[c] = {} /\ runs[c] = IF Life(c)' = "returned" THEN 1 ELSE 0,
           Lives' = [Lives EXCEPT ![c] = Life(c)'], gaveUp' = gaveUp, runs' = runs, child' = child
    PROVE  Promise!Next
<1> DEFINE outcome == Life(c)'
<1>1. Promise!Decide(c, outcome)
  BY DEF Promise!Decide, Lives
<1> QED  BY <1>1 DEF Promise!Next

LEMMA Releases ==
    ASSUME NEW c \in Client, Life(c) \in {"returned", "failed"}, Life(c)' = "released",
           Lives' = [Lives EXCEPT ![c] = Life(c)'], gaveUp' = gaveUp, runs' = runs, child' = child
    PROVE  Promise!Next
<1>1. Promise!Release(c)
  BY DEF Promise!Release, Lives
<1> QED  BY <1>1 DEF Promise!Next

LEMMA Abandons ==
    ASSUME NEW c \in Client, Life(c) \in {"open", "returned", "failed"}, Life(c)' = "abandoned",
           Lives' = [Lives EXCEPT ![c] = Life(c)'], gaveUp' = gaveUp, runs' = runs, child' = child
    PROVE  Promise!Next
<1>1. Promise!Abandon(c)
  BY DEF Promise!Abandon, Lives
<1> QED  BY <1>1 DEF Promise!Next

----------------------------------------------------------------------------
\* A failed round trip without doubt leaves the launch open, or ends it with
\* an error and nothing started.
LEMMA FailsOrGoesOn ==
    ASSUME TypeInv, NEW c \in Client, Life(c) = "open", NEW at \in {"abort", "direct", "ensure"},
           pc' = [pc EXCEPT ![c] = at], ~gaveUp[c] => Unstarted(c),
           gaveUp' = gaveUp, runs' = runs, child' = child
    PROVE  [Promise!Next]_Seen
<1>1. Lives' = [Lives EXCEPT ![c] = Life(c)'] /\ pc'[c] = at
  BY LivesMove DEF PC
<1>2. CASE at = "abort"
  <2>1. Life(c)' = "failed"
    BY <1>1, <1>2 DEF Life
  <2> QED  BY <1>1, <2>1, Decides DEF Unstarted
<1>3. CASE at # "abort"
  <2>1. Life(c)' = "open"
    BY <1>1, <1>3 DEF Life
  <2> QED  BY <1>1, <2>1, LivesStay DEF Seen
<1> QED  BY <1>2, <1>3

\* The steps of a client keep the promise.
LEMMA ClientKeepsPromise ==
    ASSUME LaunchInv, NEW c \in Client, Begin(c) \/ ClientStep(c) \/ Die(c)
    PROVE  [Promise!Next]_Seen
<1>1. TypeInv /\ Row(c) /\ (~gaveUp[c] => StartedByClient(c))
  BY DEF LaunchInv, Row
<1>2. pc \in [Client -> PC] /\ gaveUp \in [Client -> BOOLEAN] /\ gaveUp[c] \in BOOLEAN
  BY <1>1 DEF TypeInv, TypeOK
\* A step that leaves the launch open.
<1>3. ASSUME Life(c) = "open", NEW at \in {"connect", "wait", "ensure", "unlink", "await",
                                             "stop", "direct", "running"},
             pc' = [pc EXCEPT ![c] = at], UNCHANGED <<runs, child, gaveUp>>
      PROVE  [Promise!Next]_Seen
  <2>1. Lives' = [Lives EXCEPT ![c] = Life(c)'] /\ pc'[c] = at
    BY <1>1, <1>3, LivesMove DEF PC
  <2>2. Life(c)' = "open"
    BY <1>3, <2>1 DEF Life
  <2> QED  BY <1>3, <2>1, <2>2, LivesStay DEF Seen
<1>4. CASE Begin(c)
  <2>1. Life(c) = "open" /\ UNCHANGED <<runs, child, gaveUp>>
        /\ \E at \in {"direct", "connect"} : pc' = [pc EXCEPT ![c] = at]
    BY <1>4 DEF Begin, Life
  <2> QED  BY <1>3, <2>1
<1>5. CASE Connect(c)
  <2>1. pc[c] = "connect" /\ Life(c) = "open" /\ UNCHANGED <<runs, child, gaveUp>>
    BY <1>5 DEF Connect, Life
  <2>2. CASE pc' = [pc EXCEPT ![c] = "wait"]
    BY <1>3, <2>1, <2>2
  <2>3. ASSUME NEW cold \in BOOLEAN, pc' = [pc EXCEPT ![c] = AfterFailure(c, cold)]
        PROVE  [Promise!Next]_Seen
    <3>1. AfterFailure(c, cold) \in {"abort", "direct", "ensure"}
      BY <1>1, AfterFailureTyped
    <3>2. ~gaveUp[c] => Unstarted(c)
      BY <1>1, <2>1 DEF StartedByClient
    <3> QED  BY <1>1, <2>1, <2>3, <3>1, <3>2, FailsOrGoesOn
  <2> QED  BY <1>5, <2>2, <2>3 DEF Connect
<1>6. CASE Receive(c)
  <2>1. /\ pc[c] = "wait" /\ Life(c) = "open" /\ inbox[c] # None
        /\ UNCHANGED <<runs, child>>
        /\ gaveUp' = [gaveUp EXCEPT ![c] = @ \/ inbox[c] = "reset"]
        /\ pc' = [pc EXCEPT ![c] = IF inbox[c] = "ok" THEN "cleanup" ELSE AfterFailure(c, FALSE)]
    BY <1>6 DEF Receive, Life
  <2>2. AfterFailure(c, FALSE) \in {"abort", "direct", "ensure"}
    BY <1>1, AfterFailureTyped
  <2>3. inbox[c] # "reset" => gaveUp' = gaveUp
    BY <1>2, <2>1
  <2>4. CASE inbox[c] = "ok"
    <3>1. Lives' = [Lives EXCEPT ![c] = Life(c)'] /\ pc'[c] = "cleanup"
      BY <1>1, <2>1, <2>4, LivesMove DEF PC
    <3>2. Life(c)' = "returned"
      BY <3>1 DEF Life
    <3>3. ~gaveUp[c] => child[c] = {} /\ runs[c] = 1
      BY <1>1, <2>4 DEF StartedByClient, Ran
    <3> QED  BY <2>1, <2>3, <2>4, <3>1, <3>2, <3>3, Decides
  <2>5. CASE inbox[c] = "refused"
    <3>1. ~gaveUp[c] => Unstarted(c)
      BY <1>1, <2>5 DEF StartedByClient
    <3> QED  BY <1>1, <2>1, <2>2, <2>3, <2>5, <3>1, FailsOrGoesOn
  <2>6. CASE inbox[c] = "reset"
    <3>1. /\ Lives' = [Lives EXCEPT ![c] = Life(c)']
          /\ pc'[c] \in {"abort", "direct", "ensure"}
      BY <1>1, <2>1, <2>2, <2>6, LivesMove DEF PC
    <3>2. Life(c)' \in {"open", "failed"}
      BY <3>1 DEF Life
    <3>3. gaveUp' = [gaveUp EXCEPT ![c] = TRUE]
      BY <2>1, <2>6
    <3> QED  BY <2>1, <3>1, <3>2, <3>3, LosesTouch
  <2>7. inbox[c] \in {"ok", "refused", "reset"}
    BY <1>1, <2>1 DEF TypeInv, TypeOK
  <2> QED  BY <2>4, <2>5, <2>6, <2>7
<1>7. CASE Timeout(c)
  <2>1. /\ pc[c] = "wait" /\ Life(c) = "open" /\ UNCHANGED <<runs, child>>
        /\ gaveUp' = [gaveUp EXCEPT ![c] = TRUE]
        /\ pc' = [pc EXCEPT ![c] = AfterFailure(c, FALSE)]
    BY <1>7 DEF Timeout, Life
  <2>2. AfterFailure(c, FALSE) \in {"abort", "direct", "ensure"}
    BY <1>1, AfterFailureTyped
  <2>3. Lives' = [Lives EXCEPT ![c] = Life(c)'] /\ pc'[c] \in {"abort", "direct", "ensure"}
    BY <1>1, <2>1, <2>2, LivesMove DEF PC
  <2>4. Life(c)' \in {"open", "failed"}
    BY <2>3 DEF Life
  <2> QED  BY <2>1, <2>3, <2>4, LosesTouch
<1>8. CASE Ensure(c) \/ UnlinkAndSpawn(c) \/ Await(c) \/ Stop(c)
  <2>1. Life(c) = "open" /\ UNCHANGED <<runs, child, gaveUp>>
    BY <1>8 DEF Ensure, UnlinkAndSpawn, Await, Stop, Life
  <2>2. \E at \in {"connect", "direct", "unlink", "await", "stop"} : pc' = [pc EXCEPT ![c] = at]
    BY <1>8 DEF Ensure, UnlinkAndSpawn, Await, Stop, Spawn
  <2> QED  BY <1>3, <2>1, <2>2
<1>9. CASE RunDirect(c)
  <2>1. pc[c] = "direct" /\ Life(c) = "open" /\ gaveUp' = gaveUp
    BY <1>9 DEF RunDirect, Life
  <2>2. ~gaveUp[c] => Unstarted(c)
    BY <1>1, <2>1 DEF StartedByClient
  <2>3. CASE /\ child' = [child EXCEPT ![c] = @ \cup {Direct}]
             /\ runs' = [runs EXCEPT ![c] = @ + 1]
             /\ pc' = [pc EXCEPT ![c] = "running"]
    <3>1. Lives' = [Lives EXCEPT ![c] = Life(c)'] /\ pc'[c] = "running"
      BY <1>1, <2>3, LivesMove DEF PC
    <3>2. Life(c)' = "open"
      BY <3>1 DEF Life
    <3>3. Lives' = Lives
      BY <2>1, <3>1, <3>2, LivesStay
    <3> QED  BY <2>1, <2>2, <2>3, <3>3, Starts DEF Unstarted
  <2>4. CASE pc' = [pc EXCEPT ![c] = "abort"] /\ UNCHANGED <<child, runs>>
    BY <1>1, <2>1, <2>2, <2>4, FailsOrGoesOn
  <2> QED  BY <1>9, <2>3, <2>4 DEF RunDirect
<1>10. CASE DirectEnded(c)
  <2>1. /\ pc[c] = "running" /\ Life(c) = "open" /\ Direct \notin child[c]
        /\ pc' = [pc EXCEPT ![c] = "cleanup"] /\ UNCHANGED <<runs, child, gaveUp>>
    BY <1>10 DEF DirectEnded, Life
  <2>2. Lives' = [Lives EXCEPT ![c] = Life(c)'] /\ pc'[c] = "cleanup"
    BY <1>1, <2>1, LivesMove DEF PC
  <2>3. Life(c)' = "returned"
    BY <2>2 DEF Life
  <2>4. ~gaveUp[c] => child[c] = {} /\ runs[c] = 1
    BY <1>1, <2>1 DEF StartedByClient
  <2> QED  BY <2>1, <2>2, <2>3, <2>4, Decides
<1>11. CASE Cleanup(c)
  <2>1. /\ pc[c] \in {"cleanup", "abort"} /\ Returned(c) \in {"done", "failed"}
        /\ pc' = [pc EXCEPT ![c] = Returned(c)] /\ UNCHANGED <<runs, child, gaveUp>>
    BY <1>11 DEF Cleanup, Returned
  <2>2. Lives' = [Lives EXCEPT ![c] = Life(c)'] /\ pc'[c] \in {"done", "failed"}
    BY <1>1, <2>1, LivesMove DEF PC
  <2>3. Life(c) \in {"returned", "failed"} /\ Life(c)' = "released"
    BY <2>1, <2>2 DEF Life
  <2> QED  BY <2>1, <2>2, <2>3, Releases
<1>12. CASE Die(c)
  <2>1. /\ pc[c] \notin {"idle", "done", "failed", "crashed"}
        /\ pc' = [pc EXCEPT ![c] = "crashed"] /\ UNCHANGED <<runs, child, gaveUp>>
    BY <1>12 DEF Die
  <2>2. Lives' = [Lives EXCEPT ![c] = Life(c)'] /\ pc'[c] = "crashed"
    BY <1>1, <2>1, LivesMove DEF PC
  <2>3. Life(c) \in {"open", "returned", "failed"} /\ Life(c)' = "abandoned"
    BY <2>1, <2>2 DEF Life
  <2> QED  BY <2>1, <2>2, <2>3, Abandons
<1> QED
  BY <1>4, <1>5, <1>6, <1>7, <1>8, <1>9, <1>10, <1>11, <1>12 DEF ClientStep

\* A broker starts a command for a client that waits for it, that was killed
\* or that is in doubt; the rest of what it does is not seen.
LEMMA BrokerKeepsPromise ==
    ASSUME LaunchInv, NEW b \in Client,
           \/ BrokerStep(b) \/ Signal(b) \/ Kill(b)
           \/ \E x \in Client \cup {Direct} : ChildEnds(b, x)
    PROVE  [Promise!Next]_Seen
<1>1. child \in [Client -> SUBSET (Client \cup {Direct})]
  BY DEF LaunchInv, TypeInv, TypeOK
<1>2. pc' = pc /\ gaveUp' = gaveUp
  BY DEF BrokerStep, Bind, Chmod, Accept, StartHelper, HelperEnded, Reply, CloseListener,
         RemovePath, Signal, Kill, ChildEnds, clientVars
<1>3. Lives' = Lives
  BY <1>2 DEF Lives, Life
<1>4. CASE StartHelper(b)
  <2> DEFINE c == serving[b].from
  <2>1. serving[b] # None /\ serving[b].stage = "handle" /\ c \in Client
    BY <1>4 DEF StartHelper, LaunchInv, TypeInv, TypeOK, Request
  <2>2. CASE UNCHANGED <<child, runs>>
    BY <1>2, <1>3, <2>2 DEF Seen
  <2>3. CASE /\ policy[c] /\ child' = [child EXCEPT ![c] = @ \cup {b}]
             /\ runs' = [runs EXCEPT ![c] = @ + 1]
    <3>1. Row(c) /\ Serves(b, c)
      BY <2>1 DEF LaunchInv, Serves
    <3>2. Life(c) # "released"
      BY <2>3, <3>1 DEF Row, PolicyHeld, Life
    <3>3. ~gaveUp[c] => runs[c] = 0
      BY <2>1, <3>1 DEF Row, StartedByRequest, Unstarted
    <3>4. ~gaveUp[c] => pc[c] \in {"wait", "crashed"}
      BY <3>1 DEF Row, OpenIffAwaited, Waits, Left
    <3>5. ~gaveUp[c] => Life(c) \in {"open", "abandoned"}
      BY <3>4 DEF Life
    <3> HIDE DEF c
    <3> QED  BY <1>2, <1>3, <2>1, <2>3, <3>2, <3>3, <3>5, Starts
  <2> QED  BY <1>4, <2>2, <2>3 DEF StartHelper, PolicyFound
<1>5. CASE Signal(b)
  <2>1. runs' = runs /\ child' = [c \in Client |-> child[c] \ {b}]
    BY <1>5 DEF Signal
  <2> QED  BY <1>1, <1>2, <1>3, <2>1, Ends
<1>6. ASSUME NEW x \in Client \cup {Direct}, ChildEnds(b, x)
      PROVE  [Promise!Next]_Seen
  <2>1. runs' = runs /\ child' = [child EXCEPT ![b] = @ \ {x}]
    BY <1>6 DEF ChildEnds
  <2>2. /\ child' \in [Client -> SUBSET (Client \cup {Direct})]
        /\ \A c \in Client : child'[c] \subseteq child[c]
    BY <1>1, <2>1
  <2> QED  BY <1>2, <1>3, <2>1, <2>2, Ends
<1>7. CASE UNCHANGED <<runs, child>>
  BY <1>2, <1>3, <1>7 DEF Seen
<1> QED
  BY <1>4, <1>5, <1>6, <1>7
  DEF BrokerStep, Bind, Chmod, Accept, HelperEnded, Reply, CloseListener, RemovePath, Kill

\* Whichever way a launch runs its command, and whatever becomes of the brokers,
\* of their shared socket and of the other launches, it does what CommandLaunch
\* promises of it: so NoStartAfterRelease and StartedOnce are of every path.
THEOREM LaunchesKeepPromise == Spec => LaunchesAsPromised
<1>1. Init => Promise!Init
  <2> SUFFICES ASSUME Init PROVE Promise!Init
    OBVIOUS
  <2>1. pc = [c \in Client |-> IF c \in Past THEN "done" ELSE "idle"]
        /\ runs = [c \in Client |-> IF c \in Past THEN 1 ELSE 0]
        /\ child = [c \in Client |-> {}] /\ gaveUp = [c \in Client |-> FALSE]
    BY DEF Init
  <2>2. Lives = [c \in Client |-> IF c \in Past THEN "released" ELSE "open"]
    BY <2>1 DEF Lives, Life
  <2>3. runs = [c \in Client |-> IF Lives[c] = "released" THEN 1 ELSE 0]
        /\ Lives \in [Client -> {"open", "released"}]
    BY <2>1, <2>2
  <2> QED  BY <2>1, <2>3 DEF Promise!Init, Lives
<1>2. ASSUME LaunchInv, [Next]_vars PROVE [Promise!Next]_Seen
  <2>1. CASE Next
    BY <1>2, <2>1, ClientKeepsPromise, BrokerKeepsPromise DEF Next
  <2>2. CASE UNCHANGED vars
    BY <2>2 DEF vars, Seen, Lives, Life
  <2> QED  BY <1>2, <2>1, <2>2
<1>3. ASSUME LaunchInv, [Next]_vars
      PROVE  [Promise!Next]_<<[c \in Client |-> Life(c)], runs, child, gaveUp>>
  BY <1>2, <1>3 DEF Seen, Lives
<1> QED
  BY <1>1, <1>3, LaunchAlways, PTL DEF Spec, LaunchesAsPromised, Promise!Spec
=============================================================================
