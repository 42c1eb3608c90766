------------------------- MODULE HarnessAuthProofs -------------------------
(* Proofs about HarnessAuth, for every set of harnesses, tokens and        *)
(* processes.                                                              *)
EXTENDS HarnessAuth, TLAPS

USE DEF At, H, files, issue, locals

\* The inductive form of the type invariant: a process at work has a harness.
TypeInv == CopiesOK /\ ProcessesOK /\ Selected

\* A process at work was started for a harness.
LEMMA AtWork ==
    ASSUME TypeInv, NEW s \in Session, pc[s] # "idle"
    PROVE  H(s) \in Harness
BY DEF TypeInv, Selected, At, H

\* A timestamp comparison has one of three outcomes.
LEMMA StampsTyped ==
    ASSUME CopiesOK, NEW h \in Harness
    PROVE  /\ StoreStamp(h) \subseteq {"store", "host", "tie"}
           /\ HostStamp(h) \subseteq {"store", "host", "tie"}
<1>1. order[h] \in {"store", "host", "tie"}
  BY DEF CopiesOK
<1> QED  BY <1>1 DEF StoreStamp, HostStamp

\* A write of the store or of the host copy, complete or torn, keeps the types.
LEMMA WritesTyped ==
    ASSUME CopiesOK, NEW h \in Harness
    PROVE  /\ \A v \in Value : WriteStore(h, v) =>
                 store' \in [Harness -> Value]
                 /\ order' \in [Harness -> {"store", "host", "tie"}]
           /\ \A v \in Value : WriteHost(h, v) =>
                 hostCopy' \in [Harness -> Value]
                 /\ order' \in [Harness -> {"store", "host", "tie"}]
           /\ SpoilStore(h) =>
                 store' \in [Harness -> Value]
                 /\ order' \in [Harness -> {"store", "host", "tie"}]
           /\ SpoilHost(h) =>
                 hostCopy' \in [Harness -> Value]
                 /\ order' \in [Harness -> {"store", "host", "tie"}]
           /\ SpoilAgent(h) => agentFile' \in [Harness -> Value]
<1>1. \A v \in Value : WriteStore(h, v) =>
         store' \in [Harness -> Value]
         /\ order' \in [Harness -> {"store", "host", "tie"}]
  BY StampsTyped DEF CopiesOK, WriteStore
<1>2. \A v \in Value : WriteHost(h, v) =>
         hostCopy' \in [Harness -> Value]
         /\ order' \in [Harness -> {"store", "host", "tie"}]
  BY StampsTyped DEF CopiesOK, WriteHost
<1>3. Blank \in Value  BY DEF Value
<1> QED  BY <1>1, <1>2, <1>3 DEF CopiesOK, SpoilStore, SpoilHost, SpoilAgent

\* The ways a process moves on keep the types of its local state.
LEMMA GotoTyped ==
    ASSUME TypeInv, NEW s \in Session, NEW step \in Steps, pc[s] # "idle",
           Goto(s, step)
    PROVE  ProcessesOK' /\ Selected'
BY DEF TypeInv, ProcessesOK, Selected, At, H, Goto, locals

\* ... also when it takes other content in hand,
LEMMA GotoWithTyped ==
    ASSUME TypeInv, NEW s \in Session, NEW step \in Steps, pc[s] # "idle",
           NEW v \in Value, NEW old \in Value, GotoWith(s, step, v, old)
    PROVE  ProcessesOK' /\ Selected'
BY DEF TypeInv, ProcessesOK, Selected, At, H, GotoWith

\* ... turns to its cleanup,
LEMMA GotoHarvestTyped ==
    ASSUME TypeInv, NEW s \in Session, pc[s] # "idle", GotoHarvest(s)
    PROVE  ProcessesOK' /\ Selected'
BY DEF TypeInv, ProcessesOK, Selected, At, H, GotoHarvest, Steps

\* ... or ends.
LEMMA LeaveTyped ==
    ASSUME TypeInv, NEW s \in Session, Leave(s)
    PROVE  ProcessesOK' /\ Selected'
<1>1. ProcessesOK'
  BY DEF TypeInv, ProcessesOK, Leave, Steps, Value
<1>2. Selected'
  <2> SUFFICES ASSUME NEW r \in Session
               PROVE  /\ ~(pc'[r] = "idle") => sel'[r] \in Harness
                      /\ prefer'[r] => sel'[r] \in KeychainBacked
    BY DEF Selected, At, H
  <2>1. CASE r = s  BY <2>1 DEF Leave, TypeInv, ProcessesOK
  <2>2. CASE r # s
    BY <2>2 DEF Leave, TypeInv, ProcessesOK, Selected, At, H
  <2> QED  BY <2>1, <2>2
<1> QED  BY <1>1, <1>2

\* What a process can write is a credential content.
LEMMA CopyTyped ==
    ASSUME TypeInv, NEW s \in Session
    PROVE  /\ NoFile \in Value /\ Blank \in Value
           /\ data[s] \in Value /\ seen[s] \in Value
           /\ \A h \in Harness :
                 /\ store[h] \in Value /\ agentFile[h] \in Value
                 /\ keychain[h] \in Value /\ hostCopy[h] \in Value
BY DEF TypeInv, Value, CopiesOK, ProcessesOK

\* Startup recovery keeps the types,
LEMMA RecoveryType ==
    ASSUME TypeInv, NEW s \in Session, Recovery(s)
    PROVE  TypeInv'
<1> USE WritesTyped, AtWork, CopyTyped, GotoTyped, GotoWithTyped,
        GotoHarvestTyped, LeaveTyped DEF TypeInv
<1>1. CASE Reconcile(s)  BY <1>1 DEF Reconcile, CopiesOK, Steps, AfterFold
<1>2. CASE FoldWrite(s)  BY <1>2 DEF FoldWrite, CopiesOK, Steps, AfterFold
<1>3. CASE FoldClear(s)  BY <1>3 DEF FoldClear, CopiesOK, Steps, AfterFold
<1>4. CASE MigrateRead(s)
  BY <1>4 DEF MigrateRead, CopiesOK, Steps, MigrateNext
<1>5. CASE MigrateDrop(s)  BY <1>5 DEF MigrateDrop, CopiesOK, Steps
<1>6. CASE MigrateArchive(s)  BY <1>6 DEF MigrateArchive, CopiesOK, Steps
<1>7. CASE MigrateStore(s)  BY <1>7 DEF MigrateStore, CopiesOK, Steps
<1>8. CASE MigrateRemove(s)  BY <1>8 DEF MigrateRemove, CopiesOK, Steps
<1> QED  BY <1>1, <1>2, <1>3, <1>4, <1>5, <1>6, <1>7, <1>8 DEF Recovery

\* ... and so does the launch,
LEMMA MaterializationType ==
    ASSUME TypeInv, NEW s \in Session, Materialization(s)
    PROVE  TypeInv'
<1> USE WritesTyped, AtWork, CopyTyped, GotoTyped, GotoWithTyped,
        GotoHarvestTyped, LeaveTyped DEF TypeInv
<1>1. CASE Launch(s)  BY <1>1 DEF Launch, CopiesOK, Steps
<1>2. CASE ProbeDone(s)  BY <1>2 DEF ProbeDone, CopiesOK, Steps
<1>3. CASE SyncHost(s)  BY <1>3 DEF SyncHost, CopiesOK, Steps
<1>4. CASE MaterializeLoad(s)
  <2>1. PICK step \in LoadNext(s) : pc' = [pc EXCEPT ![s] = step]
    BY <1>4 DEF MaterializeLoad
  <2>2. step \in Steps
    BY DEF LoadNext, Steps
  <2>3. H(s) \in Harness /\ store[H(s)] \in Value /\ pc[s] # "idle"
    BY <1>4 DEF MaterializeLoad, At
  <2>4. pc' \in [Session -> Steps]
    BY <2>1, <2>2 DEF ProcessesOK
  <2>5. data' \in [Session -> Value] /\ base' \in [Session -> Value]
    BY <1>4, <2>3 DEF MaterializeLoad, ProcessesOK
  <2>6. ProcessesOK'
    BY <1>4, <2>4, <2>5 DEF MaterializeLoad, ProcessesOK
  <2>7. Selected'
    BY <1>4, <2>1, <2>3 DEF MaterializeLoad, ProcessesOK, Selected, At, H
  <2>8. CopiesOK'
    BY <1>4 DEF MaterializeLoad, CopiesOK, files, issue
  <2> QED  BY <2>6, <2>7, <2>8
<1>5. CASE MaterializeFile(s)  BY <1>5 DEF MaterializeFile, CopiesOK, Steps
<1>6. CASE KeychainDelete(s)  BY <1>6 DEF KeychainDelete, CopiesOK, Steps
<1>7. CASE KeychainAdd(s)  BY <1>7 DEF KeychainAdd, CopiesOK, Steps
<1>8. CASE LaterArtifactFails(s)
  BY <1>8 DEF LaterArtifactFails, CopiesOK, Steps
<1>9. CASE LaterStepFails(s)  BY <1>9 DEF LaterStepFails, CopiesOK, Steps
<1>10. CASE StartSession(s)  BY <1>10 DEF StartSession, CopiesOK, Steps
<1> QED
  BY <1>1, <1>2, <1>3, <1>4, <1>5, <1>6, <1>7, <1>8, <1>9, <1>10
  DEF Materialization

\* ... the harvest,
LEMMA HarvestType ==
    ASSUME TypeInv, NEW s \in Session, Harvest(s)
    PROVE  TypeInv'
<1> USE WritesTyped, AtWork, CopyTyped, GotoTyped, GotoWithTyped,
        GotoHarvestTyped, LeaveTyped DEF TypeInv
<1>1. CASE HarvestRead(s)
  BY <1>1 DEF HarvestRead, CopiesOK, Steps, HarvestNext
<1>2. CASE HarvestDrop(s)  BY <1>2 DEF HarvestDrop, CopiesOK, Steps
<1>3. CASE HarvestArchive(s)  BY <1>3 DEF HarvestArchive, CopiesOK, Steps
<1>4. CASE HarvestStore(s)  BY <1>4 DEF HarvestStore, CopiesOK, Steps
<1>5. CASE HarvestRemove(s)  BY <1>5, SMTT(30) DEF HarvestRemove, CopiesOK, Steps
<1>6. CASE HarvestPublish(s)  BY <1>6 DEF HarvestPublish, CopiesOK, Steps
<1> QED  BY <1>1, <1>2, <1>3, <1>4, <1>5, <1>6 DEF Harvest

\* The types hold before the first launch.
LEMMA TypeInit == Init => TypeInv
BY HarnessAuthAssumption
   DEF Init, TypeInv, CopiesOK, ProcessesOK, Selected, Steps, Value, At, H

\* ... the start, the harness, the exit and a crash,
LEMMA OutsideType ==
    ASSUME TypeInv, NEW s \in Session,
           \/ \E h \in Harness, p \in BOOLEAN : Begin(s, h, p)
           \/ Agent(s) \/ SessionExits(s) \/ Crash(s)
    PROVE  TypeInv'
<1> USE DEF TypeInv, CopiesOK, ProcessesOK, Selected, At, H, Steps, Value,
            files, issue, locals, Issue
<1>1. ASSUME NEW h \in Harness, NEW p \in BOOLEAN, Begin(s, h, p)
      PROVE  TypeInv'
  BY <1>1 DEF Begin
<1>2. ASSUME NEW t \in Token, AgentRotatesFile(s, t)  PROVE TypeInv'
  BY <1>2 DEF AgentRotatesFile
<1>3. ASSUME NEW t \in Token, AgentRotatesKeychain(s, t)  PROVE TypeInv'
  BY <1>3 DEF AgentRotatesKeychain
<1>4. CASE AgentLogsOut(s)  BY <1>4 DEF AgentLogsOut
<1>5. CASE SessionExits(s)  BY <1>5, GotoHarvestTyped DEF SessionExits
<1>6. CASE Crash(s)
  <2>1. H(s) \in Harness  BY <1>6 DEF Crash
  <2>2. CopiesOK'  BY <1>6, <2>1, WritesTyped DEF Crash
  <2>3. ProcessesOK' /\ Selected'  BY <1>6, LeaveTyped DEF Crash
  <2> QED  BY <2>2, <2>3
<1> QED  BY <1>1, <1>2, <1>3, <1>4, <1>5, <1>6 DEF Agent

\* ... and a login of the host user.
LEMMA HostLoginType ==
    ASSUME TypeInv, NEW h \in Harness, NEW t \in Token, HostLogin(h, t)
    PROVE  TypeInv'
<1>1. t \in Value  BY DEF Value
<1>2. CopiesOK'
  BY <1>1, WritesTyped DEF TypeInv, CopiesOK, HostLogin, Issue
<1>3. ProcessesOK' /\ Selected'
  BY DEF TypeInv, ProcessesOK, Selected, At, H, HostLogin, locals
<1> QED  BY <1>2, <1>3 DEF TypeInv

\* No step breaks the types.
LEMMA TypeNext ==
    ASSUME TypeInv, [Next]_vars
    PROVE  TypeInv'
<1>1. CASE UNCHANGED vars
  BY <1>1 DEF vars, TypeInv, CopiesOK, ProcessesOK, Selected, At, H
<1>2. CASE Next
  BY <1>2, RecoveryType, MaterializationType, HarvestType, OutsideType,
     HostLoginType DEF Next
<1> QED  BY <1>1, <1>2

\* Whatever fails, every copy always holds a credential content and every
\* process is at a known step of harness_auth_runtime.go.
THEOREM TypeCorrect == Spec => []TypeOK
<1>1. TypeInv /\ [Next]_vars => TypeInv'  BY TypeNext
<1>2. TypeInv => TypeOK  BY DEF TypeInv, TypeOK
<1> QED  BY TypeInit, <1>1, <1>2, PTL DEF Spec

-----------------------------------------------------------------------------
(* FilteredLatestKept.  A step of process s changes only the copies of its *)
(* harness and, because it is alone, only its own local state: StepOK says *)
(* what then remains to be shown of an action, StepSafe why it is enough.  *)

\* The copies of harness h that the invariant speaks of stay.
Same(h) ==
    /\ store'[h] = store[h] /\ agentFile'[h] = agentFile[h]
    /\ keychain'[h] = keychain[h] /\ conflicts'[h] = conflicts[h]
    /\ latest'[h] = latest[h]

\* Process s and harness h apart, the step changes nothing.
Elsewhere(s, h) ==
    /\ \A g \in Harness \ {h} : Same(g)
    /\ \A r \in Session \ {s} : pc'[r] = pc[r]
    /\ pc'[s] = "idle" \/ sel'[s] = h

\* The part of the invariant about the copies of one harness.
Here(h) ==
    /\ Current(h)
    /\ keychain[h] # Blank
    /\ h \notin KeychainBacked => keychain[h] = NoFile

\* What a step of a lone process must show to preserve the invariant.
LEMMA StepSafe ==
    ASSUME SafeInv, TypeInv', NEW s \in Session, NEW h \in Harness, h = H(s),
           pc[s] # "idle", Elsewhere(s, h), Issued',
           h \in Protected => Here(h)' /\ (pc'[s] = "idle" \/ Locals(s)')
    PROVE  SafeInv'
<1>1. \A r \in Session \ {s} : pc'[r] = "idle"
  BY DEF SafeInv, Exclusive, At, Elsewhere
<1>2. Exclusive'  BY <1>1 DEF Exclusive, At
<1>3. CurrentAll'
  <2> SUFFICES ASSUME NEW g \in Protected
               PROVE  Here(g)'
    BY DEF CurrentAll, Here
  <2>1. CASE g = h  BY <2>1
  <2>2. CASE g # h
    <3>1. g \in Harness  BY HarnessAuthAssumption DEF Protected
    <3> QED  BY <2>2, <3>1 DEF SafeInv, CurrentAll, Current, Here, Elsewhere, Same
  <2> QED  BY <2>1, <2>2
<1>4. LocalsAll'
  <2> SUFFICES ASSUME NEW r \in Session, H(r)' \in Protected
               PROVE  Locals(r)'
    BY DEF LocalsAll
  <2>1. \A q \in Session : pc'[q] = "idle" => Locals(q)'
    BY DEF Locals, Folded, Steps
  <2>2. CASE r = s  BY <2>1, <2>2 DEF Elsewhere
  <2>3. CASE r # s  BY <1>1, <2>1, <2>3
  <2> QED  BY <2>2, <2>3
<1> QED  BY <1>2, <1>3, <1>4 DEF SafeInv, TypeInv, TypeOK

\* The types of those copies.
Typed(h) ==
    /\ Blank # NoFile /\ Blank \notin Token /\ NoFile \notin Token
    /\ store[h] \in Token \cup {NoFile, Blank}
    /\ agentFile[h] \in Token \cup {NoFile, Blank}
    /\ keychain[h] \in Token \cup {NoFile, Blank}

\* The invariant, spelled out for the process that takes the step.
LEMMA Before ==
    ASSUME SafeInv, TypeInv, NEW s \in Session, NEW h \in Protected, h = H(s)
    PROVE  Here(h) /\ Typed(h) /\ Locals(s)
BY HarnessAuthAssumption
   DEF SafeInv, CurrentAll, LocalsAll, Here, Typed, TypeInv, CopiesOK, Value,
       Protected

\* A filtered harness harvests exactly the tokens.
LEMMA ProtectedHarvest ==
    ASSUME NEW h \in Protected, NEW v
    PROVE  Harvestable(h, v) <=> v \in Token
BY DEF Protected, Harvestable

\* Only Begin starts from an idle process.
LEMMA Busy ==
    ASSUME NEW s \in Session,
           \/ Recovery(s) \/ Materialization(s) \/ Harvest(s)
           \/ Agent(s) \/ SessionExits(s) \/ Crash(s)
    PROVE  pc[s] # "idle"
BY DEF Recovery, Materialization, Harvest, Agent, SessionExits, Crash,
       Reconcile, FoldWrite, FoldClear, MigrateRead, MigrateDrop,
       MigrateArchive, MigrateStore, MigrateRemove, Launch, ProbeDone,
       SyncHost, MaterializeLoad, MaterializeFile, KeychainDelete,
       KeychainAdd, LaterArtifactFails, LaterStepFails, StartSession,
       HarvestRead, HarvestDrop, HarvestArchive, HarvestStore, HarvestRemove,
       HarvestPublish, AgentRotatesFile, AgentRotatesKeychain, AgentLogsOut

\* Recovery touches one harness and one process, and invents no token;
LEMMA RecoveryFrame ==
    ASSUME TypeInv, Issued, NEW s \in Session, NEW h \in Harness, h = H(s),
           Recovery(s)
    PROVE  Elsewhere(s, h) /\ Issued'
<1> USE DEF TypeInv, CopiesOK, ProcessesOK, Elsewhere, Same, Issued, Known
<1>1. CASE Reconcile(s)  BY <1>1 DEF Reconcile, Goto, GotoWith
<1>2. CASE FoldWrite(s)  BY <1>2 DEF FoldWrite, SpoilAgent, Goto
<1>3. CASE FoldClear(s)  BY <1>3 DEF FoldClear, Goto
<1>4. CASE MigrateRead(s)  BY <1>4 DEF MigrateRead, GotoWith
<1>5. CASE MigrateDrop(s)  BY <1>5 DEF MigrateDrop, Goto
<1>6. CASE MigrateArchive(s)  BY <1>6 DEF MigrateArchive, Goto
<1>7. CASE MigrateStore(s)
  BY <1>7 DEF MigrateStore, WriteStore, SpoilStore, Goto
<1>8. CASE MigrateRemove(s)  BY <1>8 DEF MigrateRemove, Goto
<1> QED  BY <1>1, <1>2, <1>3, <1>4, <1>5, <1>6, <1>7, <1>8 DEF Recovery

\* ... the launch does the same,
LEMMA MaterializationFrame ==
    ASSUME TypeInv, Issued, NEW s \in Session, NEW h \in Harness, h = H(s),
           Materialization(s)
    PROVE  Elsewhere(s, h) /\ Issued'
<1> USE DEF TypeInv, CopiesOK, ProcessesOK, Elsewhere, Same, Issued, Known
<1>1. CASE Launch(s)  BY <1>1 DEF Launch, Goto
<1>2. CASE ProbeDone(s)  BY <1>2 DEF ProbeDone, Goto
<1>3. CASE SyncHost(s)
  BY <1>3
  DEF SyncHost, WriteStore, WriteHost, SpoilStore, SpoilHost, Goto, Leave
<1>4. CASE MaterializeLoad(s)  BY <1>4 DEF MaterializeLoad
<1>5. CASE MaterializeFile(s)
  BY <1>5 DEF MaterializeFile, SpoilAgent, Goto, Leave
<1>6. CASE KeychainDelete(s)  BY <1>6 DEF KeychainDelete, Goto
<1>7. CASE KeychainAdd(s)  BY <1>7 DEF KeychainAdd, Goto, Leave
<1>8. CASE LaterArtifactFails(s)  BY <1>8 DEF LaterArtifactFails, Leave
<1>9. CASE LaterStepFails(s)  BY <1>9 DEF LaterStepFails, GotoHarvest
<1>10. CASE StartSession(s)  BY <1>10 DEF StartSession, Goto
<1> QED
  BY <1>1, <1>2, <1>3, <1>4, <1>5, <1>6, <1>7, <1>8, <1>9, <1>10
  DEF Materialization

\* ... and the harvest,
LEMMA HarvestFrame ==
    ASSUME TypeInv, Issued, NEW s \in Session, NEW h \in Harness, h = H(s),
           Harvest(s)
    PROVE  Elsewhere(s, h) /\ Issued'
<1> USE DEF TypeInv, CopiesOK, ProcessesOK, Elsewhere, Same, Issued, Known
<1>1. CASE HarvestRead(s)  BY <1>1 DEF HarvestRead, GotoWith, Leave
<1>2. CASE HarvestDrop(s)  BY <1>2 DEF HarvestDrop, Leave
<1>3. CASE HarvestArchive(s)  BY <1>3 DEF HarvestArchive, Goto, Leave
<1>4. CASE HarvestStore(s)
  BY <1>4 DEF HarvestStore, WriteStore, SpoilStore, Goto, Leave
<1>5. CASE HarvestRemove(s)  BY <1>5 DEF HarvestRemove, Goto
<1>6. CASE HarvestPublish(s)
  BY <1>6 DEF HarvestPublish, WriteHost, SpoilHost, Leave
<1> QED  BY <1>1, <1>2, <1>3, <1>4, <1>5, <1>6 DEF Harvest

\* ... and what happens in the session.
LEMMA OutsideFrame ==
    ASSUME TypeInv, Issued, NEW s \in Session, NEW h \in Harness, h = H(s),
           Agent(s) \/ SessionExits(s) \/ Crash(s)
    PROVE  Elsewhere(s, h) /\ Issued'
<1> USE DEF TypeInv, CopiesOK, ProcessesOK, Elsewhere, Same, Issued, Known
<1>1. ASSUME NEW t \in Token, AgentRotatesFile(s, t)
      PROVE  Elsewhere(s, h) /\ Issued'
  BY <1>1 DEF AgentRotatesFile, Issue
<1>2. ASSUME NEW t \in Token, AgentRotatesKeychain(s, t)
      PROVE  Elsewhere(s, h) /\ Issued'
  BY <1>2 DEF AgentRotatesKeychain, Issue
<1>3. CASE AgentLogsOut(s)  BY <1>3 DEF AgentLogsOut
<1>4. CASE SessionExits(s)  BY <1>4 DEF SessionExits, GotoHarvest
<1>5. CASE Crash(s)
  BY <1>5
  DEF Crash, WriteStore, WriteHost, SpoilStore, SpoilHost, SpoilAgent, Leave
<1> QED  BY <1>1, <1>2, <1>3, <1>4, <1>5 DEF Agent

\* Recovery moves the token from sink to sink and never drops the last copy.
LEMMA RecoverySafe ==
    ASSUME SafeInv, TypeInv, ReliableSinks, NEW s \in Session,
           NEW h \in Protected, h = H(s), Recovery(s)
    PROVE  Here(h)' /\ (pc'[s] = "idle" \/ Locals(s)')
<1>0. h \in Harness /\ Here(h) /\ Typed(h) /\ Locals(s)
  BY Before, HarnessAuthAssumption DEF Protected
<1> USE <1>0 DEF Typed
<1>1. CASE Reconcile(s)
  <2>1. /\ Same(h)
        /\ sel'[s] = h
        /\ \/ pc'[s] \in {"mRead", "hRead"} /\ keychain[h] = NoFile
           \/ pc'[s] = "foldClear" /\ agentFile[h] \in Token
           \/ /\ pc'[s] = "foldWrite" /\ data'[s] = keychain[h]
              /\ keychain[h] \in Token /\ agentFile[h] \notin Token
    BY <1>1, ProtectedHarvest
    DEF Reconcile, TypeInv, CopiesOK, ProcessesOK, Same, Here, AfterFold, Goto,
        GotoWith, ReliableSinks, May
  <2> QED  BY <2>1 DEF Here, Current, Locals, Folded, Steps, Same
<1>2. CASE FoldWrite(s)
  <2>1. /\ data[s] = keychain[h] /\ data[s] \in Token
        /\ agentFile[h] \notin Token
    BY <1>2 DEF FoldWrite, Locals, Folded, Steps
  <2>2. /\ store'[h] = store[h] /\ keychain'[h] = keychain[h]
        /\ conflicts'[h] = conflicts[h] /\ latest'[h] = latest[h]
        /\ agentFile'[h] = data[s]
        /\ sel'[s] = h /\ pc'[s] = "foldClear"
    BY <1>2, <2>1
    DEF FoldWrite, TypeInv, CopiesOK, ProcessesOK, AfterFold, Goto,
        ReliableSinks, May
  <2> QED  BY <2>1, <2>2 DEF Here, Current, Locals, Folded, Steps
<1>3. CASE FoldClear(s)
  <2>1. agentFile[h] \in Token
    BY <1>3 DEF FoldClear, Locals, Folded, Steps
  <2>2. /\ store'[h] = store[h] /\ agentFile'[h] = agentFile[h]
        /\ conflicts'[h] = conflicts[h] /\ latest'[h] = latest[h]
        /\ keychain'[h] = NoFile
        /\ sel'[s] = h /\ pc'[s] \in {"mRead", "hRead"}
    BY <1>3, <2>1
    DEF FoldClear, TypeInv, CopiesOK, ProcessesOK, AfterFold, Goto,
        ReliableSinks, May
  <2> QED  BY <2>1, <2>2 DEF Here, Current, Locals, Folded, Steps
<1>4. CASE MigrateRead(s)
  <2>1. keychain[h] = NoFile
    BY <1>4 DEF MigrateRead, Locals, Folded, Steps
  <2>2. /\ Same(h)
        /\ sel'[s] = h /\ data'[s] = agentFile[h]
        /\ \/ pc'[s] = "prepared"
           \/ pc'[s] = "mDrop" /\ agentFile[h] \notin Token
           \/ pc'[s] \in {"mStore", "mArchive"} /\ agentFile[h] \in Token
           \/ /\ pc'[s] = "mRemove" /\ agentFile[h] = store[h]
              /\ agentFile[h] \in Token
    BY <1>4, <2>1, ProtectedHarvest
    DEF MigrateRead, TypeInv, CopiesOK, ProcessesOK, Same, MigrateNext,
        GotoWith
  <2> QED  BY <2>1, <2>2 DEF Here, Current, Locals, Folded, Steps, Same
<1>5. CASE MigrateDrop(s)
  <2>1. keychain[h] = NoFile /\ agentFile[h] \notin Token
    BY <1>5 DEF MigrateDrop, Locals, Folded, Steps
  <2>2. /\ store'[h] = store[h] /\ keychain'[h] = keychain[h]
        /\ conflicts'[h] = conflicts[h] /\ latest'[h] = latest[h]
        /\ agentFile'[h] \in {NoFile, agentFile[h]}
        /\ sel'[s] = h /\ pc'[s] = "prepared"
    BY <1>5, <2>1 DEF MigrateDrop, TypeInv, CopiesOK, ProcessesOK, Goto
  <2> QED  BY <2>1, <2>2 DEF Here, Current, Locals, Folded, Steps
<1>6. CASE MigrateArchive(s)
  <2>1. keychain[h] = NoFile /\ data[s] = agentFile[h] /\ data[s] \in Token
    BY <1>6 DEF MigrateArchive, Locals, Folded, Steps
  <2>2. /\ store'[h] = store[h] /\ agentFile'[h] = agentFile[h]
        /\ keychain'[h] = keychain[h] /\ latest'[h] = latest[h]
        /\ conflicts[h] \subseteq conflicts'[h] /\ data'[s] = data[s]
        /\ sel'[s] = h /\ pc'[s] \in {"mStore", "prepared"}
    BY <1>6, <2>1 DEF MigrateArchive, TypeInv, CopiesOK, ProcessesOK, Goto
  <2> QED  BY <2>1, <2>2 DEF Here, Current, Locals, Folded, Steps
<1>7. CASE MigrateStore(s)
  <2>1. keychain[h] = NoFile /\ data[s] = agentFile[h] /\ data[s] \in Token
    BY <1>7 DEF MigrateStore, Locals, Folded, Steps
  <2>2. /\ agentFile'[h] = agentFile[h] /\ keychain'[h] = keychain[h]
        /\ conflicts'[h] = conflicts[h] /\ latest'[h] = latest[h]
        /\ sel'[s] = h
        /\ \/ store'[h] = data[s] /\ pc'[s] = "mRemove"
           \/ pc'[s] = "prepared"
    BY <1>7, <2>1
    DEF MigrateStore, TypeInv, CopiesOK, ProcessesOK, Goto, WriteStore,
        SpoilStore
  <2> QED  BY <2>1, <2>2 DEF Here, Current, Locals, Folded, Steps
<1>8. CASE MigrateRemove(s)
  <2>1. keychain[h] = NoFile /\ agentFile[h] = store[h] /\ store[h] \in Token
    BY <1>8 DEF MigrateRemove, Locals, Folded, Steps
  <2>2. /\ store'[h] = store[h] /\ keychain'[h] = keychain[h]
        /\ conflicts'[h] = conflicts[h] /\ latest'[h] = latest[h]
        /\ agentFile'[h] \in {NoFile, agentFile[h]}
        /\ sel'[s] = h /\ pc'[s] = "prepared"
    BY <1>8, <2>1 DEF MigrateRemove, TypeInv, CopiesOK, ProcessesOK, Goto
  <2> QED  BY <2>1, <2>2 DEF Here, Current, Locals, Folded, Steps
<1> QED  BY <1>1, <1>2, <1>3, <1>4, <1>5, <1>6, <1>7, <1>8 DEF Recovery

\* The launch only adds copies of what the store holds.
LEMMA MaterializationSafe ==
    ASSUME SafeInv, TypeInv, ReliableSinks, NEW s \in Session,
           NEW h \in Protected, h = H(s), Materialization(s)
    PROVE  Here(h)' /\ (pc'[s] = "idle" \/ Locals(s)')
<1>0. h \in Harness /\ Here(h) /\ Typed(h) /\ Locals(s)
  BY Before, HarnessAuthAssumption DEF Protected
<1> USE <1>0 DEF Typed
<1>1. CASE Launch(s)
  <2>1. keychain[h] = NoFile
    BY <1>1 DEF Launch, Locals, Folded, Steps
  <2>2. /\ Same(h)
        /\ sel'[s] = h /\ pc'[s] = "probe"
    BY <1>1, <2>1 DEF Launch, TypeInv, CopiesOK, ProcessesOK, Same, Goto
  <2> QED  BY <2>1, <2>2 DEF Here, Current, Locals, Folded, Steps, Same
<1>2. CASE ProbeDone(s)
  <2>1. keychain[h] = NoFile
    BY <1>2 DEF ProbeDone, Locals, Folded, Steps
  <2>2. /\ Same(h)
        /\ sel'[s] = h /\ pc'[s] = "sync"
    BY <1>2, <2>1 DEF ProbeDone, TypeInv, CopiesOK, ProcessesOK, Same, Goto
  <2> QED  BY <2>1, <2>2 DEF Here, Current, Locals, Folded, Steps, Same
<1>3. CASE SyncHost(s)
  <2>1. keychain[h] = NoFile
    BY <1>3 DEF SyncHost, Locals, Folded, Steps
  <2>2. /\ Same(h)
        /\ sel'[s] = h /\ pc'[s] = "load"
    BY <1>3, <2>1
    DEF SyncHost, TypeInv, CopiesOK, ProcessesOK, Same, Goto, Protected
  <2> QED  BY <2>1, <2>2 DEF Here, Current, Locals, Folded, Steps, Same
<1>4. CASE MaterializeLoad(s)
  <2>1. keychain[h] = NoFile /\ (prefer[s] => h \in KeychainBacked)
    BY <1>4 DEF MaterializeLoad, Locals, Folded, Steps, TypeInv, Selected
  <2>2. /\ Same(h)
        /\ sel'[s] = h /\ data'[s] = store[h] /\ base'[s] = store[h]
        /\ \/ pc'[s] = "ready"
           \/ /\ pc'[s] \in {"fileWrite", "kcDelete"}
              /\ agentFile[h] = NoFile /\ store[h] # NoFile
              /\ pc'[s] = "kcDelete" => h \in KeychainBacked
    BY <1>4, <2>1
    DEF MaterializeLoad, TypeInv, CopiesOK, ProcessesOK, Same, LoadNext,
        ReliableSinks, May
  <2> QED  BY <2>1, <2>2 DEF Here, Current, Locals, Folded, Steps, Same
<1>5. CASE MaterializeFile(s)
  <2>1. /\ keychain[h] = NoFile /\ agentFile[h] = NoFile
        /\ data[s] = store[h] /\ base[s] = store[h]
    BY <1>5 DEF MaterializeFile, Locals, Folded, Steps
  <2>2. /\ store'[h] = store[h] /\ keychain'[h] = keychain[h]
        /\ conflicts'[h] = conflicts[h] /\ latest'[h] = latest[h]
        /\ agentFile'[h] = data[s] /\ base'[s] = base[s]
        /\ sel'[s] = h /\ pc'[s] = "ready"
    BY <1>5, <2>1
    DEF MaterializeFile, TypeInv, CopiesOK, ProcessesOK, Goto, ReliableSinks,
        May
  <2> QED  BY <2>1, <2>2 DEF Here, Current, Locals, Folded, Steps
<1>6. CASE KeychainDelete(s)
  <2>1. /\ keychain[h] = NoFile /\ agentFile[h] = NoFile
        /\ data[s] = store[h] /\ data[s] # NoFile
        /\ base[s] = store[h] /\ h \in KeychainBacked
    BY <1>6 DEF KeychainDelete, Locals, Folded, Steps
  <2>2. /\ Same(h)
        /\ sel'[s] = h /\ data'[s] = data[s] /\ base'[s] = base[s]
        /\ \/ pc'[s] = "ready"
           \/ pc'[s] = "kcAdd" /\ data[s] # Blank
    BY <1>6, <2>1
    DEF KeychainDelete, TypeInv, CopiesOK, ProcessesOK, Same, Goto,
        ReliableSinks, May
  <2> QED  BY <2>1, <2>2 DEF Here, Current, Locals, Folded, Steps, Same
<1>7. CASE KeychainAdd(s)
  <2>1. /\ keychain[h] = NoFile /\ agentFile[h] = NoFile
        /\ data[s] = store[h] /\ data[s] \in Token
        /\ base[s] = store[h] /\ h \in KeychainBacked
    BY <1>7 DEF KeychainAdd, Locals, Folded, Steps
  <2>2. /\ store'[h] = store[h] /\ agentFile'[h] = agentFile[h]
        /\ conflicts'[h] = conflicts[h] /\ latest'[h] = latest[h]
        /\ \/ pc'[s] = "idle" /\ keychain'[h] = keychain[h]
           \/ /\ pc'[s] = "ready" /\ sel'[s] = h
              /\ keychain'[h] = data[s] /\ base'[s] = base[s]
    BY <1>7, <2>1 DEF KeychainAdd, TypeInv, CopiesOK, ProcessesOK, Goto, Leave
  <2> QED  BY <2>1, <2>2 DEF Here, Current, Locals, Folded, Steps
<1>8. CASE LaterArtifactFails(s)
  <2>1. /\ Same(h)
        /\ pc'[s] = "idle"
    BY <1>8 DEF LaterArtifactFails, TypeInv, CopiesOK, ProcessesOK, Same, Leave
  <2> QED  BY <2>1 DEF Here, Current, Locals, Folded, Steps, Same
<1>9. CASE LaterStepFails(s)
  <2>1. /\ Same(h)
        /\ sel'[s] = h /\ pc'[s] = "reconcile"
    BY <1>9
    DEF LaterStepFails, TypeInv, CopiesOK, ProcessesOK, Same, GotoHarvest
  <2> QED  BY <2>1 DEF Here, Current, Locals, Folded, Steps, Same
<1>10. CASE StartSession(s)
  <2>1. base[s] = store[h] /\ (agentFile[h] \in Token => keychain[h] = NoFile)
    BY <1>10 DEF StartSession, Locals, Folded, Steps
  <2>2. /\ Same(h)
        /\ base'[s] = base[s]
        /\ sel'[s] = h /\ pc'[s] = "running"
    BY <1>10, <2>1 DEF StartSession, TypeInv, CopiesOK, ProcessesOK, Same, Goto
  <2> QED  BY <2>1, <2>2 DEF Here, Current, Locals, Folded, Steps, Same
<1> QED
  BY <1>1, <1>2, <1>3, <1>4, <1>5, <1>6, <1>7, <1>8, <1>9, <1>10
  DEF Materialization

\* Harvest removes the agent file only when the store holds its content.
LEMMA HarvestSafe ==
    ASSUME SafeInv, TypeInv, ReliableSinks, NEW s \in Session,
           NEW h \in Protected, h = H(s), Harvest(s)
    PROVE  Here(h)' /\ (pc'[s] = "idle" \/ Locals(s)')
<1>0. h \in Harness /\ Here(h) /\ Typed(h) /\ Locals(s)
  BY Before, HarnessAuthAssumption DEF Protected
<1> USE <1>0 DEF Typed
<1>1. CASE HarvestRead(s)
  <2>1. keychain[h] = NoFile
    BY <1>1 DEF HarvestRead, Locals, Folded, Steps
  <2>2. /\ Same(h)
        /\ \/ pc'[s] = "idle"
           \/ /\ sel'[s] = h /\ data'[s] = agentFile[h]
              /\ \/ pc'[s] = "hDrop" /\ agentFile[h] \notin Token
                 \/ pc'[s] \in {"hStore", "hArchive"} /\ agentFile[h] \in Token
    BY <1>1, <2>1, ProtectedHarvest
    DEF HarvestRead, TypeInv, CopiesOK, ProcessesOK, Same, HarvestNext,
        GotoWith, Leave
  <2> QED  BY <2>1, <2>2 DEF Here, Current, Locals, Folded, Steps, Same
<1>2. CASE HarvestDrop(s)
  <2>1. keychain[h] = NoFile /\ agentFile[h] \notin Token
    BY <1>2 DEF HarvestDrop, Locals, Folded, Steps
  <2>2. /\ store'[h] = store[h] /\ keychain'[h] = keychain[h]
        /\ conflicts'[h] = conflicts[h] /\ latest'[h] = latest[h]
        /\ agentFile'[h] \in {NoFile, agentFile[h]} /\ pc'[s] = "idle"
    BY <1>2, <2>1 DEF HarvestDrop, TypeInv, CopiesOK, ProcessesOK, Leave
  <2> QED  BY <2>1, <2>2 DEF Here, Current, Locals, Folded, Steps
<1>3. CASE HarvestArchive(s)
  <2>1. keychain[h] = NoFile /\ data[s] = agentFile[h] /\ data[s] \in Token
    BY <1>3 DEF HarvestArchive, Locals, Folded, Steps
  <2>2. /\ store'[h] = store[h] /\ agentFile'[h] = agentFile[h]
        /\ keychain'[h] = keychain[h] /\ latest'[h] = latest[h]
        /\ conflicts[h] \subseteq conflicts'[h]
        /\ \/ pc'[s] = "idle"
           \/ pc'[s] = "hStore" /\ sel'[s] = h /\ data'[s] = data[s]
    BY <1>3, <2>1
    DEF HarvestArchive, TypeInv, CopiesOK, ProcessesOK, Goto, Leave
  <2> QED  BY <2>1, <2>2 DEF Here, Current, Locals, Folded, Steps
<1>4. CASE HarvestStore(s)
  <2>1. keychain[h] = NoFile /\ data[s] = agentFile[h] /\ data[s] \in Token
    BY <1>4 DEF HarvestStore, Locals, Folded, Steps
  <2>2. /\ agentFile'[h] = agentFile[h] /\ keychain'[h] = keychain[h]
        /\ conflicts'[h] = conflicts[h] /\ latest'[h] = latest[h]
        /\ \/ pc'[s] = "idle"
           \/ pc'[s] = "hRemove" /\ sel'[s] = h /\ store'[h] = data[s]
    BY <1>4, <2>1
    DEF HarvestStore, TypeInv, CopiesOK, ProcessesOK, Goto, Leave, WriteStore,
        SpoilStore
  <2> QED  BY <2>1, <2>2 DEF Here, Current, Locals, Folded, Steps
<1>5. CASE HarvestRemove(s)
  <2>1. keychain[h] = NoFile /\ agentFile[h] = store[h] /\ store[h] \in Token
    BY <1>5 DEF HarvestRemove, Locals, Folded, Steps
  <2>2. /\ store'[h] = store[h] /\ keychain'[h] = keychain[h]
        /\ conflicts'[h] = conflicts[h] /\ latest'[h] = latest[h]
        /\ agentFile'[h] \in {NoFile, agentFile[h]}
        /\ sel'[s] = h /\ pc'[s] = "hPublish"
    BY <1>5, <2>1 DEF HarvestRemove, TypeInv, CopiesOK, ProcessesOK, Goto
  <2> QED  BY <2>1, <2>2 DEF Here, Current, Locals, Folded, Steps
<1>6. CASE HarvestPublish(s)
  <2>1. /\ Same(h)
        /\ pc'[s] = "idle"
    BY <1>6 DEF HarvestPublish, TypeInv, CopiesOK, ProcessesOK, Same, Leave
  <2> QED  BY <2>1 DEF Here, Current, Locals, Folded, Steps, Same
<1> QED  BY <1>1, <1>2, <1>3, <1>4, <1>5, <1>6 DEF Harvest

\* A refresh supersedes the token; a logout or a crash leaves the store.
LEMMA OutsideSafe ==
    ASSUME SafeInv, TypeInv, ReliableSinks, NEW s \in Session,
           NEW h \in Protected, h = H(s), Agent(s) \/ SessionExits(s) \/ Crash(s)
    PROVE  Here(h)' /\ (pc'[s] = "idle" \/ Locals(s)')
<1>0. h \in Harness /\ Here(h) /\ Typed(h) /\ Locals(s)
  BY Before, HarnessAuthAssumption DEF Protected
<1> USE <1>0 DEF Typed
<1>1. ASSUME NEW t \in Token, AgentRotatesFile(s, t)
      PROVE  Here(h)' /\ (pc'[s] = "idle" \/ Locals(s)')
  <2>1. base[s] = store[h] /\ base[s] # t
    BY <1>1, HarnessAuthAssumption
    DEF AgentRotatesFile, Locals, Folded, Steps, SafeInv, Issued, Known, Issue
  <2>2. /\ store'[h] = store[h] /\ keychain'[h] = keychain[h]
        /\ conflicts'[h] = conflicts[h]
        /\ agentFile'[h] = t /\ latest'[h] = t /\ base'[s] = base[s]
        /\ sel'[s] = h /\ pc'[s] = "running"
    BY <1>1, <2>1 DEF AgentRotatesFile, TypeInv, CopiesOK, ProcessesOK, Issue
  <2> QED  BY <2>1, <2>2 DEF Here, Current, Locals, Folded, Steps
<1>2. ASSUME NEW t \in Token, AgentRotatesKeychain(s, t)
      PROVE  Here(h)' /\ (pc'[s] = "idle" \/ Locals(s)')
  <2>1. base[s] = store[h] /\ h \in KeychainBacked
    BY <1>2, HarnessAuthAssumption
    DEF AgentRotatesKeychain, Locals, Folded, Steps, TypeInv, Selected
  <2>2. /\ store'[h] = store[h] /\ conflicts'[h] = conflicts[h]
        /\ agentFile'[h] \in {NoFile, Blank} /\ base'[s] = base[s]
        /\ keychain'[h] = t /\ latest'[h] = t
        /\ sel'[s] = h /\ pc'[s] = "running"
    BY <1>2, <2>1
    DEF AgentRotatesKeychain, TypeInv, CopiesOK, ProcessesOK, Issue
  <2> QED  BY <2>1, <2>2 DEF Here, Current, Locals, Folded, Steps
<1>3. CASE AgentLogsOut(s)
  <2>1. /\ base[s] = store[h]
        /\ agentFile[h] \in Token /\ agentFile[h] = base[s]
             => keychain[h] = NoFile
    BY <1>3 DEF AgentLogsOut, Locals, Folded, Steps
  <2>2. /\ store'[h] = store[h] /\ keychain'[h] = keychain[h]
        /\ conflicts'[h] = conflicts[h] /\ latest'[h] = latest[h]
        /\ agentFile[h] = base[s] /\ agentFile[h] \in Token
        /\ agentFile'[h] \in {Blank, NoFile} /\ base'[s] = base[s]
        /\ sel'[s] = h /\ pc'[s] = "running"
    BY <1>3, <2>1 DEF AgentLogsOut, TypeInv, CopiesOK, ProcessesOK
  <2> QED  BY <2>1, <2>2 DEF Here, Current, Locals, Folded, Steps
<1>4. CASE SessionExits(s)
  <2>1. /\ Same(h)
        /\ sel'[s] = h /\ pc'[s] = "reconcile"
    BY <1>4 DEF SessionExits, TypeInv, CopiesOK, ProcessesOK, Same, GotoHarvest
  <2> QED  BY <2>1 DEF Here, Current, Locals, Folded, Steps, Same
<1>5. CASE Crash(s)
  <2>1. /\ pc[s] \in {"mStore", "hStore"} => agentFile[h] \in Token
        /\ pc[s] \in {"foldWrite", "fileWrite"} => agentFile[h] \notin Token
    BY <1>5 DEF Crash, Locals, Folded, Steps
  <2>2. /\ keychain'[h] = keychain[h] /\ conflicts'[h] = conflicts[h]
        /\ latest'[h] = latest[h]
        /\ pc'[s] = "idle"
        /\ \/ store'[h] = store[h] /\ agentFile'[h] = agentFile[h]
           \/ agentFile'[h] = agentFile[h] /\ agentFile[h] \in Token
           \/ /\ store'[h] = store[h] /\ agentFile'[h] \in {agentFile[h], Blank}
              /\ agentFile[h] \notin Token
    <3>1. h \notin HostSided  BY DEF Protected
    <3>2. SpoilAgent(h) => agentFile'[h] \in {agentFile[h], Blank}
      BY DEF SpoilAgent, TypeInv, CopiesOK
    <3>3. /\ pc'[s] = "idle" /\ keychain' = keychain
          /\ conflicts' = conflicts /\ latest' = latest
      BY <1>5 DEF Crash, Leave, TypeInv, ProcessesOK
    <3>4. \/ store' = store /\ agentFile' = agentFile
          \/ /\ pc[s] \in {"mStore", "hStore"}
             /\ agentFile' = agentFile
          \/ /\ pc[s] \in {"foldWrite", "fileWrite"}
             /\ agentFile'[h] \in {agentFile[h], Blank} /\ store' = store
      BY <1>5, <3>1, <3>2 DEF Crash
    <3> QED  BY <2>1, <3>3, <3>4
  <2> QED  BY <2>1, <2>2 DEF Here, Current, Locals, Folded, Steps
<1> QED  BY <1>1, <1>2, <1>3, <1>4, <1>5 DEF Agent

\* A new process knows nothing yet.
LEMMA BeginSafe ==
    ASSUME SafeInv, TypeInv, TypeInv', ReliableSinks, NEW s \in Session,
           NEW h \in Harness, NEW p \in BOOLEAN, Begin(s, h, p)
    PROVE  SafeInv'
<1>1. /\ \A r \in Session : pc[r] = "idle"
      /\ \A r \in Session \ {s} : pc'[r] = "idle"
      /\ pc'[s] = "reconcile"
  BY DEF Begin, ReliableSinks, At, TypeInv, ProcessesOK
<1>2. Exclusive'  BY <1>1 DEF Exclusive, At
<1>3. Issued' /\ CurrentAll'
  BY DEF Begin, SafeInv, Issued, Known, CurrentAll, Current, files, issue
<1>4. LocalsAll'
  BY <1>1 DEF LocalsAll, Locals, Folded, Steps
<1> QED  BY <1>2, <1>3, <1>4 DEF SafeInv, TypeInv, TypeOK

\* A login of the host user touches only harnesses with a host copy.
LEMMA HostLoginSafe ==
    ASSUME SafeInv, TypeInv, TypeInv', NEW h \in Harness, NEW t \in Token,
           HostLogin(h, t)
    PROVE  SafeInv'
<1>1. Issued'
  BY DEF HostLogin, WriteHost, Issue, SafeInv, Issued, Known, TypeInv,
         CopiesOK, locals
<1>2. CurrentAll'
  <2> SUFFICES ASSUME NEW g \in Protected  PROVE Here(g)'
    BY DEF CurrentAll, Here
  <2>1. g \in Harness /\ g # h
    BY HarnessAuthAssumption DEF Protected, HostLogin
  <2> QED
    BY <2>1 DEF SafeInv, CurrentAll, Current, Here, HostLogin, Issue, TypeInv,
                CopiesOK
<1>3. Exclusive' /\ LocalsAll'
  BY DEF HostLogin, SafeInv, Exclusive, LocalsAll, Locals, At, H, locals
<1> QED  BY <1>1, <1>2, <1>3 DEF SafeInv, TypeInv, TypeOK

\* Nothing is issued before the first launch.
LEMMA SafeInit == Init => SafeInv
<1> SUFFICES ASSUME Init  PROVE SafeInv
  OBVIOUS
<1>1. TypeOK /\ Selected  BY TypeInit DEF TypeInv, TypeOK
<1>2. Exclusive /\ LocalsAll
  BY DEF Init, Exclusive, LocalsAll, Locals, Folded, Steps, At
<1>3. Issued  BY DEF Init, Issued, Known
<1>4. CurrentAll
  BY HarnessAuthAssumption DEF Init, CurrentAll, Current, Protected
<1> QED  BY <1>1, <1>2, <1>3, <1>4 DEF SafeInv

\* The invariant is inductive.
LEMMA SafeNext ==
    ASSUME SafeInv, ReliableSinks, [Next]_vars
    PROVE  SafeInv'
<1>1. TypeInv  BY DEF SafeInv, TypeInv, TypeOK
<1>2. TypeInv'  BY <1>1, TypeNext
<1>3. CASE UNCHANGED vars
  BY <1>3 DEF vars, SafeInv, TypeOK, CopiesOK, ProcessesOK, Exclusive, Selected,
              Issued, Known, CurrentAll, Current, LocalsAll, Locals, At, H
<1>4. ASSUME NEW s \in Session,
             \/ Recovery(s) \/ Materialization(s) \/ Harvest(s)
             \/ Agent(s) \/ SessionExits(s) \/ Crash(s)
      PROVE  SafeInv'
  <2>1. pc[s] # "idle"  BY <1>4, Busy
  <2>2. PICK h \in Harness : h = H(s)  BY <1>1, <2>1, AtWork
  <2>3. Elsewhere(s, h) /\ Issued'
    BY <1>1, <1>4, <2>2, RecoveryFrame, MaterializationFrame, HarvestFrame,
       OutsideFrame DEF SafeInv
  <2>4. h \in Protected => Here(h)' /\ (pc'[s] = "idle" \/ Locals(s)')
    BY <1>1, <1>4, <2>2, RecoverySafe, MaterializationSafe, HarvestSafe,
       OutsideSafe
  <2> QED  BY <1>2, <2>1, <2>2, <2>3, <2>4, StepSafe
<1> QED  BY <1>1, <1>2, <1>3, <1>4, BeginSafe, HostLoginSafe DEF Next

\* For every instance in which processes do not overlap and agent-side writes
\* and keychain reads and deletions succeed, no interleaving of crashes, torn
\* or failed store writes, failed archives, failed removals and abandoned
\* launches loses the credential a filtered harness was issued last.
THEOREM FilteredLatestNeverLost ==
    ASSUME ReliableSinks
    PROVE  Spec => []FilteredLatestKept
<1>1. SafeInv /\ [Next]_vars => SafeInv'  BY SafeNext
<1>2. SafeInv => FilteredLatestKept
  BY DEF SafeInv, CurrentAll, Current, FilteredLatestKept, Kept, Protected
<1> QED  BY SafeInit, <1>1, <1>2, PTL DEF Spec

-----------------------------------------------------------------------------
(* RecoveredStateHostOwned: what recovery leaves, on top of SafeInv.       *)

\* Only the drop, the removal and a missing file lead to the launch; and the
\* launch changes the agent file last.
LEMMA RecoveredStep ==
    ASSUME RecoveredInv, TypeInv, ReliableRecovery,
           NEW s \in Session, NEW h \in Protected, h = H(s), h \in Harness,
           \/ Recovery(s) \/ Materialization(s) \/ Harvest(s)
           \/ Agent(s) \/ SessionExits(s) \/ Crash(s),
           pc'[s] \in {"prepared", "probe", "sync", "load"}
    PROVE  agentFile'[h] = NoFile
<1> USE DEF TypeInv, CopiesOK, ProcessesOK, RecoveredInv, ReliableRecovery,
            ReliableSinks, May
<1>1. CASE Recovery(s)
  BY <1>1
  DEF Recovery, Reconcile, FoldWrite, FoldClear, MigrateRead, MigrateDrop,
      MigrateArchive, MigrateStore, MigrateRemove, MigrateNext, AfterFold, Goto,
      GotoWith
<1>2. CASE Materialization(s)
  BY <1>2
  DEF Materialization, Launch, ProbeDone, SyncHost, MaterializeLoad, LoadNext,
      MaterializeFile, KeychainDelete, KeychainAdd, LaterArtifactFails,
      LaterStepFails, StartSession, Goto, GotoHarvest, Leave
<1>3. CASE Harvest(s)
  BY <1>3
  DEF Harvest, HarvestRead, HarvestDrop, HarvestArchive, HarvestStore,
      HarvestRemove, HarvestPublish, HarvestNext, Goto, GotoWith, Leave
<1>4. CASE Agent(s)
  BY <1>4 DEF Agent, AgentRotatesFile, AgentRotatesKeychain, AgentLogsOut
<1>5. CASE SessionExits(s) \/ Crash(s)
  BY <1>5 DEF SessionExits, Crash, GotoHarvest, Leave
<1> QED  BY <1>1, <1>2, <1>3, <1>4, <1>5

\* The invariant is inductive.
LEMMA RecoveredNext ==
    ASSUME RecoveredInv, ReliableRecovery, [Next]_vars
    PROVE  RecoveredInv'
<1> DEFINE After == {"prepared", "probe", "sync", "load"}
<1>1. TypeInv  BY DEF RecoveredInv, SafeInv, TypeInv, TypeOK
<1>2. TypeInv' /\ SafeInv'
  BY <1>1, TypeNext, SafeNext DEF RecoveredInv, ReliableRecovery
<1>3. SUFFICES ASSUME NEW r \in Session, sel'[r] \in Protected, pc'[r] \in After
               PROVE  agentFile'[sel'[r]] = NoFile
  BY <1>2 DEF RecoveredInv
<1>4. CASE UNCHANGED vars
  BY <1>3, <1>4 DEF vars, RecoveredInv
<1>5. ASSUME NEW s \in Session,
             \/ Recovery(s) \/ Materialization(s) \/ Harvest(s)
             \/ Agent(s) \/ SessionExits(s) \/ Crash(s)
      PROVE  agentFile'[sel'[r]] = NoFile
  <2>1. pc[s] # "idle"  BY <1>5, Busy
  <2>2. PICK h \in Harness : h = H(s)  BY <1>1, <2>1, AtWork
  <2>3. Elsewhere(s, h)
    BY <1>1, <1>5, <2>2, RecoveryFrame, MaterializationFrame, HarvestFrame,
       OutsideFrame DEF RecoveredInv, SafeInv
  <2>4. r = s
    BY <1>3, <2>1, <2>3
    DEF RecoveredInv, SafeInv, Exclusive, Elsewhere
  <2>5. sel'[s] = h  BY <1>3, <2>3, <2>4 DEF Elsewhere
  <2> QED  BY <1>1, <1>3, <1>5, <2>2, <2>4, <2>5, RecoveredStep
<1>6. ASSUME NEW s \in Session, NEW h \in Harness, NEW p \in BOOLEAN,
             Begin(s, h, p)
      PROVE  agentFile'[sel'[r]] = NoFile
  <2>1. \A q \in Session : pc'[q] \notin After
    BY <1>1, <1>6 DEF Begin, ReliableRecovery, ReliableSinks, TypeInv, ProcessesOK
  <2> QED  BY <1>3, <2>1
<1>7. ASSUME NEW h \in Harness, NEW t \in Token, HostLogin(h, t)
      PROVE  agentFile'[sel'[r]] = NoFile
  BY <1>3, <1>7 DEF HostLogin, RecoveredInv
<1> QED  BY <1>4, <1>5, <1>6, <1>7 DEF Next

\* When removals and store writes succeed, no sequence of crashes, torn writes
\* and abandoned launches leaves a credential of a protected harness on the
\* agent's side while its binary is probed outside the sandbox, and the latest
\* token is then the host's.
THEOREM RecoveredStateIsHostOwned ==
    ASSUME ReliableRecovery
    PROVE  Spec => []RecoveredStateHostOwned
<1>1. Init => RecoveredInv
  BY SafeInit DEF RecoveredInv, Init
<1>2. RecoveredInv /\ [Next]_vars => RecoveredInv'  BY RecoveredNext
<1>3. RecoveredInv => RecoveredStateHostOwned
  <2> SUFFICES ASSUME RecoveredInv, NEW s \in Session, H(s) \in Protected,
                      pc[s] \in {"prepared", "probe", "sync", "load"}
               PROVE  /\ agentFile[H(s)] = NoFile
                      /\ keychain[H(s)] = NoFile
                      /\ latest[H(s)] \in {NoFile, store[H(s)]}
                                            \cup conflicts[H(s)]
    BY DEF RecoveredStateHostOwned
  <2>1. agentFile[H(s)] = NoFile  BY DEF RecoveredInv
  <2>2. keychain[H(s)] = NoFile
    BY DEF RecoveredInv, SafeInv, LocalsAll, Locals, Folded, Steps
  <2>3. Current(H(s))  BY DEF RecoveredInv, SafeInv, CurrentAll
  <2> QED  BY <2>1, <2>2, <2>3, HarnessAuthAssumption DEF Current
<1> QED  BY <1>1, <1>2, <1>3, PTL DEF Spec

-----------------------------------------------------------------------------
(* LoggedOutNeverPromoted, for processes that overlap as they like.        *)

\* What a process that is to write the store has in hand.
InHand(s) ==
    H(s) \in FiltersBlank /\ pc[s] \in {"mArchive", "mStore", "hArchive", "hStore"}
       => data[s] \in Token

\* Only the reads put content in hand, and they look at it first.
LEMMA InHandStep ==
    ASSUME TypeInv, NEW s \in Session, InHand(s),
           \/ Recovery(s) \/ Materialization(s) \/ Harvest(s)
           \/ Agent(s) \/ SessionExits(s) \/ Crash(s)
    PROVE  InHand(s)'
<1> USE DEF TypeInv, ProcessesOK, InHand
<1>1. CASE Recovery(s)
  <2>1. CASE MigrateRead(s)
    BY <2>1 DEF MigrateRead, MigrateNext, Harvestable, GotoWith
  <2> QED
    BY <1>1, <2>1
    DEF Recovery, Reconcile, FoldWrite, FoldClear, MigrateDrop, MigrateArchive,
        MigrateStore, MigrateRemove, AfterFold, Goto, GotoWith
<1>2. CASE Materialization(s)
  BY <1>2
  DEF Materialization, Launch, ProbeDone, SyncHost, MaterializeLoad, LoadNext,
      MaterializeFile, KeychainDelete, KeychainAdd, LaterArtifactFails,
      LaterStepFails, StartSession, Goto, GotoHarvest, Leave
<1>3. CASE Harvest(s)
  <2>1. CASE HarvestRead(s)
    BY <2>1 DEF HarvestRead, HarvestNext, Harvestable, GotoWith, Leave
  <2> QED
    BY <1>3, <2>1
    DEF Harvest, HarvestDrop, HarvestArchive, HarvestStore, HarvestRemove,
        HarvestPublish, Goto, Leave
<1>4. CASE Agent(s)
  BY <1>4 DEF Agent, AgentRotatesFile, AgentRotatesKeychain, AgentLogsOut
<1>5. CASE SessionExits(s) \/ Crash(s)
  BY <1>5 DEF SessionExits, Crash, GotoHarvest, Leave
<1> QED  BY <1>1, <1>2, <1>3, <1>4, <1>5

\* A process changes its own locals only.
LEMMA OwnLocals ==
    ASSUME TypeInv, NEW s \in Session,
           \/ Recovery(s) \/ Materialization(s) \/ Harvest(s)
           \/ Agent(s) \/ SessionExits(s) \/ Crash(s),
           NEW r \in Session \ {s}
    PROVE  /\ pc'[r] = pc[r] /\ sel'[r] = sel[r] /\ phase'[r] = phase[r]
           /\ data'[r] = data[r] /\ seen'[r] = seen[r] /\ base'[r] = base[r]
<1> USE DEF TypeInv, ProcessesOK, Goto, GotoWith, GotoHarvest, Leave
<1>1. CASE Recovery(s)
  BY <1>1
  DEF Recovery, Reconcile, FoldWrite, FoldClear, MigrateRead, MigrateDrop,
      MigrateArchive, MigrateStore, MigrateRemove
<1>2. CASE Materialization(s)
  BY <1>2
  DEF Materialization, Launch, ProbeDone, SyncHost, MaterializeLoad,
      MaterializeFile, KeychainDelete, KeychainAdd, LaterArtifactFails,
      LaterStepFails, StartSession
<1>3. CASE Harvest(s)
  BY <1>3
  DEF Harvest, HarvestRead, HarvestDrop, HarvestArchive, HarvestStore,
      HarvestRemove, HarvestPublish
<1>4. CASE Agent(s)
  BY <1>4 DEF Agent, AgentRotatesFile, AgentRotatesKeychain, AgentLogsOut
<1>5. CASE SessionExits(s) \/ Crash(s)
  BY <1>5 DEF SessionExits, Crash
<1> QED  BY <1>1, <1>2, <1>3, <1>4, <1>5

\* The invariant is inductive.
LEMMA PromotesNext ==
    ASSUME TypeInv, PromotesTokens, [Next]_vars
    PROVE  PromotesTokens'
<1> SUFFICES ASSUME NEW r \in Session  PROVE InHand(r)'
  BY DEF PromotesTokens, InHand
<1>1. InHand(r)  BY DEF PromotesTokens, InHand
<1>2. CASE UNCHANGED vars  BY <1>1, <1>2 DEF vars, InHand
<1>3. ASSUME NEW s \in Session,
             \/ Recovery(s) \/ Materialization(s) \/ Harvest(s)
             \/ Agent(s) \/ SessionExits(s) \/ Crash(s)
      PROVE  InHand(r)'
  <2>1. CASE r = s  BY <1>1, <1>3, <2>1, InHandStep
  <2>2. CASE r # s
    <3>1. pc'[r] = pc[r] /\ sel'[r] = sel[r] /\ data'[r] = data[r]
      BY <1>3, <2>2, OwnLocals
    <3> QED  BY <1>1, <3>1 DEF InHand
  <2> QED  BY <2>1, <2>2
<1>4. ASSUME NEW s \in Session, NEW h \in Harness, NEW p \in BOOLEAN,
             Begin(s, h, p)
      PROVE  InHand(r)'
  BY <1>1, <1>4 DEF Begin, InHand, TypeInv, ProcessesOK
<1>5. ASSUME NEW h \in Harness, NEW t \in Token, HostLogin(h, t)
      PROVE  InHand(r)'
  BY <1>1, <1>5 DEF HostLogin, InHand
<1> QED  BY <1>2, <1>3, <1>4, <1>5 DEF Next

\* The stores that a step of a process changes are its own harness's, and only
\* these steps change it.
LEMMA StoreChanges ==
    ASSUME TypeInv, [Next]_vars, NEW h \in Harness, store'[h] # store[h]
    PROVE  \E s \in Session :
              /\ H(s) = h
              /\ \/ MigrateStore(s) \/ HarvestStore(s) \/ SyncHost(s)
                 \/ /\ Crash(s) /\ SpoilStore(h)
                    /\ \/ pc[s] \in {"mStore", "hStore"}
                       \/ At(s, "sync") /\ "toStore" \in SyncChoices(h)
<1> USE DEF TypeInv, CopiesOK
<1>1. ~UNCHANGED vars  BY DEF vars
<1>2. PICK s \in Session : MigrateStore(s) \/ HarvestStore(s) \/ SyncHost(s)
                           \/ Crash(s)
  BY <1>1
  DEF Next, Recovery, Materialization, Harvest, Agent, Begin, Reconcile,
      FoldWrite, FoldClear, MigrateRead, MigrateDrop, MigrateArchive,
      MigrateRemove, Launch, ProbeDone, MaterializeLoad, MaterializeFile,
      KeychainDelete, KeychainAdd, LaterArtifactFails, LaterStepFails,
      StartSession, HarvestRead, HarvestDrop, HarvestArchive, HarvestRemove,
      HarvestPublish, AgentRotatesFile, AgentRotatesKeychain, AgentLogsOut,
      SessionExits, HostLogin
<1>3. CASE MigrateStore(s)
  BY <1>3 DEF MigrateStore, WriteStore, SpoilStore
<1>4. CASE HarvestStore(s)
  BY <1>4 DEF HarvestStore, WriteStore, SpoilStore
<1>5. CASE SyncHost(s)
  BY <1>5 DEF SyncHost, WriteStore, SpoilStore
<1>6. CASE Crash(s)
  <2>1. /\ SpoilStore(H(s))
        /\ \/ pc[s] \in {"mStore", "hStore"}
           \/ At(s, "sync") /\ "toStore" \in SyncChoices(H(s))
    BY <1>6 DEF Crash
  <2>2. H(s) = h  BY <2>1 DEF SpoilStore, WriteStore
  <2> QED  BY <1>6, <2>1, <2>2
<1> QED  BY <1>2, <1>3, <1>4, <1>5, <1>6

\* The launch sync writes the store only from a host copy worth keeping, and
\* over a stored credential only if the copy is strictly newer.
LEMMA SyncToStore ==
    ASSUME NEW h \in Harness, "toStore" \in SyncChoices(h)
    PROVE  /\ Harvestable(h, hostCopy[h])
           /\ store[h] # NoFile => order[h] = "host" /\ hostCopy[h] # store[h]
<1> DEFINE Choices(ok) ==
        IF store[h] = NoFile
          THEN IF ok THEN {"toStore"} ELSE {"none"}
        ELSE IF ~ok THEN {"toHost"}
        ELSE IF store[h] = hostCopy[h] THEN {"none"}
        ELSE (IF order[h] = "host" THEN {"toStore"}
              ELSE IF order[h] = "store" THEN {"toHost"} ELSE {"refuse"})
             \cup (IF h \in HostKeychain /\ May("hostRead")
                     THEN {"refuse"} ELSE {})
<1>1. PICK ok \in HostSeen(h) : "toStore" \in Choices(ok)
  <2>1. SyncChoices(h) = UNION {Choices(ok) : ok \in HostSeen(h)}
    BY DEF SyncChoices
  <2> HIDE DEF Choices
  <2> QED  BY <2>1
<1>2. ok  BY <1>1
<1>3. Harvestable(h, hostCopy[h])  BY <1>1, <1>2 DEF HostSeen
<1> QED  BY <1>1, <1>2, <1>3

\* As long as no write is torn, processes of a filtered harness may overlap,
\* crash and fail in any way: none of them puts the logged-out object in place
\* of a stored token.
THEOREM LoggedOutIsNotPromoted ==
    ASSUME "torn" \notin Faults
    PROVE  Spec => LoggedOutNeverPromoted
<1> DEFINE Stays == \A h \in FiltersBlank : store'[h] = Blank => store[h] = Blank
<1>1. Init => TypeInv /\ PromotesTokens
  BY TypeInit DEF Init, PromotesTokens
<1>2. TypeInv /\ PromotesTokens /\ [Next]_vars => (TypeInv /\ PromotesTokens)'
  BY TypeNext, PromotesNext
<1>3. TypeInv /\ PromotesTokens /\ [Next]_vars => Stays
  <2> SUFFICES ASSUME TypeInv, PromotesTokens, [Next]_vars,
                      NEW h \in FiltersBlank, store'[h] = Blank, store[h] # Blank
               PROVE  FALSE
    OBVIOUS
  <2>1. h \in Harness  BY HarnessAuthAssumption
  <2>2. PICK s \in Session :
           /\ H(s) = h
           /\ \/ MigrateStore(s) \/ HarvestStore(s) \/ SyncHost(s)
              \/ Crash(s) /\ SpoilStore(h)
    BY <2>1, StoreChanges
  <2>3. SpoilStore(h) => store' = store  BY DEF SpoilStore, May
  <2>4. CASE MigrateStore(s) \/ HarvestStore(s)
    <3>1. store'[h] \in {data[s], store[h]}
      BY <2>1, <2>2, <2>3, <2>4
      DEF MigrateStore, HarvestStore, WriteStore, TypeInv, CopiesOK
    <3>2. data[s] \in Token
      BY <2>2, <2>4 DEF MigrateStore, HarvestStore, PromotesTokens
    <3> QED  BY <3>1, <3>2, HarnessAuthAssumption
  <2>5. CASE SyncHost(s)
    <3>1. hostCopy[h] \in Token
      BY <2>1, <2>2, <2>3, <2>5, SyncToStore DEF SyncHost, Harvestable
    <3>2. store'[h] \in {hostCopy[h], store[h]}
      BY <2>1, <2>2, <2>3, <2>5
      DEF SyncHost, WriteStore, TypeInv, CopiesOK
    <3> QED  BY <3>1, <3>2, HarnessAuthAssumption
  <2> QED  BY <2>2, <2>3, <2>4, <2>5
<1> QED  BY <1>1, <1>2, <1>3, PTL DEF Spec, LoggedOutNeverPromoted

-----------------------------------------------------------------------------
(* DivergenceArchived, for processes that take turns.                      *)

\* A step of the process that works keeps what it knows of its store.
LEMMA CourseStep ==
    ASSUME CopiesOK, ProcessesOK, NEW s \in Session, NEW h \in Harness,
           h = H(s), Course(s), pc[s] # "idle",
           \/ Recovery(s) \/ Materialization(s) \/ Harvest(s)
           \/ Agent(s) \/ SessionExits(s) \/ Crash(s)
    PROVE  Course(s)'
<1> USE DEF CopiesOK, ProcessesOK, Course, Folding
<1>1. CASE Recovery(s)
  <2> USE DEF Goto, GotoWith, AfterFold
  <2>1. CASE Reconcile(s)  BY <2>1 DEF Reconcile
  <2>2. CASE FoldWrite(s)  BY <2>2 DEF FoldWrite
  <2>3. CASE FoldClear(s)  BY <2>3 DEF FoldClear
  <2>4. CASE MigrateRead(s)  BY <2>4 DEF MigrateRead, MigrateNext
  <2>5. CASE MigrateDrop(s)  BY <2>5 DEF MigrateDrop
  <2>6. CASE MigrateArchive(s)  BY <2>6 DEF MigrateArchive
  <2>7. CASE MigrateStore(s)  BY <2>7 DEF MigrateStore
  <2>8. CASE MigrateRemove(s)  BY <2>8 DEF MigrateRemove
  <2> QED
    BY <1>1, <2>1, <2>2, <2>3, <2>4, <2>5, <2>6, <2>7, <2>8 DEF Recovery
<1>2. CASE Materialization(s)
  <2> USE DEF Goto, GotoHarvest, Leave
  <2>1. CASE SyncHost(s)  BY <2>1 DEF SyncHost
  <2>2. CASE MaterializeLoad(s)  BY <2>2 DEF MaterializeLoad, LoadNext
  <2>3. CASE MaterializeFile(s) \/ KeychainDelete(s) \/ KeychainAdd(s)
    BY <2>3 DEF MaterializeFile, KeychainDelete, KeychainAdd
  <2>4. CASE Launch(s) \/ ProbeDone(s) \/ LaterArtifactFails(s)
             \/ LaterStepFails(s) \/ StartSession(s)
    BY <2>4
    DEF Launch, ProbeDone, LaterArtifactFails, LaterStepFails, StartSession
  <2> QED  BY <1>2, <2>1, <2>2, <2>3, <2>4 DEF Materialization
<1>3. CASE Harvest(s)
  <2> USE DEF Goto, GotoWith, Leave
  <2>1. CASE HarvestRead(s)  BY <2>1 DEF HarvestRead, HarvestNext
  <2>2. CASE HarvestDrop(s)  BY <2>2 DEF HarvestDrop
  <2>3. CASE HarvestArchive(s)  BY <2>3 DEF HarvestArchive
  <2>4. CASE HarvestStore(s)  BY <2>4 DEF HarvestStore
  <2>5. CASE HarvestRemove(s) \/ HarvestPublish(s)
    BY <2>5 DEF HarvestRemove, HarvestPublish
  <2> QED  BY <1>3, <2>1, <2>2, <2>3, <2>4, <2>5 DEF Harvest
<1>4. CASE Agent(s)
  BY <1>4 DEF Agent, AgentRotatesFile, AgentRotatesKeychain, AgentLogsOut
<1>5. CASE SessionExits(s) \/ Crash(s)
  BY <1>5 DEF SessionExits, Crash, GotoHarvest, Leave
<1> QED  BY <1>1, <1>2, <1>3, <1>4, <1>5

\* One process at a time stays one process at a time.
LEMMA AloneNext ==
    ASSUME ProcessesOK, Exclusive, Selected, CopiesOK, ~Overlap, [Next]_vars
    PROVE  Exclusive'
<1>0. TypeInv  BY DEF TypeInv
<1>1. CASE UNCHANGED vars  BY <1>1 DEF vars, Exclusive
<1>2. ASSUME NEW s \in Session,
             \/ Recovery(s) \/ Materialization(s) \/ Harvest(s)
             \/ Agent(s) \/ SessionExits(s) \/ Crash(s)
      PROVE  Exclusive'
  <2>1. pc[s] # "idle"  BY <1>2, Busy
  <2>2. \A r \in Session \ {s} : pc'[r] = "idle"
    BY <1>0, <1>2, <2>1, OwnLocals DEF Exclusive
  <2> QED  BY <2>2 DEF Exclusive
<1>3. ASSUME NEW s \in Session, NEW h \in Harness, NEW p \in BOOLEAN,
             Begin(s, h, p)
      PROVE  Exclusive'
  BY <1>3 DEF Begin, Exclusive, ProcessesOK
<1>4. ASSUME NEW h \in Harness, NEW t \in Token, HostLogin(h, t)
      PROVE  Exclusive'
  BY <1>4 DEF HostLogin, Exclusive
<1> QED  BY <1>1, <1>2, <1>3, <1>4 DEF Next

\* The invariant is inductive.
LEMMA CourseNext ==
    ASSUME CourseInv, ~Overlap, [Next]_vars
    PROVE  CourseInv'
<1>1. TypeInv  BY DEF CourseInv, TypeInv
<1>2. TypeInv' /\ Exclusive'
  BY <1>1, TypeNext, AloneNext DEF CourseInv
<1>3. SUFFICES ASSUME NEW r \in Session  PROVE Course(r)'
  BY <1>2 DEF CourseInv, TypeInv
<1>4. Course(r)  BY DEF CourseInv
<1>5. CASE UNCHANGED vars
  BY <1>4, <1>5 DEF vars, Course, Folding
<1>6. ASSUME NEW s \in Session,
             \/ Recovery(s) \/ Materialization(s) \/ Harvest(s)
             \/ Agent(s) \/ SessionExits(s) \/ Crash(s)
      PROVE  Course(r)'
  <2>1. pc[s] # "idle"  BY <1>6, Busy
  <2>2. CASE r = s
    BY <1>1, <1>4, <1>6, <2>1, <2>2, AtWork, CourseStep DEF TypeInv
  <2>3. CASE r # s
    <3>1. pc[r] = "idle"  BY <2>1, <2>3 DEF CourseInv, Exclusive
    <3>2. pc'[r] = "idle" /\ phase'[r] = "recover"
      BY <1>1, <1>4, <1>6, <2>3, <3>1, OwnLocals DEF Course
    <3> QED  BY <3>2 DEF Course, Folding
  <2> QED  BY <2>2, <2>3
<1>7. ASSUME NEW s \in Session, NEW h \in Harness, NEW p \in BOOLEAN,
             Begin(s, h, p)
      PROVE  Course(r)'
  <2>1. \A q \in Session : pc[q] = "idle"  BY <1>7 DEF Begin
  <2>2. phase'[r] = "recover" /\ pc'[r] \in {"idle", "reconcile"}
    BY <1>1, <1>4, <1>7, <2>1 DEF Begin, Course, TypeInv, ProcessesOK
  <2> QED  BY <2>2 DEF Course, Folding
<1>8. ASSUME NEW h \in Harness, NEW t \in Token, HostLogin(h, t)
      PROVE  Course(r)'
  BY <1>4, <1>8 DEF HostLogin, Course, Folding
<1> QED  BY <1>5, <1>6, <1>7, <1>8 DEF Next

\* Whatever fails or dies, processes that take turns replace a stored token
\* only after archiving it, by the harvest of the session it was given to, or
\* by a host copy that is strictly newer.
THEOREM DivergenceIsArchived ==
    ASSUME ~Overlap
    PROVE  Spec => DivergenceArchived
<1> DEFINE Replaced ==
      \A h \in Harness :
         (store[h] \in Token /\ store'[h] # store[h]) =>
            \/ store[h] \in conflicts[h]
            \/ \E s \in Session :
                  /\ H(s) = h
                  /\ \/ At(s, "hStore") /\ store[h] = base[s]
                     \/ At(s, "sync") /\ order[h] = "host"
<1>1. Init => CourseInv
  BY TypeInit DEF Init, TypeInv, CourseInv, Exclusive, Course, Folding
<1>2. CourseInv /\ [Next]_vars => CourseInv'  BY CourseNext
<1>3. CourseInv /\ [Next]_vars => Replaced
  <2> SUFFICES ASSUME CourseInv, [Next]_vars, NEW h \in Harness,
                      store[h] \in Token, store'[h] # store[h]
               PROVE  \/ store[h] \in conflicts[h]
                      \/ \E s \in Session :
                            /\ H(s) = h
                            /\ \/ At(s, "hStore") /\ store[h] = base[s]
                               \/ At(s, "sync") /\ order[h] = "host"
    OBVIOUS
  <2>1. PICK s \in Session :
           /\ H(s) = h
           /\ \/ MigrateStore(s) \/ HarvestStore(s) \/ SyncHost(s)
              \/ /\ Crash(s) /\ SpoilStore(h)
                 /\ \/ pc[s] \in {"mStore", "hStore"}
                    \/ At(s, "sync") /\ "toStore" \in SyncChoices(h)
    BY StoreChanges DEF CourseInv, TypeInv
  <2>2. \/ pc[s] \in {"mStore", "hStore"}
        \/ At(s, "sync") /\ "toStore" \in SyncChoices(h)
    BY <2>1 DEF MigrateStore, HarvestStore, SyncHost
  <2>3. Course(s)  BY DEF CourseInv
  <2>4. CASE At(s, "mStore")
    BY <2>1, <2>3, <2>4, HarnessAuthAssumption DEF Course
  <2>5. CASE At(s, "hStore")  BY <2>1, <2>3, <2>5 DEF Course
  <2>6. CASE At(s, "sync") /\ "toStore" \in SyncChoices(h)
    BY <2>1, <2>6, SyncToStore, HarnessAuthAssumption
  <2> QED  BY <2>2, <2>4, <2>5, <2>6
<1> QED  BY <1>1, <1>2, <1>3, PTL DEF Spec, DivergenceArchived

-----------------------------------------------------------------------------
(* HostFileLatestKept: the harnesses whose credential the host user has in *)
(* a file of his own.                                                      *)

\* What the launch sync concludes from one reading of the host's file.
LEMMA SyncOfFile ==
    ASSUME NEW h \in HostFile, CopiesOK, QuietHost, Unspoiled(h), h \in Harness
    PROVE  /\ "none" \in SyncChoices(h) => hostCopy[h] = store[h]
           /\ "toHost" \in SyncChoices(h) =>
                 /\ store[h] # NoFile
                 /\ \/ hostCopy[h] = NoFile
                    \/ order[h] = "store" /\ hostCopy[h] # store[h]
<1> DEFINE Choices(ok) ==
        IF store[h] = NoFile
          THEN IF ok THEN {"toStore"} ELSE {"none"}
        ELSE IF ~ok THEN {"toHost"}
        ELSE IF store[h] = hostCopy[h] THEN {"none"}
        ELSE (IF order[h] = "host" THEN {"toStore"}
              ELSE IF order[h] = "store" THEN {"toHost"} ELSE {"refuse"})
             \cup (IF h \in HostKeychain /\ May("hostRead")
                     THEN {"refuse"} ELSE {})
<1>1. SyncChoices(h) = UNION {Choices(ok) : ok \in HostSeen(h)}
  BY DEF SyncChoices
<1>2. HostSeen(h) = {Harvestable(h, hostCopy[h])}
  BY DEF HostSeen, QuietHost
<1>3. SyncChoices(h) = Choices(Harvestable(h, hostCopy[h]))
  <2> HIDE DEF Choices
  <2> QED  BY <1>1, <1>2
<1>4. Harvestable(h, hostCopy[h]) <=> hostCopy[h] # NoFile
  BY HarnessAuthAssumption DEF Harvestable, Unspoiled, CopiesOK, Value
<1> QED  BY <1>3, <1>4

\* What a step must show about the harness it works on.
Onward(s, h) ==
    \/ pc'[s] = "idle" /\ phase'[s] = "recover" /\ AtRest(h)'
    \/ sel'[s] = h /\ pc'[s] # "idle" /\ HostCourse(s)'

\* The facts every step below starts from.
FileStep(s, h) ==
    /\ TypeInv /\ QuietHost /\ h \in Harness /\ h = sel[s] /\ pc[s] # "idle"
    /\ Unspoiled(h) /\ HostCourse(s)
    /\ h \notin KeychainBacked /\ h \notin HostKeychain /\ ~prefer[s]
    /\ Blank # NoFile /\ Blank \notin Token /\ NoFile \notin Token
    /\ h \in LogsOut => h \in FiltersBlank

\* Recovery finds at most what the store already holds.
LEMMA RecoveryOfFile ==
    ASSUME NEW s \in Session, NEW h \in HostFile, FileStep(s, h), Recovery(s)
    PROVE  Unspoiled(h)' /\ Onward(s, h)
<1> USE DEF FileStep, TypeInv, CopiesOK, ProcessesOK, Value, Unspoiled, Onward,
            HostCourse, Folding, AtRest, InSession, Settled
<1>1. CASE Reconcile(s)  BY <1>1 DEF Reconcile, Goto, AfterFold
<1>2. CASE FoldWrite(s) \/ FoldClear(s) \/ MigrateArchive(s) \/ MigrateStore(s)
  BY <1>2 DEF FoldWrite, FoldClear, MigrateArchive, MigrateStore
<1>3. CASE MigrateRead(s)
  BY <1>3 DEF MigrateRead, MigrateNext, GotoWith, Harvestable
<1>4. CASE MigrateDrop(s)  BY <1>4 DEF MigrateDrop, Goto, QuietHost, May
<1>5. CASE MigrateRemove(s)  BY <1>5 DEF MigrateRemove, Goto, QuietHost, May
<1> QED  BY <1>1, <1>2, <1>3, <1>4, <1>5 DEF Recovery

\* The launch leaves store and host file alike, with the latest token in both.
LEMMA LaunchOfFile ==
    ASSUME NEW s \in Session, NEW h \in HostFile, FileStep(s, h),
           Materialization(s)
    PROVE  Unspoiled(h)' /\ Onward(s, h)
<1> USE DEF FileStep, TypeInv, CopiesOK, ProcessesOK, Value, Unspoiled, Onward,
            HostCourse, Folding, AtRest
<1>1. CASE Launch(s) \/ ProbeDone(s)
  BY <1>1 DEF Launch, ProbeDone, Goto, Settled
<1>2. CASE SyncHost(s)
  <2> USE DEF Goto, Leave
  <2>0. At(s, "sync") /\ agentFile' = agentFile /\ latest' = latest
        /\ agentFile[h] = NoFile /\ h \in HostSided
    BY <1>2 DEF SyncHost, HostSided
  <2>1. CASE "none" \in SyncChoices(h) /\ Goto(s, "load")
             /\ UNCHANGED <<store, hostCopy, order>>
    BY <2>0, <2>1, SyncOfFile DEF Settled, InSession
  <2>2. CASE "toStore" \in SyncChoices(h) /\ WriteStore(h, hostCopy[h])
             /\ Goto(s, "load") /\ UNCHANGED hostCopy
    <3>1. hostCopy[h] # NoFile
          /\ (store[h] # NoFile => order[h] = "host" /\ hostCopy[h] # store[h])
      BY <2>2, SyncToStore DEF Harvestable
    <3>2. latest[h] \in {NoFile, hostCopy[h]}
      BY <2>0, <3>1 DEF Settled
    <3> QED  BY <2>0, <2>2, <3>1, <3>2 DEF WriteStore, InSession
  <2>3. CASE "toHost" \in SyncChoices(h) /\ WriteHost(h, store[h])
             /\ Goto(s, "load") /\ UNCHANGED store
    <3>1. latest[h] \in {NoFile, store[h]}
      BY <2>0, <2>3, SyncOfFile DEF Settled
    <3> QED  BY <2>0, <2>3, <3>1 DEF WriteHost, InSession
  <2>4. CASE Leave(s) /\ UNCHANGED <<store, hostCopy, order>>
    BY <2>0, <2>4 DEF Settled
  <2> QED
    BY <1>2, <2>0, <2>1, <2>2, <2>3, <2>4
    DEF SyncHost, Publishable, QuietHost, May, SpoilHost
<1>3. CASE MaterializeLoad(s)
  BY <1>3 DEF MaterializeLoad, LoadNext, InSession
<1>4. CASE MaterializeFile(s)
  <2>1. CASE Goto(s, "ready")
    BY <1>4, <2>1 DEF MaterializeFile, Goto, Leave, InSession
  <2>2. CASE Leave(s)
    BY <1>4, <2>2
    DEF MaterializeFile, Goto, Leave, SpoilAgent, QuietHost, May, Settled,
        InSession
  <2> QED  BY <1>4, <2>1, <2>2 DEF MaterializeFile
<1>5. CASE KeychainDelete(s) \/ KeychainAdd(s)
  BY <1>5 DEF KeychainDelete, KeychainAdd
<1>6. CASE LaterArtifactFails(s)
  BY <1>6 DEF LaterArtifactFails, Leave, Settled, InSession
<1>7. CASE LaterStepFails(s) \/ StartSession(s)
  BY <1>7 DEF LaterStepFails, StartSession, Goto, GotoHarvest, InSession
<1> QED
  BY <1>1, <1>2, <1>3, <1>4, <1>5, <1>6, <1>7 DEF Materialization

\* The harvest stores what the session was issued, and then publishes it.
LEMMA HarvestOfFile ==
    ASSUME NEW s \in Session, NEW h \in HostFile, FileStep(s, h), Harvest(s)
    PROVE  Unspoiled(h)' /\ Onward(s, h)
<1> USE DEF FileStep, TypeInv, CopiesOK, ProcessesOK, Value, Unspoiled, Onward,
            HostCourse, Folding, AtRest
<1>1. CASE HarvestRead(s)
  BY <1>1
  DEF HarvestRead, HarvestNext, MustArchive, Harvestable, GotoWith, Leave,
      InSession, Settled
<1>2. CASE HarvestDrop(s)
  BY <1>2 DEF HarvestDrop, Leave, QuietHost, May, InSession, Settled
<1>3. CASE HarvestArchive(s)  BY <1>3 DEF HarvestArchive
<1>4. CASE HarvestStore(s)
  <2>1. WriteStore(h, data[s]) /\ Goto(s, "hRemove")
    BY <1>4 DEF HarvestStore, QuietHost, May
  <2>2. order'[h] # "host"
    BY <2>1 DEF WriteStore, StoreStamp, HostSided
  <2> QED
    BY <1>4, <2>1, <2>2 DEF HarvestStore, WriteStore, Goto, InSession
<1>5. CASE HarvestRemove(s)
  BY <1>5 DEF HarvestRemove, Goto, QuietHost, May
<1>6. CASE HarvestPublish(s)
  <2>1. /\ store'[h] = store[h] /\ agentFile'[h] = NoFile
        /\ latest'[h] \in {NoFile, store[h]}
        /\ pc'[s] = "idle" /\ phase'[s] = "recover"
    BY <1>6 DEF HarvestPublish, Leave
  <2>2. \/ hostCopy'[h] = store[h]
        \/ hostCopy'[h] = hostCopy[h] /\ order'[h] # "host"
    BY <1>6
    DEF HarvestPublish, WriteHost, SpoilHost, QuietHost, May, HostSided
  <2>3. store[h] \in Token
    BY <1>6 DEF HarvestPublish
  <2> QED  BY <2>1, <2>2, <2>3 DEF Settled
<1> QED  BY <1>1, <1>2, <1>3, <1>4, <1>5, <1>6 DEF Harvest

\* In the session only the agent file changes.
LEMMA SessionOfFile ==
    ASSUME NEW s \in Session, NEW h \in HostFile, FileStep(s, h),
           Agent(s) \/ SessionExits(s) \/ Crash(s)
    PROVE  Unspoiled(h)' /\ Onward(s, h)
<1> USE DEF FileStep, TypeInv, CopiesOK, ProcessesOK, Value, Unspoiled, Onward,
            HostCourse, Folding, InSession
<1>1. ASSUME NEW t \in Token, AgentRotatesFile(s, t)
      PROVE  Unspoiled(h)' /\ Onward(s, h)
  BY <1>1 DEF AgentRotatesFile, Issue
<1>2. ASSUME NEW t \in Token, AgentRotatesKeychain(s, t)
      PROVE  Unspoiled(h)' /\ Onward(s, h)
  BY <1>2 DEF AgentRotatesKeychain
<1>3. CASE AgentLogsOut(s)  BY <1>3 DEF AgentLogsOut
<1>4. CASE SessionExits(s)  BY <1>4 DEF SessionExits, GotoHarvest
<1>5. CASE Crash(s)  BY <1>5 DEF Crash, QuietHost, May
<1> QED  BY <1>1, <1>2, <1>3, <1>4, <1>5 DEF Agent

\* A process leaves the copies of the other harnesses alone,
LEMMA OtherCopies ==
    ASSUME TypeInv, NEW s \in Session,
           \/ Recovery(s) \/ Materialization(s) \/ Harvest(s)
           \/ Agent(s) \/ SessionExits(s) \/ Crash(s),
           NEW g \in Harness, g # H(s)
    PROVE  /\ store'[g] = store[g] /\ agentFile'[g] = agentFile[g]
           /\ hostCopy'[g] = hostCopy[g] /\ order'[g] = order[g]
           /\ latest'[g] = latest[g]
<1> USE DEF TypeInv, CopiesOK, WriteStore, WriteHost, SpoilStore, SpoilHost,
            SpoilAgent
<1>1. CASE Recovery(s)
  BY <1>1
  DEF Recovery, Reconcile, FoldWrite, FoldClear, MigrateRead, MigrateDrop,
      MigrateArchive, MigrateStore, MigrateRemove
<1>2. CASE Materialization(s)
  BY <1>2
  DEF Materialization, Launch, ProbeDone, SyncHost, MaterializeLoad,
      MaterializeFile, KeychainDelete, KeychainAdd, LaterArtifactFails,
      LaterStepFails, StartSession
<1>3. CASE Harvest(s)
  BY <1>3
  DEF Harvest, HarvestRead, HarvestDrop, HarvestArchive, HarvestStore,
      HarvestRemove, HarvestPublish
<1>4. CASE Agent(s)
  BY <1>4
  DEF Agent, AgentRotatesFile, AgentRotatesKeychain, AgentLogsOut, Issue
<1>5. CASE SessionExits(s) \/ Crash(s)
  BY <1>5 DEF SessionExits, Crash
<1> QED  BY <1>1, <1>2, <1>3, <1>4, <1>5

\* ... and goes on with its own harness or is done with it.
LEMMA OwnHarness ==
    ASSUME TypeInv, NEW s \in Session,
           \/ Recovery(s) \/ Materialization(s) \/ Harvest(s)
           \/ Agent(s) \/ SessionExits(s) \/ Crash(s)
    PROVE  \/ sel'[s] = sel[s] /\ pc'[s] # "idle"
           \/ pc'[s] = "idle" /\ phase'[s] = "recover"
<1> USE DEF TypeInv, ProcessesOK, Goto, GotoWith, GotoHarvest, Leave
<1>1. CASE Recovery(s)
  BY <1>1
  DEF Recovery, Reconcile, FoldWrite, FoldClear, MigrateRead, MigrateDrop,
      MigrateArchive, MigrateStore, MigrateRemove, MigrateNext, AfterFold
<1>2. CASE Materialization(s)
  BY <1>2
  DEF Materialization, Launch, ProbeDone, SyncHost, MaterializeLoad,
      MaterializeFile, KeychainDelete, KeychainAdd, LaterArtifactFails,
      LaterStepFails, StartSession, LoadNext
<1>3. CASE Harvest(s)
  BY <1>3
  DEF Harvest, HarvestRead, HarvestDrop, HarvestArchive, HarvestStore,
      HarvestRemove, HarvestPublish, HarvestNext
<1>4. CASE Agent(s)
  BY <1>4 DEF Agent, AgentRotatesFile, AgentRotatesKeychain, AgentLogsOut
<1>5. CASE SessionExits(s) \/ Crash(s)
  BY <1>5 DEF SessionExits, Crash
<1> QED  BY <1>1, <1>2, <1>3, <1>4, <1>5

\* The part of the invariant about one harness.
FileInv(g) ==
    /\ Unspoiled(g)
    /\ (\A s \in Session : pc[s] = "idle" \/ H(s) # g) => AtRest(g)
    /\ \A s \in Session : H(s) = g => HostCourse(s)

\* An idle process knows nothing.
LEMMA IdleCourse ==
    ASSUME NEW s \in Session, pc'[s] = "idle", phase'[s] = "recover"
    PROVE  HostCourse(s)'
BY DEF HostCourse, Folding

\* A step of a process keeps the invariant of the harness it works on,
LEMMA FileHere ==
    ASSUME HostInv, QuietHost, NEW s \in Session, NEW g \in HostFile, g = H(s),
           \/ Recovery(s) \/ Materialization(s) \/ Harvest(s)
           \/ Agent(s) \/ SessionExits(s) \/ Crash(s)
    PROVE  FileInv(g)'
<1>1. TypeInv /\ pc[s] # "idle"  BY Busy DEF HostInv, TypeInv
<1>2. FileStep(s, g)
  BY <1>1, HarnessAuthAssumption
  DEF FileStep, HostInv, QuietHost, Selected
<1>3. Unspoiled(g)' /\ Onward(s, g)
  BY <1>2, RecoveryOfFile, LaunchOfFile, HarvestOfFile, SessionOfFile
<1>4. \A r \in Session \ {s} : pc'[r] = "idle" /\ phase'[r] = phase[r]
                               /\ sel'[r] = sel[r] /\ pc[r] = "idle"
  BY <1>1, OwnLocals DEF HostInv, Exclusive
<1>5. (\A q \in Session : pc'[q] = "idle" \/ sel'[q] # g) => AtRest(g)'
  BY <1>3 DEF Onward
<1>6. ASSUME NEW r \in Session, sel'[r] = g  PROVE HostCourse(r)'
  <2>1. CASE r = s  BY <1>3, <2>1, IdleCourse DEF Onward
  <2>2. CASE r # s
    BY <1>4, <2>2, IdleCourse DEF HostInv
  <2> QED  BY <2>1, <2>2
<1> QED  BY <1>3, <1>5, <1>6 DEF FileInv

\* ... and of every other.
LEMMA FileElsewhere ==
    ASSUME HostInv, NEW s \in Session, NEW g \in HostFile, g # H(s),
           \/ Recovery(s) \/ Materialization(s) \/ Harvest(s)
           \/ Agent(s) \/ SessionExits(s) \/ Crash(s)
    PROVE  FileInv(g)'
<1>1. TypeInv /\ g \in Harness /\ pc[s] # "idle"
  BY HarnessAuthAssumption, Busy DEF HostInv, TypeInv
<1>2. /\ store'[g] = store[g] /\ agentFile'[g] = agentFile[g]
      /\ hostCopy'[g] = hostCopy[g] /\ order'[g] = order[g]
      /\ latest'[g] = latest[g]
  BY <1>1, OtherCopies
<1>3. FileInv(g)  BY DEF HostInv, FileInv
<1>4. \A r \in Session \ {s} : /\ pc'[r] = pc[r] /\ sel'[r] = sel[r]
                               /\ phase'[r] = phase[r] /\ data'[r] = data[r]
                               /\ base'[r] = base[r]
  BY <1>1, OwnLocals
<1>5. sel'[s] # g \/ pc'[s] = "idle"  BY <1>1, OwnHarness
<1>6. Unspoiled(g)'  BY <1>2, <1>3 DEF FileInv, Unspoiled
<1>7. AtRest(g) => AtRest(g)'  BY <1>2 DEF AtRest, Settled
<1>8. (\A q \in Session : pc'[q] = "idle" \/ sel'[q] # g) => AtRest(g)'
  BY <1>3, <1>4, <1>7 DEF FileInv
<1>9. ASSUME NEW r \in Session, sel'[r] = g  PROVE HostCourse(r)'
  <2>1. CASE r = s
    <3>1. pc'[s] = "idle"  BY <1>5, <1>9, <2>1
    <3>2. phase'[s] = "recover"
      BY <1>1, <3>1, OwnHarness
    <3> QED  BY <2>1, <3>1, <3>2, IdleCourse
  <2>2. CASE r # s
    <3>1. HostCourse(r) /\ sel[r] = g  BY <1>3, <1>4, <1>9, <2>2 DEF FileInv
    <3> QED
      BY <1>2, <1>4, <1>9, <2>2, <3>1
      DEF HostCourse, Folding, AtRest, Settled, InSession
  <2> QED  BY <2>1, <2>2
<1> QED  BY <1>6, <1>8, <1>9 DEF FileInv

\* The invariant is inductive.
LEMMA HostInvNext ==
    ASSUME HostInv, QuietHost, [Next]_vars
    PROVE  HostInv'
<1>1. TypeInv  BY DEF HostInv, TypeInv
<1>2. TypeInv' /\ Exclusive'
  BY <1>1, TypeNext, AloneNext DEF HostInv, QuietHost
<1>0. \A r \in Session : pc'[r] = "idle" => phase'[r] = "recover"
  <2> SUFFICES ASSUME NEW r \in Session, pc'[r] = "idle"
               PROVE  phase'[r] = "recover"
    OBVIOUS
  <2>1. pc[r] = "idle" => phase[r] = "recover"  BY DEF HostInv
  <2>2. ASSUME NEW s \in Session,
               \/ Recovery(s) \/ Materialization(s) \/ Harvest(s)
               \/ Agent(s) \/ SessionExits(s) \/ Crash(s)
        PROVE  phase'[r] = "recover"
    BY <1>1, <2>1, <2>2, OwnLocals, OwnHarness
  <2>3. CASE UNCHANGED vars  BY <2>1, <2>3 DEF vars
  <2>4. ASSUME NEW s \in Session, NEW h \in Harness, NEW p \in BOOLEAN,
               Begin(s, h, p)
        PROVE  phase'[r] = "recover"
    BY <1>1, <2>1, <2>4 DEF Begin, TypeInv, ProcessesOK
  <2>5. ASSUME NEW h \in Harness, NEW t \in Token, HostLogin(h, t)
        PROVE  phase'[r] = "recover"
    BY <2>1, <2>5 DEF HostLogin
  <2> QED  BY <2>2, <2>3, <2>4, <2>5 DEF Next
<1>3. SUFFICES ASSUME NEW g \in HostFile  PROVE FileInv(g)'
  BY <1>0, <1>2 DEF HostInv, TypeInv, FileInv
<1>4. FileInv(g) /\ g \in Harness
  BY HarnessAuthAssumption DEF HostInv, FileInv
<1>5. CASE UNCHANGED vars
  BY <1>4, <1>5
  DEF vars, FileInv, Unspoiled, AtRest, Settled, HostCourse, Folding, InSession
<1>6. ASSUME NEW s \in Session,
             \/ Recovery(s) \/ Materialization(s) \/ Harvest(s)
             \/ Agent(s) \/ SessionExits(s) \/ Crash(s)
      PROVE  FileInv(g)'
  BY <1>6, FileHere, FileElsewhere
<1>7. ASSUME NEW s \in Session, NEW h \in Harness, NEW p \in BOOLEAN,
             Begin(s, h, p)
      PROVE  FileInv(g)'
  <2>1. \A q \in Session : pc[q] = "idle"
    BY <1>7 DEF Begin, QuietHost
  <2>2. AtRest(g) /\ Unspoiled(g)  BY <1>4, <2>1 DEF FileInv
  <2>3. AtRest(g)' /\ Unspoiled(g)'
    BY <1>7, <2>2 DEF Begin, AtRest, Settled, Unspoiled
  <2>4. ASSUME NEW r \in Session, sel'[r] = g  PROVE HostCourse(r)'
    <3>1. CASE r = s
      <4>1. pc'[r] = "reconcile" /\ phase'[r] = phase[r]
        BY <1>1, <1>7, <3>1 DEF Begin, TypeInv, ProcessesOK
      <4>3. phase[r] = "recover"
        BY <2>1 DEF HostInv
      <4> QED  BY <2>3, <2>4, <4>1, <4>3 DEF HostCourse, Folding
    <3>2. CASE r # s
      <4>1. pc'[r] = "idle" /\ phase'[r] = phase[r]
        BY <1>1, <1>7, <2>1, <3>2 DEF Begin, TypeInv, ProcessesOK
      <4>2. phase[r] = "recover"  BY <2>1 DEF HostInv
      <4> QED  BY <4>1, <4>2, IdleCourse
    <3> QED  BY <3>1, <3>2
  <2> QED  BY <2>3, <2>4 DEF FileInv
<1>8. ASSUME NEW h \in Harness, NEW t \in Token, HostLogin(h, t)
      PROVE  FileInv(g)'
  <2>1. \A q \in Session : pc[q] = "idle"
    BY <1>8 DEF HostLogin, QuietHost
  <2>2. AtRest(g) /\ Unspoiled(g)  BY <1>4, <2>1 DEF FileInv
  <2>3. AtRest(g)' /\ Unspoiled(g)'
    <3>1. CASE g = h
      <4>1. /\ store' = store /\ agentFile' = agentFile
            /\ hostCopy'[g] = t /\ latest'[g] = t /\ order'[g] # "store"
        BY <1>1, <1>4, <1>8, <3>1
        DEF HostLogin, Issue, WriteHost, HostStamp, TypeInv, CopiesOK, QuietHost
      <4> QED
        BY <2>2, <4>1, HarnessAuthAssumption DEF AtRest, Settled, Unspoiled
    <3>2. CASE g # h
      <4>1. /\ store'[g] = store[g] /\ agentFile'[g] = agentFile[g]
            /\ hostCopy'[g] = hostCopy[g] /\ latest'[g] = latest[g]
            /\ order'[g] = order[g]
        BY <1>1, <1>4, <1>8, <3>2
        DEF HostLogin, Issue, WriteHost, TypeInv, CopiesOK
      <4> QED  BY <2>2, <4>1 DEF AtRest, Settled, Unspoiled
    <3> QED  BY <3>1, <3>2
  <2>4. ASSUME NEW r \in Session  PROVE HostCourse(r)'
    BY <1>8, <2>1, IdleCourse DEF HostLogin, HostInv
  <2> QED  BY <2>3, <2>4 DEF FileInv
<1> QED  BY <1>5, <1>6, <1>7, <1>8 DEF Next

\* Processes that take turns and are neither killed nor kept from storing and
\* removing a credential never lose the latest token of a harness that shares a
\* file with the host user, who may log in there between sessions: whichever of
\* store and host file is older is the one that is replaced.
THEOREM HostFileLatestIsKept ==
    ASSUME QuietHost
    PROVE  Spec => []HostFileLatestKept
<1>1. Init => HostInv
  <2> SUFFICES ASSUME Init  PROVE HostInv
    OBVIOUS
  <2>1. TypeInv /\ Exclusive  BY TypeInit DEF Init, Exclusive
  <2>2. \A s \in Session : pc[s] = "idle" /\ phase[s] = "recover"
    BY DEF Init
  <2>3. \A g \in HostFile : Unspoiled(g) /\ AtRest(g)
    BY HarnessAuthAssumption DEF Init, Unspoiled, AtRest, Settled
  <2>4. \A s \in Session : HostCourse(s)
    BY <2>2 DEF HostCourse, Folding
  <2> QED  BY <2>1, <2>2, <2>3, <2>4 DEF HostInv, TypeInv
<1>2. HostInv /\ [Next]_vars => HostInv'  BY HostInvNext
<1>3. HostInv => HostFileLatestKept
  <2> SUFFICES ASSUME HostInv, NEW h \in HostFile  PROVE Kept(h)
    BY DEF HostFileLatestKept
  <2>1. AtRest(h) => Kept(h)  BY DEF AtRest, Settled, Kept
  <2>2. ASSUME NEW s \in Session, pc[s] # "idle", H(s) = h  PROVE Kept(h)
    BY <2>1, <2>2
    DEF HostInv, HostCourse, Folding, InSession, Kept, ProcessesOK, Steps
  <2> QED  BY <2>1, <2>2 DEF HostInv
<1> QED  BY <1>1, <1>2, <1>3, PTL DEF Spec

=============================================================================
