--------------------- MODULE PlanescapeProviderProofs ----------------------
(***************************************************************************)
(* That the provider is sent nothing but what the checkpoint holds, for    *)
(* any number of operations, restarts, crashes and lost answers.           *)
(***************************************************************************)
EXTENDS PlanescapeProvider, SequenceTheorems, TLAPS

\* Operations of the product, and the freeze and cancellation, number zero.
SentRecord == [seq : Nat, id : OpId \union {"freeze", "cancel"},
           kind : Kind \union {"freeze", "cancel"}, nonce : Nonce \union {"none"}]
Entry == [op : SentRecord, done : BOOLEAN]
Answer == {"operation_result", "quiescence", "closeout", "logical"}
Progress == {"none", "asked", "done"}
Checkpoint ==
    [phase : Phase, epoch : Nat, next : Nat, ops : Seq(Entry), quiesced : Nat,
     freeze : Progress, cancel : Progress,
     evidence : SUBSET ((OpId \union {"freeze", "cancel"}) \X Answer), poisoned : BOOLEAN]
Call == [step : {"idle", "send", "answer"}, what : {"none", "op", "freeze", "cancel"}, index : Nat]

\* A checkpoint numbers its operations by their place and names each once; one
\* that admits nobody has none.
SoundCheckpoint(d) ==
    /\ d \in Checkpoint
    /\ d.next = Len(d.ops) + 1
    /\ \A i \in 1..Len(d.ops) : d.ops[i].op.seq = i
    /\ \A i, j \in 1..Len(d.ops) : d.ops[i].op.id = d.ops[j].op.id => i = j
    /\ d.phase = "none" => d.ops = <<>>

\* The checkpoint d holds every operation of sent.
Covers(d, sent) ==
    \A r \in sent : r.seq > 0 => \E i \in 1..Len(d.ops) : d.ops[i].op = r

\* The call in progress is for an operation of d, the freeze or the cancellation.
CallFits(d, c) ==
    /\ c \in Call
    /\ c.step # "idle" => \/ c.what = "op" /\ c.index \in 1..Len(d.ops)
                         \/ c.what \in {"freeze", "cancel"}

PsInv ==
    /\ psSent \subseteq SentRecord /\ psEpoch \in Nat /\ psSeen \in Nat
    /\ SoundCheckpoint(psDisk) /\ Covers(psDisk, psSent) /\ CallFits(psDisk, psCall)

\* Two checkpoints that hold the same requests, whatever became of them.
SameRequests(d, e) ==
    /\ Len(e.ops) = Len(d.ops) /\ e.next = d.next
    /\ \A i \in 1..Len(d.ops) : e.ops[i].op = d.ops[i].op
    /\ e.phase = "none" => d.phase = "none"

----------------------------------------------------------------------------
\* A checkpoint with the same requests is as good as the one it replaces.
LEMMA SameRequestsSound ==
    ASSUME NEW d, NEW e \in Checkpoint, SoundCheckpoint(d), SameRequests(d, e),
           NEW sent, Covers(d, sent)
    PROVE  SoundCheckpoint(e) /\ Covers(e, sent)
<1>1. d \in Checkpoint /\ Len(d.ops) \in Nat /\ Len(e.ops) = Len(d.ops)
    BY DEF SoundCheckpoint, Checkpoint, SameRequests
<1>2. e.phase = "none" => e.ops = <<>>
    <2> SUFFICES ASSUME e.phase = "none"
                 PROVE  e.ops = <<>>
        OBVIOUS
    <2>1. Len(e.ops) = 0
        BY <1>1 DEF SoundCheckpoint, SameRequests
    <2> QED
        BY <2>1 DEF Checkpoint
<1>3. SoundCheckpoint(e)
    <2>1. e.next = Len(e.ops) + 1
        BY <1>1 DEF SoundCheckpoint, SameRequests
    <2>2. \A i \in 1..Len(e.ops) : e.ops[i].op.seq = i
        BY <1>1 DEF SoundCheckpoint, SameRequests
    <2>3. \A i, j \in 1..Len(e.ops) : e.ops[i].op.id = e.ops[j].op.id => i = j
        BY <1>1, Zenon DEF SoundCheckpoint, SameRequests
    <2> QED
        BY <1>2, <2>1, <2>2, <2>3, Zenon DEF SoundCheckpoint
<1>4. Covers(e, sent)
    BY <1>1 DEF Covers, SameRequests
<1> QED
    BY <1>3, <1>4

\* So a call that replaces it, whether the save succeeds or not, keeps the
\* invariant, provided it sends nothing and ends or is about the freeze or the cancellation.
LEMMA ReplacementKeepsInv ==
    ASSUME PsInv, NEW e \in Checkpoint, SameRequests(psDisk, e),
           psDisk' \in {psDisk, e},
           psCall' \in Call, psCall'.step = "idle" \/ psCall'.what \in {"freeze", "cancel"},
           UNCHANGED <<psSent, psEpoch, psSeen>>
    PROVE  PsInv'
<1>1. SoundCheckpoint(e) /\ Covers(e, psSent)
    BY SameRequestsSound DEF PsInv
<1>2. SoundCheckpoint(psDisk') /\ Covers(psDisk', psSent)
    BY <1>1 DEF PsInv
<1> QED
    BY <1>2 DEF PsInv, CallFits

\* Poisoning a session changes none of its requests.
LEMMA PoisonKeepsInv ==
    ASSUME PsInv, Poison(psDisk), UNCHANGED <<psSent, psEpoch, psSeen>>
    PROVE  PsInv'
<1> DEFINE e == [psDisk EXCEPT !.poisoned = TRUE]
<1>1. e \in Checkpoint /\ SameRequests(psDisk, e)
    BY DEF PsInv, SoundCheckpoint, Checkpoint, SameRequests
<1>2. psDisk' \in {psDisk, e} /\ psCall' \in Call /\ psCall'.step = "idle"
    BY DEF Poison, saveState, SaveFails, PsReturn, NoCall, Call
<1> QED
    BY <1>1, <1>2, ReplacementKeepsInv

\* What a right answer makes of a checkpoint leaves the requests as they are.
LEMMA AppliedSameRequests ==
    ASSUME NEW d, SoundCheckpoint(d), NEW i \in 1..Len(d.ops)
    PROVE  PsApplied(d, i) \in Checkpoint /\ SameRequests(d, PsApplied(d, i))
<1> DEFINE done == [d EXCEPT !.ops[i].done = TRUE]
           k == d.ops[i].op.kind
           evidence == d.evidence \union {<<d.ops[i].op.id, ExpectedResponse(k)>>}
<1>1. d \in Checkpoint /\ d.ops \in Seq(Entry) /\ d.ops[i] \in Entry /\ Len(d.ops) \in Nat
    BY DEF SoundCheckpoint, Checkpoint
<1>2. /\ done.ops \in Seq(Entry) /\ Len(done.ops) = Len(d.ops)
      /\ \A j \in 1..Len(d.ops) : done.ops[j].op = d.ops[j].op
    <2> DEFINE entry == [d.ops[i] EXCEPT !.done = TRUE]
               ops == [d.ops EXCEPT ![i] = entry]
    <2>1. entry \in Entry /\ entry.op = d.ops[i].op
        BY <1>1 DEF Entry
    <2>2. /\ ops \in Seq(Entry) /\ Len(ops) = Len(d.ops)
          /\ \A j \in 1..Len(d.ops) : ops[j] = IF j = i THEN entry ELSE d.ops[j]
        <3> HIDE DEF entry
        <3> QED
            BY <1>1, <2>1, ExceptSeq
    <2>3. done.ops = ops
        BY <1>1 DEF Checkpoint
    <2>4. \A j \in 1..Len(d.ops) : ops[j].op = d.ops[j].op
        BY <2>1, <2>2
    <2> HIDE DEF ops, done
    <2> QED
        BY <2>2, <2>3, <2>4
<1>3. done \in Checkpoint /\ SameRequests(d, done)
    BY <1>1, <1>2 DEF Checkpoint, SameRequests
<1>4. evidence \in SUBSET ((OpId \union {"freeze", "cancel"}) \X Answer)
    <2>1. ExpectedResponse(k) \in Answer
        BY DEF ExpectedResponse, Answer
    <2> QED
        BY <1>1, <2>1 DEF Checkpoint, Entry, SentRecord
<1>5. d.ops[i].op.seq \in Nat
    BY <1>1 DEF Entry, SentRecord
<1>6. \A p \in Phase \ {"none"}, q \in Nat :
         LET e == [done EXCEPT !.phase = p, !.quiesced = q, !.evidence = evidence]
             f == [done EXCEPT !.phase = p, !.evidence = evidence]
         IN  /\ e \in Checkpoint /\ SameRequests(d, e)
             /\ f \in Checkpoint /\ SameRequests(d, f)
    BY <1>1, <1>3, <1>4, ZenonT(40) DEF Checkpoint, SameRequests
<1>7. {"active", "quiescent", "closed"} \subseteq Phase \ {"none"}
    BY DEF Phase
<1> QED
    BY <1>3, <1>5, <1>6, <1>7 DEF PsApplied

\* A checkpoint is extended by a request that is new to it.
LEMMA AppendedIsSound ==
    ASSUME PsInv, NEW id \in OpId, NEW kind \in Kind, NEW nonce \in Nonce,
           Known(id) = {}, psDisk.phase # "none"
    PROVE  LET e == PsAppended(psDisk, id, kind, nonce) IN
           SoundCheckpoint(e) /\ Covers(e, psSent) /\ Len(e.ops) \in 1..Len(e.ops)
<1> DEFINE new == [op |-> Operation(psDisk.next, id, kind, nonce), done |-> FALSE]
           ops == Append(psDisk.ops, new)
           e == PsAppended(psDisk, id, kind, nonce)
           n == Len(psDisk.ops)
<1>1. psDisk \in Checkpoint /\ psDisk.ops \in Seq(Entry) /\ n \in Nat /\ psDisk.next = n + 1
    BY DEF PsInv, SoundCheckpoint, Checkpoint
<1>2. new \in Entry /\ new.op.seq = n + 1 /\ new.op.id = id
    BY <1>1 DEF Entry, SentRecord, Operation
<1>3. /\ ops \in Seq(Entry) /\ Len(ops) = n + 1 /\ ops[n + 1] = new
      /\ \A i \in 1..n : ops[i] = psDisk.ops[i]
    <2> HIDE DEF new
    <2> QED
        BY <1>1, <1>2, AppendProperties
<1>4. e \in Checkpoint /\ e.ops = ops /\ e.next = n + 2 /\ e.phase # "none"
    <2>1. e = [psDisk EXCEPT !.ops = ops, !.next = psDisk.next + 1]
        BY <1>1 DEF PsAppended, Checkpoint
    <2>2. psDisk.next + 1 \in Nat /\ psDisk.next + 1 = n + 2
        BY <1>1
    <2> HIDE DEF e, ops, new, n
    <2>3. e \in Checkpoint
        BY <1>1, <1>3, <2>1, <2>2 DEF Checkpoint
    <2>4. e.ops = ops /\ e.next = n + 2 /\ e.phase = psDisk.phase
        BY <1>1, <2>1, <2>2 DEF Checkpoint
    <2> QED
        BY <2>3, <2>4
<1> HIDE DEF new, ops, e
<1>5. \A i \in 1..(n + 1) : i = n + 1 \/ i \in 1..n
    BY <1>1
<1>6. \A i \in 1..(n + 1) : e.ops[i].op.seq = i
    BY <1>1, <1>2, <1>3, <1>4, <1>5 DEF PsInv, SoundCheckpoint
<1>7. \A i \in 1..n : psDisk.ops[i].op.id # id
    BY <1>1 DEF Known
<1>8. \A i, j \in 1..(n + 1) : e.ops[i].op.id = e.ops[j].op.id => i = j
    BY <1>2, <1>3, <1>4, <1>5, <1>7, ZenonT(40) DEF PsInv, SoundCheckpoint
<1>9. Covers(e, psSent)
    <2>1. \A i \in 1..n : i \in 1..(n + 1) /\ e.ops[i] = psDisk.ops[i]
        BY <1>1, <1>3, <1>4
    <2> QED
        BY <1>3, <1>4, <2>1 DEF PsInv, Covers
<1>10. SoundCheckpoint(e)
    BY <1>1, <1>3, <1>4, <1>6, <1>8 DEF SoundCheckpoint
<1> QED
    BY <1>1, <1>3, <1>4, <1>9, <1>10 DEF e

----------------------------------------------------------------------------
LEMMA PsInvInit == PsInit => PsInv
<1> SUFFICES ASSUME PsInit
             PROVE  PsInv
    OBVIOUS
<1>1. NoSession \in Checkpoint /\ NoSession.ops = <<>> /\ Len(NoSession.ops) = 0
    BY DEF NoSession, Checkpoint, Phase, Progress
<1>2. SoundCheckpoint(NoSession)
    BY <1>1 DEF SoundCheckpoint, NoSession
<1> QED
    BY <1>2 DEF PsInit, PsInv, Covers, CallFits, Call, NoCall

\* An operation: named before, and sent again or refused; or new, and saved.
LEMMA RunOperationKeepsInv ==
    ASSUME PsInv, NEW id \in OpId, NEW kind \in Kind, NEW nonce \in Nonce,
           runOperation(id, kind, nonce)
    PROVE  PsInv'
<1>1. psDisk.phase # "none" /\ psCall = NoCall /\ UNCHANGED <<psSent, psEpoch, psSeen>>
    BY DEF runOperation, RequiredPhase, Kind, Enter, PsLoads
<1>2. CASE Known(id) # {}
    <2> DEFINE i == CHOOSE j \in Known(id) : TRUE
    <2>1. i \in 1..Len(psDisk.ops) /\ i \in Nat
        BY <1>2 DEF Known
    <2>2. CASE psCall' = [step |-> "send", what |-> "op", index |-> i] /\ UNCHANGED psDisk
        BY <1>1, <2>1, <2>2 DEF PsInv, CallFits, Call
    <2>3. CASE Poison(psDisk)
        BY <1>1, <2>3, PoisonKeepsInv
    <2> QED
        BY <1>2, <2>2, <2>3 DEF runOperation
<1>3. CASE Known(id) = {}
    <2> DEFINE saved == PsAppended(psDisk, id, kind, nonce)
    <2>1. SoundCheckpoint(saved) /\ Covers(saved, psSent) /\ Len(saved.ops) \in 1..Len(saved.ops)
        BY <1>1, <1>3, AppendedIsSound
    <2>2. CASE saveState(saved) /\ psCall' = [step |-> "send", what |-> "op", index |-> Len(saved.ops)]
        BY <1>1, <2>1, <2>2 DEF saveState, PsInv, CallFits, Call
    <2>3. CASE SaveFails(saved) /\ PsReturn
        BY <1>1, <2>1, <2>3 DEF SaveFails, PsReturn, NoCall, PsInv, CallFits, Call
    <2> QED
        BY <1>3, <2>2, <2>3 DEF runOperation
<1> QED
    BY <1>2, <1>3

\* The freeze and the cancellation: asked for first, or asked for again.
LEMMA AskKeepsInv ==
    ASSUME PsInv, NEW saved \in {[psDisk EXCEPT !.freeze = "asked"],
                                 [psDisk EXCEPT !.cancel = "asked"]},
           NEW what \in {"freeze", "cancel"},
           psDisk' \in {psDisk, saved},
           psCall' \in {NoCall, [step |-> "send", what |-> what, index |-> 0]},
           UNCHANGED <<psSent, psEpoch, psSeen>>
    PROVE  PsInv'
<1>1. saved \in Checkpoint /\ SameRequests(psDisk, saved)
    BY DEF PsInv, SoundCheckpoint, Checkpoint, SameRequests, Progress
<1>2. psCall' \in Call /\ (psCall'.step = "idle" \/ psCall'.what \in {"freeze", "cancel"})
    BY DEF NoCall, Call
<1> QED
    BY <1>1, <1>2, ReplacementKeepsInv

LEMMA FreezeSessionKeepsInv == PsInv /\ FreezeSession => PsInv'
<1> SUFFICES ASSUME PsInv, FreezeSession
             PROVE  PsInv'
    OBVIOUS
<1>1. UNCHANGED <<psSent, psEpoch, psSeen>> /\ psCall = NoCall
    BY DEF FreezeSession, Enter
<1>2. CASE Poison(psDisk)
    BY <1>1, <1>2, PoisonKeepsInv
<1>3. CASE ~Poison(psDisk)
    <2>1. /\ psDisk' \in {psDisk, [psDisk EXCEPT !.freeze = "asked"]}
          /\ psCall' \in {NoCall, [step |-> "send", what |-> "freeze", index |-> 0]}
        BY <1>3 DEF FreezeSession, saveState, SaveFails, PsReturn
    <2> QED
        BY <1>1, <2>1, AskKeepsInv
<1> QED
    BY <1>2, <1>3

LEMMA CancelSessionKeepsInv == PsInv /\ CancelSession => PsInv'
<1> SUFFICES ASSUME PsInv, CancelSession
             PROVE  PsInv'
    OBVIOUS
<1>1. UNCHANGED <<psSent, psEpoch, psSeen>> /\ psCall = NoCall
    BY DEF CancelSession, Enter
<1>2. CASE Poison(psDisk)
    BY <1>1, <1>2, PoisonKeepsInv
<1>3. CASE ~Poison(psDisk)
    <2>1. /\ psDisk' \in {psDisk, [psDisk EXCEPT !.cancel = "asked"]}
          /\ psCall' \in {NoCall, [step |-> "send", what |-> "cancel", index |-> 0]}
        BY <1>3 DEF CancelSession, saveState, SaveFails, PsReturn
    <2> QED
        BY <1>1, <2>1, AskKeepsInv
<1> QED
    BY <1>2, <1>3

\* What is sent is an entry of the checkpoint, or has no number.
LEMMA SendKeepsInv == PsInv /\ Send => PsInv'
<1> SUFFICES ASSUME PsInv, Send
             PROVE  PsInv'
    OBVIOUS
<1>1. UNCHANGED <<psDisk, psEpoch, psSeen>> /\ psCall.step = "send" /\ psCall \in Call
    BY DEF Send, PsInv, CallFits
<1>2. CASE PsReturn /\ UNCHANGED psSent
    BY <1>1, <1>2 DEF PsReturn, NoCall, PsInv, CallFits, Call
<1>3. CASE psSent' = psSent \union {Request} /\ psCall' = [psCall EXCEPT !.step = "answer"]
    <2>1. Request \in SentRecord /\ Covers(psDisk, {Request})
        <3>1. CASE psCall.what = "op"
            <4>1. psCall.index \in 1..Len(psDisk.ops) /\ Request = psDisk.ops[psCall.index].op
                BY <1>1, <3>1 DEF PsInv, CallFits, Request
            <4>2. psDisk.ops[psCall.index] \in Entry
                BY <4>1 DEF PsInv, SoundCheckpoint, Checkpoint
            <4> QED
                BY <4>1, <4>2 DEF Entry, Covers
        <3>2. CASE psCall.what \in {"freeze", "cancel"}
            BY <3>2 DEF Request, Operation, SentRecord, Covers
        <3> QED
            BY <1>1, <3>1, <3>2 DEF PsInv, CallFits
    <2>2. CallFits(psDisk, psCall')
        BY <1>1, <1>3 DEF PsInv, CallFits, Call
    <2>3. psSent' \subseteq SentRecord /\ Covers(psDisk, psSent')
        BY <1>3, <2>1 DEF PsInv, Covers
    <2> QED
        BY <1>1, <2>2, <2>3 DEF PsInv
<1> QED
    BY <1>2, <1>3 DEF Send

\* The answers: the requests stay, whatever becomes of them.
LEMMA SavesKeepsInv ==
    ASSUME PsInv, NEW e \in Checkpoint, SameRequests(psDisk, e), Saves(e),
           UNCHANGED <<psSent, psEpoch, psSeen>>
    PROVE  PsInv'
<1>1. psDisk' \in {psDisk, e} /\ psCall' \in Call /\ psCall'.step = "idle"
    BY DEF Saves, saveState, SaveFails, PsReturn, NoCall, Call
<1> QED
    BY <1>1, ReplacementKeepsInv

LEMMA sendOperationKeepsInv == PsInv /\ sendOperation => PsInv'
<1> SUFFICES ASSUME PsInv, sendOperation
             PROVE  PsInv'
    OBVIOUS
<1> DEFINE i == psCall.index
<1>1. UNCHANGED <<psSent, psEpoch, psSeen>> /\ i \in 1..Len(psDisk.ops)
    BY DEF sendOperation, PsInv, CallFits
<1>2. \/ PsReturn /\ UNCHANGED psDisk
      \/ Saves(PsApplied(psDisk, i))
      \/ Poison(psDisk)
    <2>1. PICK answer : CASE answer = "unavailable" -> PsReturn /\ UNCHANGED psDisk
            [] answer = "right" /\ (psDisk.ops[i].op.kind = "closeout" => psDisk.quiesced # 0) ->
                 Saves(PsApplied(psDisk, i))
            [] OTHER -> Poison(psDisk)
        BY DEF sendOperation
    <2> QED
        BY <2>1
<1>3. CASE PsReturn /\ UNCHANGED psDisk
    BY <1>1, <1>3 DEF PsReturn, NoCall, PsInv, CallFits, Call
<1>4. CASE Saves(PsApplied(psDisk, i))
    BY <1>1, <1>4, AppliedSameRequests, SavesKeepsInv DEF PsInv
<1>5. CASE Poison(psDisk)
    BY <1>1, <1>5, PoisonKeepsInv
<1> QED
    BY <1>2, <1>3, <1>4, <1>5

LEMMA AcksKeepInv == PsInv /\ (FreezeAck \/ CancellationAck) => PsInv'
<1> SUFFICES ASSUME PsInv, FreezeAck \/ CancellationAck
             PROVE  PsInv'
    OBVIOUS
<1> DEFINE frozen == [psDisk EXCEPT !.freeze = "done", !.phase = "frozen"]
           cancelled == [psDisk EXCEPT !.cancel = "done", !.phase = "cancelled",
                                       !.evidence = @ \union {<<"cancel", "logical">>}]
<1>1. UNCHANGED <<psSent, psEpoch, psSeen>>
    BY DEF FreezeAck, CancellationAck
<1>2. frozen \in Checkpoint /\ SameRequests(psDisk, frozen)
    BY DEF PsInv, SoundCheckpoint, Checkpoint, SameRequests, Phase, Progress
<1>3. cancelled \in Checkpoint /\ SameRequests(psDisk, cancelled)
    <2>1. <<"cancel", "logical">> \in (OpId \union {"freeze", "cancel"}) \X Answer
        BY DEF Answer
    <2> QED
        BY <2>1 DEF PsInv, SoundCheckpoint, Checkpoint, SameRequests, Phase, Progress
<1>4. Saves(frozen) \/ Saves(cancelled) \/ Poison(psDisk)
    BY DEF FreezeAck, CancellationAck
<1> QED
    BY <1>1, <1>2, <1>3, <1>4, SavesKeepsInv, PoisonKeepsInv

\* Only a checkpoint that admitted nobody is replaced by an empty one.
LEMMA AdmitKeepsInv == PsInv /\ Admit => PsInv'
<1> SUFFICES ASSUME PsInv, Admit
             PROVE  PsInv'
    OBVIOUS
<1> DEFINE admitted == [NoSession EXCEPT !.phase = "admitted", !.epoch = psSeen]
<1>1. UNCHANGED <<psEpoch, psSeen, psCall>> /\ psCall = NoCall /\ psDisk' = admitted /\ psSent' = {}
    BY DEF Admit, saveState
<1>2. admitted \in Checkpoint
    <2>1. NoSession \in Checkpoint
        BY DEF NoSession, Checkpoint, Phase, Progress
    <2>2. psSeen \in Nat /\ "admitted" \in Phase
        BY DEF PsInv, Phase
    <2> QED
        BY <2>1, <2>2 DEF Checkpoint
<1>3. admitted.ops = <<>> /\ admitted.next = 1 /\ admitted.phase = "admitted" /\ Len(<<>>) = 0
    BY DEF NoSession
<1>4. SoundCheckpoint(admitted)
    <2> HIDE DEF admitted
    <2> QED
        BY <1>2, <1>3 DEF SoundCheckpoint
<1>5. CallFits(admitted, NoCall)
    BY DEF CallFits, Call, NoCall
<1> QED
    BY <1>1, <1>4, <1>5 DEF PsInv, Covers

LEMMA PsInvStep == PsInv /\ [PsNext]_psVars => PsInv'
<1> SUFFICES ASSUME PsInv, [PsNext]_psVars
             PROVE  PsInv'
    OBVIOUS
<1>1. CASE Discover
    BY <1>1 DEF Discover, PsInv, CallFits
<1>2. CASE Admit
    BY <1>2, AdmitKeepsInv
<1>3. CASE Reconnect
    BY <1>3 DEF Reconnect, PsInv, CallFits
<1>4. ASSUME NEW id \in OpId, Replay(id)
      PROVE  PsInv'
    <2>1. PICK i \in Known(id) : psCall' = [step |-> "send", what |-> "op", index |-> i]
        BY <1>4 DEF Replay
    <2>2. i \in 1..Len(psDisk.ops) /\ i \in Nat
        BY <2>1 DEF Known
    <2> QED
        BY <1>4, <2>1, <2>2 DEF Replay, PsInv, CallFits, Call
<1>5. ASSUME NEW id \in OpId, NEW kind \in Kind, NEW nonce \in Nonce, runOperation(id, kind, nonce)
      PROVE  PsInv'
    BY <1>5, RunOperationKeepsInv
<1>6. CASE FreezeSession
    BY <1>6, FreezeSessionKeepsInv
<1>7. CASE CancelSession
    BY <1>7, CancelSessionKeepsInv
<1>8. CASE Send
    BY <1>8, SendKeepsInv
<1>9. CASE AnswerLost
    BY <1>9 DEF AnswerLost, PsReturn, NoCall, PsInv, CallFits, Call
<1>10. CASE sendOperation
    BY <1>10, sendOperationKeepsInv
<1>11. CASE FreezeAck \/ CancellationAck
    BY <1>11, AcksKeepInv
<1>12. CASE Crash
    BY <1>12 DEF Crash, NoCall, PsInv, CallFits, Call
<1>13. CASE ProviderRestarts
    BY <1>13 DEF ProviderRestarts, PsInv, CallFits
<1>14. CASE Expire
    BY <1>14 DEF Expire, PsInv, CallFits
<1>15. CASE UNCHANGED psVars
    BY <1>15 DEF psVars, PsInv, CallFits
<1> QED
    BY <1>1, <1>2, <1>3, <1>4, <1>5, <1>6, <1>7, <1>8, <1>9, <1>10, <1>11, <1>12, <1>13,
       <1>14, <1>15 DEF PsNext

----------------------------------------------------------------------------
\* What was sent is in the checkpoint, whose numbers and names are unique.
LEMMA PsInvImpliesSent == PsInv => SentAsCheckpointed
<1> SUFFICES ASSUME PsInv
             PROVE  SentAsCheckpointed
    OBVIOUS
<1>1. \A r \in psSent : r.seq > 0 => \E i \in 1..Len(psDisk.ops) : psDisk.ops[i].op = r
    BY DEF PsInv, Covers
<1>2. ASSUME NEW r \in psSent, NEW s \in psSent, r.seq > 0, s.seq > 0,
             r.seq = s.seq \/ r.id = s.id
      PROVE  r = s
    <2>1. PICK i \in 1..Len(psDisk.ops) : psDisk.ops[i].op = r
        BY <1>1, <1>2
    <2>2. PICK j \in 1..Len(psDisk.ops) : psDisk.ops[j].op = s
        BY <1>1, <1>2
    <2>3. r.seq = i /\ s.seq = j
        BY <2>1, <2>2 DEF PsInv, SoundCheckpoint
    <2>4. r.id = s.id => i = j
        BY <2>1, <2>2 DEF PsInv, SoundCheckpoint
    <2> QED
        BY <1>2, <2>1, <2>2, <2>3, <2>4
<1> QED
    BY <1>1, <1>2 DEF SentAsCheckpointed

\* From one admission of a session to the next, the provider is never sent a
\* request that the checkpoint does not hold as it was sent, nor two under one
\* number or one identifier: whatever the client lost, it can replay from its
\* checkpoint what the provider may have seen, and nothing else.
THEOREM SentIsCheckpointed == PsSpec => []SentAsCheckpointed
<1>1. PsSpec => []PsInv
    BY PsInvInit, PsInvStep, PTL DEF PsSpec
<1> QED
    BY <1>1, PsInvImpliesSent, PTL
----------------------------------------------------------------------------
\* The limit on operations, and the epochs of the provider.
PsRest ==
    /\ Len(psDisk.ops) <= MaxOps
    /\ psHandle \in BOOLEAN /\ psExpired \in BOOLEAN
    /\ psEpoch \in 1..MaxEpoch /\ psSeen \in 0..MaxEpoch

LEMMA PsRestInit == PsInit => PsRest
<1> SUFFICES ASSUME PsInit
             PROVE  PsRest
    OBVIOUS
<1>1. Len(psDisk.ops) = 0
    BY DEF PsInit, NoSession
<1>2. Len(psDisk.ops) <= MaxOps
    BY <1>1, ProviderAssumption DEF ProviderAssumption
<1>3. psEpoch = 1 /\ psSeen = 0
    BY DEF PsInit
<1>4. psEpoch \in 1..MaxEpoch /\ psSeen \in 0..MaxEpoch
    BY <1>3, ProviderAssumption DEF ProviderAssumption
<1>5. psHandle \in BOOLEAN /\ psExpired \in BOOLEAN
    BY DEF PsInit
<1> QED
    BY <1>2, <1>4, <1>5 DEF PsRest

\* Only an operation that is new makes a checkpoint longer, and only an
\* admission makes it shorter.
LEMMA LengthStays ==
    ASSUME PsInv, [PsNext]_psVars, ~Admit,
           \A id \in OpId, kind \in Kind, nonce \in Nonce : ~runOperation(id, kind, nonce)
    PROVE  Len(psDisk'.ops) = Len(psDisk.ops)
<1>1. psDisk \in Checkpoint
    BY DEF PsInv, SoundCheckpoint
<1>2. ASSUME Poison(psDisk)
      PROVE  psDisk'.ops = psDisk.ops
    BY <1>1, <1>2 DEF Poison, saveState, SaveFails, Checkpoint
<1>4. CASE FreezeSession \/ CancelSession
    <2>1. psDisk'.ops = psDisk.ops
        BY <1>1, <1>2, <1>4
        DEF FreezeSession, CancelSession, saveState, SaveFails, Checkpoint
    <2> QED
        BY <2>1
<1>5. CASE sendOperation
    <2> DEFINE i == psCall.index
    <2>1. i \in 1..Len(psDisk.ops)
        BY <1>5 DEF sendOperation, PsInv, CallFits
    <2>2. Len(PsApplied(psDisk, i).ops) = Len(psDisk.ops)
        BY <2>1, AppliedSameRequests DEF PsInv, SameRequests
    <2>3. UNCHANGED psDisk \/ Saves(PsApplied(psDisk, i)) \/ Poison(psDisk)
        <3>1. PICK answer : CASE answer = "unavailable" -> PsReturn /\ UNCHANGED psDisk
                [] answer = "right" /\ (psDisk.ops[i].op.kind = "closeout" => psDisk.quiesced # 0) ->
                     Saves(PsApplied(psDisk, i))
                [] OTHER -> Poison(psDisk)
            BY <1>5 DEF sendOperation
        <3> QED
            BY <3>1
    <2> QED
        BY <1>2, <2>2, <2>3 DEF Saves, saveState, SaveFails
<1>6. CASE FreezeAck \/ CancellationAck
    <2>1. psDisk'.ops = psDisk.ops
        BY <1>1, <1>2, <1>6
        DEF FreezeAck, CancellationAck, Saves, saveState, SaveFails, Checkpoint
    <2> QED
        BY <2>1
<1>7. CASE UNCHANGED psDisk
    BY <1>7
<1> QED
    BY <1>4, <1>5, <1>6, <1>7
    DEF PsNext, psVars, Discover, Reconnect, Replay, Send, AnswerLost, Crash,
        ProviderRestarts, Expire

\* A new operation finds room.
LEMMA RoomIsChecked ==
    ASSUME PsInv, Len(psDisk.ops) <= MaxOps,
           NEW id \in OpId, NEW kind \in Kind, NEW nonce \in Nonce, runOperation(id, kind, nonce)
    PROVE  Len(psDisk'.ops) <= MaxOps
<1> DEFINE saved == PsAppended(psDisk, id, kind, nonce)
<1>1. psDisk \in Checkpoint /\ psDisk.ops \in Seq(Entry) /\ Len(psDisk.ops) \in Nat
    BY DEF PsInv, SoundCheckpoint, Checkpoint
<1>2. psDisk.phase # "none"
    BY DEF runOperation, RequiredPhase, Kind, Enter, PsLoads
<1>3. CASE psDisk'.ops = psDisk.ops
    BY <1>3
<1>4. CASE psDisk' = saved /\ Known(id) = {} /\ RoomForOperation
    <2>1. SoundCheckpoint(saved)
        BY <1>2, <1>4, AppendedIsSound
    <2>2. saved.next = psDisk.next + 1
        BY <1>1 DEF PsAppended, Checkpoint
    <2>3. Len(saved.ops) = Len(psDisk.ops) + 1
        <3>1. Len(saved.ops) \in Nat /\ saved.next = Len(saved.ops) + 1
            BY <2>1 DEF SoundCheckpoint, Checkpoint
        <3>2. psDisk.next = Len(psDisk.ops) + 1
            BY DEF PsInv, SoundCheckpoint
        <3> HIDE DEF saved
        <3> QED
            BY <1>1, <2>2, <3>1, <3>2
    <2> QED
        BY <1>1, <1>4, <2>3, ProviderAssumption DEF RoomForOperation, ProviderAssumption
<1>5. \/ psDisk' = psDisk \/ Poison(psDisk)
      \/ psDisk' = saved /\ Known(id) = {} /\ RoomForOperation
    BY DEF runOperation, saveState, SaveFails
<1>6. Poison(psDisk) => psDisk'.ops = psDisk.ops
    BY <1>1 DEF Poison, saveState, SaveFails, Checkpoint
<1> QED
    BY <1>3, <1>4, <1>5, <1>6

LEMMA PsRestStep == PsInv /\ PsRest /\ [PsNext]_psVars => PsRest'
<1> SUFFICES ASSUME PsInv, PsRest, [PsNext]_psVars
             PROVE  PsRest'
    OBVIOUS
<1>1. Len(psDisk'.ops) <= MaxOps
    <2>1. CASE \E id \in OpId, kind \in Kind, nonce \in Nonce : runOperation(id, kind, nonce)
        BY <2>1, RoomIsChecked DEF PsRest
    <2>2. CASE Admit
        BY <2>2, ProviderAssumption DEF Admit, saveState, NoSession, ProviderAssumption
    <2>3. CASE ~Admit /\ \A id \in OpId, kind \in Kind, nonce \in Nonce : ~runOperation(id, kind, nonce)
        BY <2>3, LengthStays DEF PsRest
    <2> QED
        BY <2>1, <2>2, <2>3
<1>2. /\ psHandle' \in BOOLEAN /\ psExpired' \in BOOLEAN
      /\ psEpoch' \in 1..MaxEpoch /\ psSeen' \in 0..MaxEpoch
    <2>1. CASE Discover \/ Admit \/ Reconnect
        <3>1. /\ psSeen' \in {psSeen, psEpoch} /\ psEpoch' = psEpoch
              /\ psExpired' = psExpired \/ psExpired' = FALSE
              /\ psHandle' = psHandle \/ psHandle' = TRUE
            BY <2>1 DEF Discover, Admit, Reconnect
        <3>2. psSeen' \in 0..MaxEpoch
            BY <3>1, ProviderAssumption DEF PsRest, ProviderAssumption
        <3> QED
            BY <3>1, <3>2 DEF PsRest
    <2>2. CASE Crash \/ ProviderRestarts \/ Expire
        <3>1. /\ psSeen' \in {psSeen, 0}
              /\ psEpoch' = psEpoch \/ (psEpoch < MaxEpoch /\ psEpoch' = psEpoch + 1)
            BY <2>2 DEF Crash, ProviderRestarts, Expire
        <3>2. psSeen' \in 0..MaxEpoch /\ psEpoch' \in 1..MaxEpoch
            BY <3>1, ProviderAssumption DEF PsRest, ProviderAssumption
        <3>3. psHandle' \in BOOLEAN /\ psExpired' \in BOOLEAN
            BY <2>2 DEF Crash, ProviderRestarts, Expire, PsRest
        <3> QED
            BY <3>2, <3>3 DEF PsRest
    <2>3. CASE UNCHANGED <<psHandle, psSeen, psEpoch, psExpired>>
        BY <2>3 DEF PsRest
    <2> QED
        BY <2>1, <2>2, <2>3
        DEF PsNext, psVars, Replay, runOperation, FreezeSession, CancelSession, Send,
            AnswerLost, sendOperation, FreezeAck, CancellationAck
<1> QED
    BY <1>1, <1>2 DEF PsRest

LEMMA ProviderHasItsTypes == PsSpec => []PsTypeOK
<1>1. PsSpec => [](PsInv /\ PsRest)
    BY PsInvInit, PsInvStep, PsRestInit, PsRestStep, PTL DEF PsSpec
<1>2. PsInv /\ PsRest => PsTypeOK
    <2> SUFFICES ASSUME PsInv, PsRest
                 PROVE  PsTypeOK
        OBVIOUS
    <2>1. psDisk.phase \in Phase /\ Len(psDisk.ops) \in Nat /\ psDisk.next = Len(psDisk.ops) + 1
        BY DEF PsInv, SoundCheckpoint, Checkpoint
    <2>2. psDisk.next \in 1..(MaxOps + 1)
        BY <2>1, ProviderAssumption DEF PsRest, ProviderAssumption
    <2>3. psCall.step \in {"idle", "send", "answer"}
        BY DEF PsInv, CallFits, Call
    <2> QED
        BY <2>1, <2>2, <2>3 DEF PsRest, PsTypeOK
<1> QED
    BY <1>1, <1>2, PTL
=============================================================================
