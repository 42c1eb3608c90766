------------------------- MODULE PlanescapeProvider -------------------------
(***************************************************************************)
(* The client of a shared containment provider: discovery, admission, and  *)
(* one session's operations, freeze, cancellation and closeout, each saved *)
(* in a durable checkpoint before it is sent and again when its answer is  *)
(* in. The client may crash or lose an answer anywhere and later reconnect *)
(* and replay. The provider is external: it takes what it is sent and      *)
(* answers rightly, wrongly or not at all.                                 *)
(***************************************************************************)
EXTENDS Naturals, Sequences, FiniteSets

CONSTANTS
    OpId,      \* operation identifiers the product uses
    Nonce,     \* what else of a request must not change: nonce and hashes
    MaxOps,    \* operations of a session (64 in the code)
    MaxEpoch   \* provider restarts

ProviderAssumption == MaxOps \in Nat /\ MaxEpoch \in Nat \ {0}
ASSUME ProviderAssumption

Phase == {"none", "admitted", "active", "quiescent", "frozen", "cancelled", "closed"}
Kind == {"agent_start", "tool", "pause", "closeout"}  \* workspace is like tool

\* The phase an operation needs and the record that answers it.
RequiredPhase(kind) == CASE kind = "agent_start" -> "admitted"
                         [] kind = "tool" -> "active"
                         [] kind = "pause" -> "active"
                         [] kind = "closeout" -> "frozen"
ExpectedResponse(kind) == CASE kind = "pause" -> "quiescence"
                            [] kind = "closeout" -> "closeout"
                            [] OTHER -> "operation_result"

VARIABLES
    psDisk,     \* the checkpoint of the session
    psHandle,   \* the product holds a Session
    psSeen,     \* the epoch of the discovery the product holds, 0: none
    psCall,     \* the call in progress, which holds the client's mutex
    psEpoch,    \* the provider's epoch
    psExpired,  \* the admission has expired
    psSent      \* every record the provider has received since the session was
                \* last admitted

psVars == <<psDisk, psHandle, psSeen, psCall, psEpoch, psExpired, psSent>>

NoCall == [step |-> "idle", what |-> "none", index |-> 0]
NoSession == [phase |-> "none", epoch |-> 0, next |-> 1, ops |-> <<>>, quiesced |-> 0,
              freeze |-> "none", cancel |-> "none", evidence |-> {}, poisoned |-> FALSE]

PsInit ==
    /\ psDisk = NoSession /\ psHandle = FALSE /\ psSeen = 0 /\ psCall = NoCall
    /\ psEpoch = 1 /\ psExpired = FALSE /\ psSent = {}

----------------------------------------------------------------------------
(* Records.                                                                *)

\* Capabilities and resources a requirement may ask for; the provider has all
\* but the last.
Capability == {"workspace_read", "tool_execute", "apply_patch"}
Advertised == {"workspace_read", "tool_execute"}
Satisfies(profile, required) ==
    profile = required \/ (profile = "stock_linux" /\ required = "portable")
Admissible(required, profile) == required \subseteq Advertised /\ Satisfies("portable", profile)

\* newAgentOperation: the session, the sequence and the plan come from the
\* checkpoint, the rest from the product.
Operation(seq, id, kind, nonce) == [seq |-> seq, id |-> id, kind |-> kind, nonce |-> nonce]

\* What a record may be to the one who asked for it: malformed, bound to
\* another session or operation, or right.
OperationResult == {"malformed", "other", "unavailable", "right"}
Quiescence == {"malformed", "other", "right"}
Closeout == {"malformed", "other", "right"}
Answers(kind) == CASE ExpectedResponse(kind) = "operation_result" -> OperationResult
                   [] ExpectedResponse(kind) = "quiescence" -> Quiescence
                   [] OTHER -> Closeout

----------------------------------------------------------------------------
(* The store. A save that reports an error may or may not have happened.   *)

saveState(disk) == psDisk' = disk
SaveFails(disk) == psDisk' \in {psDisk, disk}
PsReturn == psCall' = NoCall

\* loadState refuses a checkpoint whose phase its records do not support.
PsLoads(disk) ==
    /\ disk.phase # "none"
    /\ disk.phase \in {"quiescent", "frozen", "closed"} => disk.quiesced # 0
    /\ disk.freeze # "none" => disk.quiesced # 0
    /\ disk.phase = "frozen" => disk.freeze = "done"
    /\ disk.phase = "cancelled" => disk.cancel = "done"
    /\ \A i \in 1..Len(disk.ops) : disk.ops[i].op.seq < disk.next

Poison(disk) ==
    /\ saveState([disk EXCEPT !.poisoned = TRUE]) \/ SaveFails([disk EXCEPT !.poisoned = TRUE])
    /\ PsReturn

\* A call of the product's session, while no other is in progress.
Enter == psHandle /\ psCall = NoCall /\ PsLoads(psDisk) /\ ~psDisk.poisoned

----------------------------------------------------------------------------
(* Discovery, admission and reconnection.                                  *)

Discover ==
    /\ psCall = NoCall /\ psSeen # psEpoch /\ psSeen' = psEpoch
    /\ UNCHANGED <<psDisk, psHandle, psCall, psEpoch, psExpired, psSent>>

\* The admission must bind the provider and epoch that were discovered. It is
\* saved as a fresh state under the identifier that the provider returns, over
\* whatever that identifier has in the store: a second admission that is
\* answered with the session of the first begins it anew, at sequence number
\* one. (One that is answered with another identifier is another session.)
Admit ==
    /\ psCall = NoCall /\ psSeen # 0
    /\ \E required \in SUBSET Capability, profile \in {"portable", "stock_linux"} :
         Admissible(required, profile)
    /\ saveState([NoSession EXCEPT !.phase = "admitted", !.epoch = psSeen])
    /\ psHandle' \in {psHandle, TRUE}  \* the save may report an error
    /\ psExpired' = FALSE /\ psSent' = {}
    /\ UNCHANGED <<psSeen, psCall, psEpoch>>

Reconnect ==
    /\ psCall = NoCall /\ ~psHandle /\ psSeen # 0
    /\ PsLoads(psDisk) /\ ~psDisk.poisoned /\ psDisk.epoch = psSeen /\ ~psExpired
    /\ psHandle' = TRUE
    /\ UNCHANGED <<psDisk, psSeen, psCall, psEpoch, psExpired, psSent>>

----------------------------------------------------------------------------
(* Operations.                                                             *)

Known(id) == {i \in 1..Len(psDisk.ops) : psDisk.ops[i].op.id = id}

PsAppended(disk, id, kind, nonce) ==
    [disk EXCEPT !.ops = Append(@, [op |-> Operation(disk.next, id, kind, nonce), done |-> FALSE]),
                 !.next = @ + 1]

\* Slip: the limit is off by one.
RoomForOneMore == Len(psDisk.ops) <= MaxOps

RoomForOperation == Len(psDisk.ops) < MaxOps

\* Slip: the request is sent first and saved together with its answer.
SendBeforeSave(id, kind, nonce) ==
    /\ Enter /\ ~psExpired /\ psDisk.phase = RequiredPhase(kind)
    /\ Known(id) = {} /\ RoomForOperation
    /\ psSent' = psSent \union {Operation(psDisk.next, id, kind, nonce)}
    /\ \/ saveState(PsAppended(psDisk, id, kind, nonce)) /\ psCall' = [step |-> "answer", what |-> "op", index |-> Len(psDisk.ops) + 1]
       \/ UNCHANGED psDisk /\ PsReturn
    /\ UNCHANGED <<psHandle, psSeen, psEpoch, psExpired>>

\* runOperation: an identifier already used must name the very same request;
\* a new one is saved before it is sent.
runOperation(id, kind, nonce) ==
    /\ Enter /\ ~psExpired /\ psDisk.phase = RequiredPhase(kind)
    /\ IF Known(id) # {}
       THEN LET i == CHOOSE j \in Known(id) : TRUE
                op == psDisk.ops[i].op IN
            IF op.kind = kind /\ op.nonce = nonce
            THEN psCall' = [step |-> "send", what |-> "op", index |-> i] /\ UNCHANGED psDisk
            ELSE Poison(psDisk)
       ELSE /\ RoomForOperation
            /\ LET saved == PsAppended(psDisk, id, kind, nonce) IN
               \/ saveState(saved) /\ psCall' = [step |-> "send", what |-> "op", index |-> Len(saved.ops)]
               \/ SaveFails(saved) /\ PsReturn
    /\ UNCHANGED <<psHandle, psSeen, psEpoch, psExpired, psSent>>

\* Replay asks neither for a phase nor for an unexpired admission.
Replay(id) ==
    /\ Enter
    /\ \E i \in Known(id) : psCall' = [step |-> "send", what |-> "op", index |-> i]
    /\ UNCHANGED <<psDisk, psHandle, psSeen, psEpoch, psExpired, psSent>>

\* A Freeze or Cancel that was asked for before must be the same one.
FreezeSession ==
    /\ Enter /\ ~psExpired
    /\ psDisk.phase = "quiescent" \/ (psDisk.freeze # "none" /\ psDisk.phase = "frozen")
    /\ LET saved == [psDisk EXCEPT !.freeze = "asked"] IN
       \/ psDisk.freeze = "none" /\ saveState(saved) /\ psCall' = [step |-> "send", what |-> "freeze", index |-> 0]
       \/ psDisk.freeze = "none" /\ SaveFails(saved) /\ PsReturn
       \/ psDisk.freeze # "none" /\ UNCHANGED psDisk /\ psCall' = [step |-> "send", what |-> "freeze", index |-> 0]
       \/ psDisk.freeze # "none" /\ Poison(psDisk)
    /\ UNCHANGED <<psHandle, psSeen, psEpoch, psExpired, psSent>>

CancelSession ==
    /\ Enter /\ ~psExpired
    /\ psDisk.phase = "active" \/ (psDisk.cancel # "none" /\ psDisk.phase = "cancelled")
    /\ LET saved == [psDisk EXCEPT !.cancel = "asked"] IN
       \/ psDisk.cancel = "none" /\ saveState(saved) /\ psCall' = [step |-> "send", what |-> "cancel", index |-> 0]
       \/ psDisk.cancel = "none" /\ SaveFails(saved) /\ PsReturn
       \/ psDisk.cancel # "none" /\ UNCHANGED psDisk /\ psCall' = [step |-> "send", what |-> "cancel", index |-> 0]
       \/ psDisk.cancel # "none" /\ Poison(psDisk)
    /\ UNCHANGED <<psHandle, psSeen, psEpoch, psExpired, psSent>>

----------------------------------------------------------------------------
(* The exchange with the provider.                                         *)

Request == IF psCall.what = "op" THEN psDisk.ops[psCall.index].op
           ELSE Operation(0, psCall.what, psCall.what, "none")

\* roundTrip: the frame may not arrive, which is an error to the caller.
Send ==
    /\ psCall.step = "send"
    /\ \/ psSent' = psSent \union {Request} /\ psCall' = [psCall EXCEPT !.step = "answer"]
       \/ PsReturn /\ UNCHANGED psSent
    /\ UNCHANGED <<psDisk, psHandle, psSeen, psEpoch, psExpired>>

\* endpointError: a lost answer or a failure of the provider.
AnswerLost ==
    /\ psCall.step = "answer" /\ PsReturn
    /\ UNCHANGED <<psDisk, psHandle, psSeen, psEpoch, psExpired, psSent>>

Saves(disk) == (saveState(disk) \/ SaveFails(disk)) /\ PsReturn

\* sendOperation: what a right answer makes of the checkpoint, the first time.
PsApplied(disk, i) ==
    LET entry == disk.ops[i]
        evidence == disk.evidence \union {<<entry.op.id, ExpectedResponse(entry.op.kind)>>}
        done == [disk EXCEPT !.ops[i].done = TRUE] IN
    IF entry.done THEN done
    ELSE CASE ExpectedResponse(entry.op.kind) = "operation_result" ->
                [done EXCEPT !.phase = "active", !.evidence = evidence]
           [] ExpectedResponse(entry.op.kind) = "quiescence" ->
                [done EXCEPT !.phase = "quiescent", !.quiesced = entry.op.seq, !.evidence = evidence]
           [] OTHER -> [done EXCEPT !.phase = "closed", !.evidence = evidence]

sendOperation ==
    /\ psCall.step = "answer" /\ psCall.what = "op"
    /\ LET i == psCall.index   kind == psDisk.ops[i].op.kind IN
       \E answer \in Answers(kind) :
          CASE answer = "unavailable" -> PsReturn /\ UNCHANGED psDisk
            [] answer = "right" /\ (kind = "closeout" => psDisk.quiesced # 0) ->
                 Saves(PsApplied(psDisk, i))
            [] OTHER -> Poison(psDisk)
    /\ UNCHANGED <<psHandle, psSeen, psEpoch, psExpired, psSent>>

FreezeAck ==
    /\ psCall.step = "answer" /\ psCall.what = "freeze"
    /\ \/ Saves([psDisk EXCEPT !.freeze = "done", !.phase = "frozen"])
       \/ Poison(psDisk)
    /\ UNCHANGED <<psHandle, psSeen, psEpoch, psExpired, psSent>>

CancellationAck ==
    /\ psCall.step = "answer" /\ psCall.what = "cancel"
    /\ \/ Saves([psDisk EXCEPT !.cancel = "done", !.phase = "cancelled",
                               !.evidence = @ \union {<<"cancel", "logical">>}])
       \/ Poison(psDisk)
    /\ UNCHANGED <<psHandle, psSeen, psEpoch, psExpired, psSent>>

----------------------------------------------------------------------------
(* What the client does not choose.                                        *)

\* The client's process ends; the checkpoint and the provider remain.
Crash ==
    /\ psHandle \/ psCall # NoCall \/ psSeen # 0
    /\ psHandle' = FALSE /\ psCall' = NoCall /\ psSeen' = 0
    /\ UNCHANGED <<psDisk, psEpoch, psExpired, psSent>>

ProviderRestarts ==
    /\ psEpoch < MaxEpoch /\ psEpoch' = psEpoch + 1
    /\ UNCHANGED <<psDisk, psHandle, psSeen, psCall, psExpired, psSent>>

Expire ==
    /\ psDisk.phase # "none" /\ ~psExpired /\ psExpired' = TRUE
    /\ UNCHANGED <<psDisk, psHandle, psSeen, psCall, psEpoch, psSent>>

PsNext ==
    \/ Discover \/ Admit \/ Reconnect
    \/ \E id \in OpId : Replay(id)
    \/ \E id \in OpId, kind \in Kind, nonce \in Nonce : runOperation(id, kind, nonce)
    \/ FreezeSession \/ CancelSession \/ Send \/ AnswerLost \/ sendOperation
    \/ FreezeAck \/ CancellationAck \/ Crash \/ ProviderRestarts \/ Expire

PsSpec == PsInit /\ [][PsNext]_psVars

----------------------------------------------------------------------------
\* The state has its types.
PsTypeOK ==
    /\ psDisk.phase \in Phase /\ psDisk.next \in 1..(MaxOps + 1) /\ Len(psDisk.ops) <= MaxOps
    /\ psHandle \in BOOLEAN /\ psSeen \in 0..MaxEpoch /\ psEpoch \in 1..MaxEpoch
    /\ psCall.step \in {"idle", "send", "answer"} /\ psExpired \in BOOLEAN

\* From one admission of a session to the next, whatever the provider has
\* received is in the checkpoint, word for word, and no identifier and no
\* sequence number names two requests: so a client that crashed, lost an answer
\* or could not save may replay any of them.
SentAsCheckpointed ==
    /\ \A r \in psSent : r.seq > 0 => \E i \in 1..Len(psDisk.ops) : psDisk.ops[i].op = r
    /\ \A r, s \in psSent : r.seq > 0 /\ s.seq > 0 /\ (r.seq = s.seq \/ r.id = s.id) => r = s

\* The closed set of lifecycle transitions the contract lists (contract.go:
\* admitted_to_active, active_to_quiescent, quiescent_to_frozen,
\* active_to_cancelled, frozen_to_closed).
PhasesFollowTransitions ==
    [][psDisk'.phase # psDisk.phase =>
         <<psDisk.phase, psDisk'.phase>> \in
            {<<"none", "admitted">>, <<"admitted", "active">>, <<"active", "quiescent">>,
             <<"quiescent", "frozen">>, <<"active", "cancelled">>, <<"frozen", "closed">>}]_psVars
=============================================================================
