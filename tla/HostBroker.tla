------------------------------ MODULE HostBroker ------------------------------
(***************************************************************************)
(* The per-session socket of the host broker: it opens only for a          *)
(* confirmed sandbox with every launch fact, serves one connection at a    *)
(* time under a deadline, forwards accepted requests to the broker         *)
(* (external) under authority taken from the launch facts, and Close waits *)
(* for the request in progress.  A call of the broker that times out ends  *)
(* without taking the request back.                                        *)
(***************************************************************************)
EXTENDS Naturals, FiniteSets

CONSTANT HbConn \* connections the agent makes

\* What the agent sends: a well-formed request, one that names an authority
\* field or is malformed or incomplete, or nothing until the deadline.
HbRequest == {"valid", "claims", "silent"}

VARIABLES
    hbFacts,   \* the sandbox is confirmed and every fact present
    hbSession, \* "new", "open", "closing", "closed" or "refused"
    hbServing, \* the connection in handleConn, or none as a set
    hbAt,      \* hbAt[k]: where connection k is
    hbSent,    \* hbSent[k]: what k sent
    hbAgentUp, \* hbAgentUp[k]: the agent still waits for its answer
    hbBroker,  \* hbBroker[k]: the broker "has" k's request, has "said" its
               \* answer, or "none"
    hbCut,     \* the connections whose call of the broker timed out
    hbLedger,  \* hbLedger[k]: deliveries of k's request the broker recorded
    hbServe    \* the serve goroutine runs

brokerVars == <<hbBroker, hbCut, hbLedger>>
hbVars ==
    <<hbFacts, hbSession, hbServing, hbAt, hbSent, hbAgentUp, brokerVars, hbServe>>

HbInit ==
    /\ hbFacts \in BOOLEAN /\ hbSession = "new" /\ hbServing = {} /\ hbServe = FALSE
    /\ hbAt = [k \in HbConn |-> "none"] /\ hbSent \in [HbConn -> HbRequest]
    /\ hbAgentUp = [k \in HbConn |-> FALSE] /\ hbLedger = [k \in HbConn |-> 0]
    /\ hbBroker = [k \in HbConn |-> "none"] /\ hbCut = {}

\* confirmSandboxBoundary
confirmSandboxBoundary == hbFacts

\* Open: refused without a confirmed boundary; else the socket is bound in
\* the runtime directory, and serve runs.
Open ==
    /\ hbSession = "new"
    /\ hbSession' = IF confirmSandboxBoundary THEN "open" ELSE "refused"
    /\ hbServe' = confirmSandboxBoundary
    /\ UNCHANGED <<hbFacts, hbServing, hbAt, hbSent, hbAgentUp, brokerVars>>

\* The agent connects; the connection waits in the listener's queue.
Connect(k) ==
    /\ hbSession = "open" /\ hbAt[k] = "none"
    /\ hbAt' = [hbAt EXCEPT ![k] = "queued"]
    /\ hbAgentUp' = [hbAgentUp EXCEPT ![k] = TRUE]
    /\ UNCHANGED <<hbFacts, hbSession, hbServing, hbSent, brokerVars, hbServe>>

\* Slip: every connection gets a goroutine of its own.
AcceptBusy(k) ==
    /\ hbServe /\ hbSession = "open" /\ hbAt[k] = "queued"
    /\ hbServing' = hbServing \union {k} /\ hbAt' = [hbAt EXCEPT ![k] = "decode"]
    /\ UNCHANGED <<hbFacts, hbSession, hbSent, hbAgentUp, brokerVars, hbServe>>

\* serve accepts the next connection when it is done with the last one.
Accept(k) ==
    /\ hbServe /\ hbSession = "open" /\ hbServing = {} /\ hbAt[k] = "queued"
    /\ hbServing' = {k} /\ hbAt' = [hbAt EXCEPT ![k] = "decode"]
    /\ UNCHANGED <<hbFacts, hbSession, hbSent, hbAgentUp, brokerVars, hbServe>>

\* handle: the decoding is strict, so a request that brings its own authority
\* is refused like a malformed one.
Decode(k) ==
    /\ hbAt[k] = "decode" /\ hbSent[k] # "silent"
    /\ hbAt' = [hbAt EXCEPT ![k] = IF hbSent[k] = "valid" THEN "deliver" ELSE "reply"]
    /\ UNCHANGED <<hbFacts, hbSession, hbServing, hbSent, hbAgentUp, brokerVars, hbServe>>

\* The thirty-second deadline of the agent's connection ends the reading of a
\* silent agent; what is being delivered goes on without it.
Deadline(k) ==
    /\ hbAt[k] \in {"decode", "deliver", "sent"} /\ hbAgentUp[k]
    /\ hbAgentUp' = [hbAgentUp EXCEPT ![k] = FALSE]
    /\ hbAt' = [hbAt EXCEPT ![k] = IF hbAt[k] = "decode" THEN "reply" ELSE @]
    /\ UNCHANGED <<hbFacts, hbSession, hbServing, hbSent, brokerVars, hbServe>>

\* invokeDelivery mints the attestation and sends the request to the broker,
\* unless minting, dialling or sending fails.
Deliver(k) ==
    /\ hbAt[k] = "deliver"
    /\ \/ /\ hbAt' = [hbAt EXCEPT ![k] = "sent"]
          /\ hbBroker' = [hbBroker EXCEPT ![k] = "has"]
       \/ hbAt' = [hbAt EXCEPT ![k] = "reply"] /\ UNCHANGED hbBroker
    /\ UNCHANGED <<hbFacts, hbSession, hbServing, hbSent, hbAgentUp, hbCut, hbLedger,
                   hbServe>>

\* The broker gets to the request, whether or not anyone waits for it: it
\* records the delivery, or refuses it.
BrokerDecides(k) ==
    /\ hbBroker[k] = "has" /\ hbBroker' = [hbBroker EXCEPT ![k] = "said"]
    /\ hbLedger' = [hbLedger EXCEPT ![k] = @ + 1] \/ UNCHANGED hbLedger
    /\ UNCHANGED <<hbFacts, hbSession, hbServing, hbAt, hbSent, hbAgentUp, hbCut,
                   hbServe>>

\* roundTrip reads the broker's answer.
Answered(k) ==
    /\ hbAt[k] = "sent" /\ hbBroker[k] = "said"
    /\ hbAt' = [hbAt EXCEPT ![k] = "reply"]
    /\ UNCHANGED <<hbFacts, hbSession, hbServing, hbSent, hbAgentUp, brokerVars, hbServe>>

\* Or its thirty seconds are over, or the broker hangs up: an error to the
\* caller, and no word to the broker.
CallBreaks(k) ==
    /\ hbAt[k] = "sent"
    /\ hbAt' = [hbAt EXCEPT ![k] = "reply"] /\ hbCut' = hbCut \union {k}
    /\ UNCHANGED <<hbFacts, hbSession, hbServing, hbSent, hbAgentUp, hbBroker, hbLedger,
                   hbServe>>

\* The answer is written if the agent is still there, and the connection
\* closed.
Reply(k) ==
    /\ hbAt[k] = "reply" /\ hbServing' = hbServing \ {k}
    /\ hbAt' = [hbAt EXCEPT ![k] = "done"]
    /\ UNCHANGED <<hbFacts, hbSession, hbSent, hbAgentUp, brokerVars, hbServe>>

\* Close, first half: the listener is closed, and with it the queue.
BeginClose ==
    /\ hbSession = "open" /\ hbSession' = "closing"
    /\ hbAt' = [k \in HbConn |-> IF hbAt[k] = "queued" THEN "done" ELSE hbAt[k]]
    /\ UNCHANGED <<hbFacts, hbServing, hbSent, hbAgentUp, brokerVars, hbServe>>

\* Accept fails on the closed listener, and serve returns.
EndServe ==
    /\ hbServe /\ hbSession = "closing" /\ hbServing = {} /\ hbServe' = FALSE
    /\ UNCHANGED <<hbFacts, hbSession, hbServing, hbAt, hbSent, hbAgentUp, brokerVars>>

\* Slip: Close returns as soon as the listener is closed.
CloseAtOnce ==
    /\ hbSession = "closing" /\ hbSession' = "closed"
    /\ UNCHANGED <<hbFacts, hbServing, hbAt, hbSent, hbAgentUp, brokerVars, hbServe>>

\* Close, second half: it waits for serve, then removes the directory.
EndClose ==
    /\ hbSession = "closing" /\ ~hbServe /\ hbSession' = "closed"
    /\ UNCHANGED <<hbFacts, hbServing, hbAt, hbSent, hbAgentUp, brokerVars, hbServe>>

HbNext ==
    \/ Open \/ BeginClose \/ EndServe \/ EndClose
    \/ \E k \in HbConn :
         \/ Connect(k) \/ Accept(k) \/ Decode(k) \/ Deadline(k) \/ Deliver(k)
         \/ BrokerDecides(k) \/ Answered(k) \/ CallBreaks(k) \/ Reply(k)

HbSpec == HbInit /\ [][HbNext]_hbVars

----------------------------------------------------------------------------

\* Types of the variables.
HbTypeOK ==
    /\ hbFacts \in BOOLEAN /\ hbServe \in BOOLEAN
    /\ hbSession \in {"new", "open", "closing", "closed", "refused"}
    /\ hbServing \in SUBSET HbConn /\ Cardinality(hbServing) <= 1
    /\ hbAt \in [HbConn -> {"none", "queued", "decode", "deliver", "sent", "reply", "done"}]
    /\ hbSent \in [HbConn -> HbRequest] /\ hbAgentUp \in [HbConn -> BOOLEAN]
    /\ hbBroker \in [HbConn -> {"none", "has", "said"}] /\ hbCut \in SUBSET HbConn
    /\ hbLedger \in [HbConn -> 0..1]

\* After Close has returned no request is in a handler and none is sent to the
\* broker under this session's authority; and what the broker still records is
\* a request whose call broke before Close returned.  The code does not take
\* such a request back (client.go:118), so a delivery may follow Close.
QuietAfterClose ==
    [][hbSession = "closed" =>
          /\ UNCHANGED hbServing
          /\ \A k \in HbConn :
               /\ hbBroker[k] = "none" => hbBroker'[k] = "none"
               /\ hbLedger'[k] # hbLedger[k] => k \in hbCut]_hbVars
=============================================================================
