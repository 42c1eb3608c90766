------------------------------ MODULE EgressAudit -----------------------------
(***************************************************************************)
(* The egress report of an audited install: a baseline snapshot of the     *)
(* connections, a goroutine that polls while the command runs, the join of *)
(* that goroutine, a last snapshot and the report of what is new.          *)
(***************************************************************************)
EXTENDS FiniteSets

CONSTANT Endpoint \* endpoints the agent may connect to

VARIABLES
    auStep,     \* where runAuditInstallExec is
    auOpen,     \* the established connections, now
    auBaseline, \* the first snapshot
    auObserved, \* the snapshots merged so far
    auPoller,   \* the goroutine: "none", "idle", "holding", "over"
    auHeld,     \* the snapshot it took and has not merged
    auSnapped,  \* what any successful snapshot after the baseline saw
    auErrs,     \* a snapshot failed
    auReport,   \* the endpoints reported as new
    auResult    \* "none", "ok", "telemetry" or "command"

auVars == <<auStep, auOpen, auBaseline, auObserved, auPoller, auHeld, auSnapped,
            auErrs, auReport, auResult>>

AuInit ==
    /\ auStep = "baseline" /\ auOpen \in SUBSET Endpoint
    /\ auBaseline = {} /\ auObserved = {} /\ auPoller = "none" /\ auHeld = {}
    /\ auSnapped = {} /\ auErrs = FALSE /\ auReport = {} /\ auResult = "none"

\* Connections come and go, also between two polls.
Traffic ==
    /\ auOpen' \in SUBSET Endpoint /\ auStep # "over"
    /\ UNCHANGED <<auStep, auBaseline, auObserved, auPoller, auHeld, auSnapped,
                   auErrs, auReport, auResult>>

\* A baseline that fails ends the audit before the command.
Baseline ==
    /\ auStep = "baseline"
    /\ \/ /\ auStep' = "run" /\ auBaseline' = auOpen /\ auPoller' = "idle"
          /\ UNCHANGED auResult
       \/ /\ auStep' = "over" /\ auResult' = "telemetry"
          /\ UNCHANGED <<auBaseline, auPoller>>
    /\ UNCHANGED <<auOpen, auObserved, auHeld, auSnapped, auErrs, auReport>>

\* The ticker fires: a snapshot, or its error, which is recorded.
Poll ==
    /\ auPoller = "idle" /\ auStep \in {"run", "join"}
    /\ \/ /\ auPoller' = "holding" /\ auHeld' = auOpen
          /\ auSnapped' = auSnapped \union auOpen /\ UNCHANGED auErrs
       \/ auErrs' = TRUE /\ UNCHANGED <<auPoller, auHeld, auSnapped>>
    /\ UNCHANGED <<auStep, auOpen, auBaseline, auObserved, auReport, auResult>>

\* The snapshot is merged under the lock.
Merge ==
    /\ auPoller = "holding" /\ auPoller' = "idle"
    /\ auObserved' = auObserved \union auHeld /\ auHeld' = {}
    /\ UNCHANGED <<auStep, auOpen, auBaseline, auSnapped, auErrs, auReport, auResult>>

\* The command ends, with or without an error, and done is closed.
CommandEnds ==
    /\ auStep = "run" /\ auStep' = "join" /\ auResult' \in {"none", "command"}
    /\ UNCHANGED <<auOpen, auBaseline, auObserved, auPoller, auHeld, auSnapped,
                   auErrs, auReport>>

\* The goroutine sees done, between two rounds.
PollerEnds ==
    /\ auStep = "join" /\ auPoller = "idle" /\ auPoller' = "over"
    /\ UNCHANGED <<auStep, auOpen, auBaseline, auObserved, auHeld, auSnapped, auErrs,
                   auReport, auResult>>

\* Slip: the last snapshot does not wait for the goroutine.
FinalWithoutJoin ==
    /\ auStep = "join" /\ auStep' = "report"
    /\ auObserved' = auObserved \union auOpen /\ auSnapped' = auSnapped \union auOpen
    /\ UNCHANGED <<auOpen, auBaseline, auPoller, auHeld, auErrs, auReport, auResult>>

\* wg.Wait, then the last snapshot.
FinalSnapshot ==
    /\ auStep = "join" /\ auPoller = "over" /\ auStep' = "report"
    /\ \/ /\ auObserved' = auObserved \union auOpen
          /\ auSnapped' = auSnapped \union auOpen /\ UNCHANGED auErrs
       \/ auErrs' = TRUE /\ UNCHANGED <<auObserved, auSnapped>>
    /\ UNCHANGED <<auOpen, auBaseline, auPoller, auHeld, auReport, auResult>>

\* buildAuditInstallReport, and what is returned: the command's error comes
\* before the telemetry's.
Report ==
    /\ auStep = "report" /\ auStep' = "over"
    /\ auReport' = auObserved \ auBaseline
    /\ auResult' = IF auResult = "command" THEN "command"
                   ELSE IF auErrs THEN "telemetry" ELSE "ok"
    /\ UNCHANGED <<auOpen, auBaseline, auObserved, auPoller, auHeld, auSnapped, auErrs>>

AuNext ==
    \/ Traffic \/ Baseline \/ Poll \/ Merge \/ CommandEnds \/ PollerEnds
    \/ FinalSnapshot \/ Report

AuSpec == AuInit /\ [][AuNext]_auVars

----------------------------------------------------------------------------

\* Types of the variables.
AuTypeOK ==
    /\ auStep \in {"baseline", "run", "join", "report", "over"}
    /\ auOpen \in SUBSET Endpoint /\ auBaseline \in SUBSET Endpoint
    /\ auObserved \in SUBSET Endpoint /\ auHeld \in SUBSET Endpoint
    /\ auSnapped \in SUBSET Endpoint /\ auReport \in SUBSET Endpoint
    /\ auPoller \in {"none", "idle", "holding", "over"}
    /\ auErrs \in BOOLEAN /\ auResult \in {"none", "ok", "telemetry", "command"}

\* The report names exactly what some successful snapshot saw and the
\* baseline did not: nothing the poller saw is lost when the command ends
\* while it is between a snapshot and its merge.
ReportHasEverySnapshot ==
    auStep = "over" /\ auPoller # "none" => auReport = auSnapped \ auBaseline
=============================================================================
