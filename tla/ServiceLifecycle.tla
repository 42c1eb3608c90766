--------------------------- MODULE ServiceLifecycle ---------------------------
(***************************************************************************)
(* The lifecycle of a session service, as serviceharness.Runner and        *)
(* proxyruntime.ServiceRunner both run it: the request is validated, the   *)
(* residue of earlier runs is cleaned, the credentials are materialised,   *)
(* the service is started, attached to and stopped. Every call on the      *)
(* store, the credential manager and the service may fail, and the process *)
(* may die between any two of them.                                        *)
(***************************************************************************)
EXTENDS Naturals

CONSTANT MaxRuns \* runs of services, one after the other

ASSUME ServiceAssumption == MaxRuns \in Nat \ {0}

Part == {"service", "credential"}
SvcRun == 1..MaxRuns

\* What a request asks for that decides whether it is served.
SvcRequest == [unsafe  : BOOLEAN, \* a feature, attachment or backend that is denied
               typed   : BOOLEAN, \* typed credentials, else none
               manager : BOOLEAN] \* the runner has a credential manager

VARIABLES
    svcRun,     \* the run under way
    svcReq,     \* its request
    svcStep,    \* where it is
    svcLeft,    \* svcLeft[r]: what run r left on the host
    svcMade,    \* its credentials were materialised
    svcHandle,  \* Start returned an instance
    svcFailed   \* an error has been met

svcVars == <<svcRun, svcReq, svcStep, svcLeft, svcMade, svcHandle, svcFailed>>

Begin ==
    /\ svcReq' \in SvcRequest
    /\ svcStep' = "validate"
    /\ svcMade' = FALSE /\ svcHandle' = FALSE /\ svcFailed' = FALSE

SvcInit ==
    /\ svcRun = 1 /\ svcReq \in SvcRequest /\ svcStep = "validate"
    /\ svcLeft = [r \in SvcRun |-> {}]
    /\ svcMade = FALSE /\ svcHandle = FALSE /\ svcFailed = FALSE

SvcGo(here, there) == svcStep = here /\ svcStep' = there
Keep == UNCHANGED <<svcRun, svcReq>>

----------------------------------------------------------------------------
(* Before anything is started.                                             *)

\* Each denied feature, attachment, backend or credential mode is a reason.
ValidateRequest(req) == ~req.unsafe

\* Run returns an error at once when the request is denied, or needs a
\* credential manager the runner does not have.
Validate ==
    /\ SvcGo("validate", IF ValidateRequest(svcReq)
                            /\ (svcReq.typed => svcReq.manager)
                         THEN "residue" ELSE "over")
    /\ svcFailed' = ~(ValidateRequest(svcReq) /\ (svcReq.typed => svcReq.manager))
    /\ Keep /\ UNCHANGED <<svcLeft, svcMade, svcHandle>>

\* The store's list: what earlier runs left behind.
Residue == {r \in SvcRun : r < svcRun /\ svcLeft[r] # {}}

\* Slip: a residue that cannot be cleaned is recorded and skipped.
CleanupPriorSkips ==
    /\ svcStep = "residue"
    /\ \/ Residue = {} /\ svcStep' = "planned" /\ UNCHANGED <<svcLeft, svcFailed>>
       \/ \E r \in Residue :
            /\ svcLeft' = [svcLeft EXCEPT ![r] = {}]
            /\ UNCHANGED <<svcStep, svcFailed>>
       \/ Residue # {} /\ svcStep' = "planned" /\ UNCHANGED <<svcLeft, svcFailed>>
    /\ Keep /\ UNCHANGED <<svcMade, svcHandle>>

\* cleanupPriorResidue: one residue after the other; the first that cannot be
\* cleaned (or listed) is recorded and ends the run before anything starts.
\* The failed cleanup may have done part of its work.
cleanupPriorResidue ==
    /\ svcStep = "residue"
    /\ \/ Residue = {} /\ svcStep' = "planned" /\ UNCHANGED <<svcLeft, svcFailed>>
       \/ \E r \in Residue :
            /\ svcLeft' = [svcLeft EXCEPT ![r] = {}]
            /\ UNCHANGED <<svcStep, svcFailed>>
       \/ \E r \in Residue : \E kept \in (SUBSET svcLeft[r]) \ {{}} :
            /\ svcLeft' = [svcLeft EXCEPT ![r] = kept]
            /\ svcStep' = "over" /\ svcFailed' = TRUE
       \/ svcStep' = "over" /\ svcFailed' = TRUE /\ UNCHANGED svcLeft
    /\ Keep /\ UNCHANGED <<svcMade, svcHandle>>

RecordPlanned ==
    /\ \/ SvcGo("planned", IF svcReq.typed THEN "materialize" ELSE "start")
          /\ UNCHANGED svcFailed
       \/ SvcGo("planned", "over") /\ svcFailed' = TRUE
    /\ Keep /\ UNCHANGED <<svcLeft, svcMade, svcHandle>>

\* A failed materialisation may leave files, and the run returns without a
\* cleanup: they are residue for the next run.
Materialize ==
    /\ \/ /\ SvcGo("materialize", "start") /\ svcMade' = TRUE /\ UNCHANGED svcFailed
          /\ svcLeft' = [svcLeft EXCEPT ![svcRun] = @ \union {"credential"}]
       \/ /\ SvcGo("materialize", "over") /\ svcFailed' = TRUE /\ UNCHANGED svcMade
          /\ \E part \in SUBSET {"credential"} :
                svcLeft' = [svcLeft EXCEPT ![svcRun] = @ \union part]
    /\ Keep /\ UNCHANGED svcHandle

----------------------------------------------------------------------------
(* The service.                                                            *)

\* Start may return an instance together with an error; without an instance
\* there is nothing to stop.
Start ==
    /\ svcStep = "start"
    /\ \/ /\ svcStep' = "health" /\ svcHandle' = TRUE /\ UNCHANGED svcFailed
          /\ svcLeft' = [svcLeft EXCEPT ![svcRun] = @ \union {"service"}]
       \/ /\ svcStep' = "stop" /\ svcHandle' = TRUE /\ svcFailed' = TRUE
          /\ svcLeft' = [svcLeft EXCEPT ![svcRun] = @ \union {"service"}]
       \/ /\ svcStep' = "stop" /\ svcFailed' = TRUE
          /\ UNCHANGED <<svcHandle, svcLeft>>
    /\ Keep /\ UNCHANGED svcMade

\* Health, RecordReady and Attach, in this order; the first that fails goes
\* to the same cleanup a finished attachment goes to.
Serve ==
    /\ \/ SvcGo("health", "ready") /\ UNCHANGED svcFailed
       \/ SvcGo("ready", "attach") /\ UNCHANGED svcFailed
       \/ SvcGo("attach", "stop") /\ UNCHANGED svcFailed
       \/ /\ svcStep \in {"health", "ready", "attach"}
          /\ svcStep' = "stop" /\ svcFailed' = TRUE
    /\ Keep /\ UNCHANGED <<svcLeft, svcMade, svcHandle>>

\* cleanupCurrent, first half: the instance is stopped and the stop recorded;
\* a stop or a record that fails is kept as an error.
Stop ==
    /\ SvcGo("stop", "credentials")
    /\ \/ ~svcHandle /\ UNCHANGED <<svcLeft, svcFailed>>
       \/ /\ svcHandle
          /\ svcLeft' = [svcLeft EXCEPT ![svcRun] = @ \ {"service"}]
          /\ svcFailed' \in {svcFailed, TRUE}
       \/ svcHandle /\ svcFailed' = TRUE /\ UNCHANGED svcLeft
    /\ Keep /\ UNCHANGED <<svcMade, svcHandle>>

\* Slip: the error of the credential cleanup is only logged.
CleanupCredentialsQuietly ==
    /\ SvcGo("credentials", "over")
    /\ \/ svcLeft' = [svcLeft EXCEPT ![svcRun] = @ \ {"credential"}]
       \/ UNCHANGED svcLeft
    /\ Keep /\ UNCHANGED <<svcMade, svcHandle, svcFailed>>

\* Second half, whether or not the service could be stopped.
CleanupCredentials ==
    /\ SvcGo("credentials", "over")
    /\ \/ ~svcMade /\ UNCHANGED <<svcLeft, svcFailed>>
       \/ /\ svcMade /\ UNCHANGED svcFailed
          /\ svcLeft' = [svcLeft EXCEPT ![svcRun] = @ \ {"credential"}]
       \/ svcMade /\ svcFailed' = TRUE /\ UNCHANGED svcLeft
    /\ Keep /\ UNCHANGED <<svcMade, svcHandle>>

\* The process dies: nothing is cleaned.
SvcCrash ==
    /\ svcStep # "over" /\ svcStep' = "over" /\ svcFailed' = TRUE
    /\ Keep /\ UNCHANGED <<svcLeft, svcMade, svcHandle>>

NextRun ==
    /\ svcStep = "over" /\ svcRun < MaxRuns /\ svcRun' = svcRun + 1
    /\ Begin /\ UNCHANGED svcLeft

SvcNext ==
    \/ Validate \/ cleanupPriorResidue \/ RecordPlanned \/ Materialize
    \/ Start \/ Serve \/ Stop \/ CleanupCredentials \/ SvcCrash \/ NextRun

SvcSpec == SvcInit /\ [][SvcNext]_svcVars

----------------------------------------------------------------------------

\* Types of the variables.
SvcTypeOK ==
    /\ svcRun \in SvcRun /\ svcReq \in SvcRequest
    /\ svcStep \in {"validate", "residue", "planned", "materialize", "start",
                    "health", "ready", "attach", "stop", "credentials", "over"}
    /\ svcLeft \in [SvcRun -> SUBSET Part]
    /\ svcMade \in BOOLEAN /\ svcHandle \in BOOLEAN /\ svcFailed \in BOOLEAN

\* A service is only ever started on a host that holds nothing of an earlier
\* run, whatever failed or crashed before; and a run that reports success has
\* left neither a service nor a credential behind.
ServiceLeavesNothing ==
    /\ svcStep \in {"materialize", "start", "health", "ready", "attach"} =>
         Residue = {}
    /\ svcStep = "over" /\ ~svcFailed => svcLeft[svcRun] = {}
=============================================================================
