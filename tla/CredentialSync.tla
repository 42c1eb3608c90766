---------------------------- MODULE CredentialSync ----------------------------
(***************************************************************************)
(* One credential that lives in several places (credential_sync.go): the   *)
(* host-owned store, perhaps a cache of the host user's, and the sinks the *)
(* agent reads.  The freshest value is delivered to all of them before a   *)
(* launch and harvested after it.  Every read and write may fail, and the  *)
(* tools that own the places rotate the credential whenever they like.     *)
(***************************************************************************)
EXTENDS Naturals

CONSTANTS CsSink,    \* the agent sinks of the credential
          CsSecret,  \* the secrets, as far as they can be told apart
          MaxFresh,  \* bound on generations and on times of update
          NoMaterial \* nothing there, or nothing valid

CsEnd == {"store", "host"} \cup CsSink

Material == [secret : CsSecret, generation : 0..MaxFresh, updatedAt : 0..MaxFresh]

ASSUME CredentialSyncAssumption ==
    /\ CsSink \cap {"store", "host"} = {} /\ NoMaterial \notin Material
    /\ MaxFresh \in Nat

VARIABLES
    csSupport, \* whether the credential can be synchronised at all
    csCached,  \* does the credential have a cache of the host user's?
    csAt,      \* csAt[e]: the material at endpoint e
    csStep,    \* "idle", "launch" or "exit" (reading), "deliver" or "harvest"
               \* (writing), "running", "clear"
    csTodo,    \* the endpoints still to read, or to write
    csBest,    \* the freshest candidate among those read
    csMoved    \* endpoints others changed since this sync began

csVars == <<csSupport, csCached, csAt, csStep, csTodo, csBest, csMoved>>

Ends == CsSink \cup (IF csCached THEN {"store", "host"} ELSE {"store"})

CsInit ==
    /\ csSupport \in {"supported", "adapterRequired", "noDelivery"}
    /\ csCached \in BOOLEAN
    /\ csAt \in [CsEnd -> Material \cup {NoMaterial}]
    /\ csStep = "idle" /\ csTodo = {} /\ csBest = NoMaterial /\ csMoved = {}

credentialSyncNewer(a, b) ==
    \/ a.generation > b.generation
    \/ a.generation = b.generation /\ a.updatedAt > b.updatedAt

credentialSyncSameFreshness(a, b) ==
    a.generation = b.generation /\ a.updatedAt = b.updatedAt

\* Store, host cache, sinks: the order in which endpoints are visited.
Turn(todo) == IF "store" \in todo THEN {"store"}
              ELSE IF "host" \in todo THEN {"host"} ELSE todo

\* Before a launch the sinks are not read.
Sources(step) == IF step = "launch" THEN Ends \ CsSink ELSE Ends

\* Slip: the host's cache is left with what it has.
TargetsButHost(step) == IF step = "deliver" THEN Ends \ {"host"} ELSE {"store"}

Targets(step) == IF step = "deliver" THEN Ends ELSE Ends \ CsSink

BeginSync ==
    /\ csSupport = "supported"
    /\ csStep' = CASE csStep = "idle" -> "launch" [] csStep = "running" -> "exit"
                   [] OTHER -> csStep
    /\ csStep' # csStep
    /\ csTodo' = Sources(csStep') /\ csBest' = NoMaterial /\ csMoved' = {}
    /\ UNCHANGED <<csSupport, csCached, csAt>>

\* An error, a conflict of equally fresh values, or the end of the process.
SyncFails ==
    /\ csStep \notin {"idle", "running"}
    /\ csStep' = "idle" /\ csTodo' = {}
    /\ UNCHANGED <<csSupport, csCached, csAt, csBest, csMoved>>

\* chooseCredentialSyncLatest, one candidate at a time.
Better(m) == m # NoMaterial /\ (csBest = NoMaterial \/ credentialSyncNewer(m, csBest))

Conflict(m) == /\ m # NoMaterial /\ csBest # NoMaterial
               /\ credentialSyncSameFreshness(m, csBest) /\ m.secret # csBest.secret

\* What follows when every source is read: nothing usable, nothing to write.
AfterReading(best) ==
    CASE best # NoMaterial -> IF csStep = "launch" THEN "deliver" ELSE "harvest"
      [] best = NoMaterial -> IF csStep = "launch" THEN "running" ELSE "clear"

\* Slip: among equally old candidates the last one read wins.
ReadLastWins(e) ==
    LET best == IF csAt[e] # NoMaterial THEN csAt[e] ELSE csBest IN
    /\ csBest' = best
    /\ IF csTodo = {e}
         THEN /\ csStep' = AfterReading(best)
              /\ csTodo' = IF best = NoMaterial THEN {} ELSE Targets(csStep')
         ELSE csTodo' = csTodo \ {e} /\ UNCHANGED csStep
    /\ UNCHANGED <<csSupport, csCached, csAt, csMoved>>

Read(e) ==
    /\ ~Conflict(csAt[e])
    /\ LET best == IF Better(csAt[e]) THEN csAt[e] ELSE csBest IN
       /\ csBest' = best
       /\ IF csTodo = {e}
            THEN /\ csStep' = AfterReading(best)
                 /\ csTodo' = IF best = NoMaterial THEN {} ELSE Targets(csStep')
            ELSE csTodo' = csTodo \ {e} /\ UNCHANGED csStep
    /\ UNCHANGED <<csSupport, csCached, csAt, csMoved>>

syncReadEndpoints ==
    /\ csStep \in {"launch", "exit"}
    /\ \E e \in Turn(csTodo) : Read(e)

\* The first write that fails ends the sync (SyncFails).
WriteValue ==
    /\ csStep \in {"deliver", "harvest"}
    /\ \E e \in Turn(csTodo) :
         /\ csAt' = [csAt EXCEPT ![e] = csBest]
         /\ csTodo' = csTodo \ {e} /\ csMoved' = csMoved \ {e}
    /\ csStep' = IF csTodo' # {} THEN csStep
                 ELSE IF csStep = "deliver" THEN "running" ELSE "clear"
    /\ UNCHANGED <<csSupport, csCached, csBest>>

\* Every sink is tried, whatever becomes of the others.
clearCredentialSyncAgentSinks ==
    /\ csStep = "clear"
    /\ \E cleared \in SUBSET CsSink :
         /\ csAt' = [e \in CsEnd |-> IF e \in cleared THEN NoMaterial ELSE csAt[e]]
         /\ csMoved' = csMoved \ cleared
    /\ csStep' = "idle"
    /\ UNCHANGED <<csSupport, csCached, csTodo, csBest>>

\* The host's tools and other sessions rotate or drop what is in the store and
\* the cache; the agent does so with its sinks while it runs.
Rotates ==
    \E e \in {"store", "host"} \cup (IF csStep = "running" THEN CsSink ELSE {}),
       m \in Material \cup {NoMaterial} :
         /\ csAt[e] # NoMaterial /\ m # NoMaterial =>
              credentialSyncNewer(m, csAt[e])
         /\ csAt' = [csAt EXCEPT ![e] = m]
         /\ csMoved' = csMoved \cup {e}
         /\ UNCHANGED <<csSupport, csCached, csStep, csTodo, csBest>>

CsNext == BeginSync \/ SyncFails \/ syncReadEndpoints \/ WriteValue
            \/ clearCredentialSyncAgentSinks \/ Rotates

CsSpec == CsInit /\ [][CsNext]_csVars

-----------------------------------------------------------------------------
CsTypeOK ==
    /\ csSupport \in {"supported", "adapterRequired", "noDelivery"}
    /\ csCached \in BOOLEAN
    /\ csAt \in [CsEnd -> Material \cup {NoMaterial}]
    /\ csStep \in {"idle", "launch", "exit", "deliver", "harvest", "running", "clear"}
    /\ csTodo \subseteq Ends /\ csMoved \subseteq CsEnd
    /\ csBest \in Material \cup {NoMaterial}

\* A command runs on one credential: the store, the host's cache and all sinks
\* hold the value that was chosen, but for what somebody changed meanwhile; and
\* the sinks are cleared only when the store and the cache hold it.
SyncAgrees ==
    /\ csStep = "running" /\ csBest # NoMaterial =>
         \A e \in Ends \ csMoved : csAt[e] = csBest
    /\ csStep = "clear" /\ csBest # NoMaterial =>
         \A e \in (Ends \ CsSink) \ csMoved : csAt[e] = csBest

\* A sync never puts an older value in the place of a fresher one, and clears a
\* fresher one only when the store has it.  Two things it cannot see: what was
\* changed since it looked, and what an earlier session left in a sink, which
\* the delivery before a launch overwrites without reading.
FresherValuesKept ==
    [][\A e \in Ends : csAt'[e] # csAt[e] /\ csAt[e] # NoMaterial =>
         \/ e \in csMoved \cup csMoved'
         \/ e \in CsSink /\ csStep = "deliver"
         \/ csAt'[e] # NoMaterial /\ ~credentialSyncNewer(csAt[e], csAt'[e])
         \/ csAt'[e] = NoMaterial /\ csBest # NoMaterial
              /\ ~credentialSyncNewer(csAt[e], csBest)]_csVars

\* Whatever fails and whoever rotates the credential meanwhile, the freshest of
\* the values that a sync could see is the one that is used and kept.
FreshestWins == []SyncAgrees /\ FresherValuesKept
=============================================================================
