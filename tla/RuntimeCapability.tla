-------------------------- MODULE RuntimeCapability --------------------------
(***************************************************************************)
(* Signed statements about a runtime backend and the gate that routes work *)
(* to it: verifier results, the coverage catalogue, capability             *)
(* declarations, revocation feeds, and VerifyRoutingEligibility, which     *)
(* accepts a declaration only together with the result, the catalogue and  *)
(* the feed whose fingerprints it carries. A fingerprint or a signature    *)
(* stands for the very statement it was computed from, so a statement is   *)
(* its place in the sequence of those issued; whoever routes may present   *)
(* any combination of them, old ones included. Also the preview of a       *)
(* runtime authority request, a function of the request.                   *)
(***************************************************************************)
EXTENDS Naturals, Sequences

CONSTANTS
    MaxNow,     \* the clock stops there
    MaxResults, MaxFeeds, MaxDecls   \* statements of each kind

CapabilityAssumption == MaxNow \in Nat \ {0}
ASSUME CapabilityAssumption

\* What a declaration claims; NewCapability requires every list of grants.
Flags == {"isolation", "grants"}
Lifecycle == {"active", "grace", "revoked"}

VARIABLES
    rcNow,
    rcVersion,   \* the backend version that routing expects
    rcResults,   \* verifier results issued
    rcFeeds,     \* revocation feeds issued
    rcDecls,     \* declarations signed
    rcRouted     \* the last routing decision that let work through

rcVars == <<rcNow, rcVersion, rcResults, rcFeeds, rcDecls, rcRouted>>

NotRouted == [decl |-> 0, at |-> 0, version |-> 0, newest |-> 0]

RcInit ==
    /\ rcNow = 1 /\ rcVersion = 1
    /\ rcResults = <<>> /\ rcFeeds = <<>> /\ rcDecls = <<>>
    /\ rcRouted = NotRouted

RcTick ==
    /\ rcNow < MaxNow /\ rcNow' = rcNow + 1
    /\ UNCHANGED <<rcVersion, rcResults, rcFeeds, rcDecls, rcRouted>>

\* The backend is upgraded, and routing expects the new version.
Upgrade ==
    /\ rcVersion = 1 /\ rcVersion' = 2
    /\ UNCHANGED <<rcNow, rcResults, rcFeeds, rcDecls, rcRouted>>

----------------------------------------------------------------------------
(* Issuing.                                                                *)

Windows == {w \in [from : {rcNow, rcNow + 1}, until : rcNow + 1 .. MaxNow + 1] : w.from < w.until}

\* SignVerifierResult, with the flags its artifacts and obligations cover
\* (NewCoverageCatalog).
SignVerifierResult ==
    /\ Len(rcResults) < MaxResults
    /\ \E until \in rcNow + 1 .. MaxNow + 1, passed \in BOOLEAN, covers \in {Flags, {"isolation"}} :
         rcResults' = Append(rcResults,
            [version |-> rcVersion, from |-> rcNow, until |-> until, passed |-> passed, covers |-> covers])
    /\ UNCHANGED <<rcNow, rcVersion, rcFeeds, rcDecls, rcRouted>>

\* SignRevocationFeed, whatever records it is given: a feed may name no record
\* of a set that one before it revoked, or cover another trust root or backend
\* family.
SignRevocationFeed ==
    /\ Len(rcFeeds) < MaxFeeds
    /\ \E until \in rcNow + 1 .. MaxNow + 1, state \in Lifecycle, covers \in BOOLEAN :
         rcFeeds' = Append(rcFeeds, [from |-> rcNow, until |-> until, state |-> state, covers |-> covers])
    /\ UNCHANGED <<rcNow, rcVersion, rcResults, rcDecls, rcRouted>>

\* NewCapability and SignDeclaration: the window is not empty, and the time of
\* re-attestation lies in it.
SignDeclaration ==
    /\ Len(rcDecls) < MaxDecls
    /\ \E r \in 1..Len(rcResults), f \in 1..Len(rcFeeds), w \in Windows, reattest \in 1..MaxNow :
         /\ w.from <= reattest /\ reattest < w.until
         /\ rcDecls' = Append(rcDecls, [result |-> r, feed |-> f, version |-> rcVersion,
                                        from |-> w.from, until |-> w.until, reattest |-> reattest])
    /\ UNCHANGED <<rcNow, rcVersion, rcResults, rcFeeds, rcRouted>>

----------------------------------------------------------------------------
(* Routing.                                                                *)

\* VerifyDeclaration: expected version, window, signature.
DeclarationOK(d) ==
    /\ rcDecls[d].version = rcVersion
    /\ rcDecls[d].from <= rcNow /\ rcNow < rcDecls[d].until

\* verifySignedVerifierResult.
ResultOK(d, r) ==
    /\ rcResults[r].version = rcDecls[d].version
    /\ rcResults[r].from <= rcNow /\ rcNow < rcResults[r].until
    /\ rcResults[r].passed

\* verifyFlagCoverage, for every declared flag.
Covered(r) == \A flag \in Flags : flag \in rcResults[r].covers

\* VerifyCapabilityConformance: the result presented is the one the capability
\* names.
Conforms(d, r) ==
    /\ DeclarationOK(d) /\ rcDecls[d].result = r
    /\ ResultOK(d, r) /\ Covered(r)

\* Slip: any valid feed of the issuer will do, not only the one bound.
DispatchAnyFeed(d, f) ==
    IF ~(rcFeeds[f].from <= rcNow /\ rcNow < rcFeeds[f].until) THEN "deny"
    ELSE IF ~rcFeeds[f].covers \/ rcFeeds[f].state = "revoked" THEN "deny"
    ELSE IF rcNow >= rcDecls[d].reattest THEN "deny"
    ELSE IF rcFeeds[f].state = "grace" THEN "parent" ELSE "allow"

\* EvaluateLifecycle, in its order: a feed that is stale denies, one that is
\* not the one bound is an error, then coverage, revocation, re-attestation,
\* grace.
Dispatch(d, f) ==
    IF ~(rcFeeds[f].from <= rcNow /\ rcNow < rcFeeds[f].until) THEN "deny"
    ELSE IF rcDecls[d].feed # f THEN "error"
    ELSE IF ~rcFeeds[f].covers \/ rcFeeds[f].state = "revoked" THEN "deny"
    ELSE IF rcNow >= rcDecls[d].reattest THEN "deny"
    ELSE IF rcFeeds[f].state = "grace" THEN "parent" ELSE "allow"

\* VerifyRoutingEligibility on whatever is presented. (The verdict carries no
\* time of its own, and nothing in the program asks for one a second time.)
RouteWork ==
    /\ \E d \in 1..Len(rcDecls), r \in 1..Len(rcResults), f \in 1..Len(rcFeeds) :
         /\ Conforms(d, r) /\ Dispatch(d, f) = "allow"
         /\ rcRouted' = [decl |-> d, at |-> rcNow, version |-> rcVersion, newest |-> Len(rcFeeds)]
    /\ UNCHANGED <<rcNow, rcVersion, rcResults, rcFeeds, rcDecls>>

----------------------------------------------------------------------------
(* The preview of a request.                                               *)

Grants == {"deny:all", "allow:tailnet", "deny:public-internet", "allow:public-internet", "other"}

\* Slip: a grant that is not recognised raises no reservation.
PostureQuietly(grants) ==
    IF grants = {} \/ "deny:all" \in grants THEN [mode |-> "none", unsupported |-> {}]
    ELSE [mode |-> "default", unsupported |-> grants \intersect {"allow:tailnet"}]

\* previewNetwork: the mode of the session and the grants it cannot vouch for.
Posture(grants) ==
    IF grants = {} \/ "deny:all" \in grants THEN [mode |-> "none", unsupported |-> {}]
    ELSE IF /\ {"allow:tailnet", "deny:public-internet"} \subseteq grants
            /\ "allow:public-internet" \notin grants
         THEN [mode |-> "default", unsupported |-> {"allow:tailnet"}]
    ELSE IF "allow:public-internet" \in grants THEN [mode |-> "default", unsupported |-> {}]
    ELSE [mode |-> "default", unsupported |-> grants]

RcNext ==
    \/ RcTick \/ Upgrade \/ SignVerifierResult \/ SignRevocationFeed \/ SignDeclaration
    \/ RouteWork

RcSpec == RcInit /\ [][RcNext]_rcVars

----------------------------------------------------------------------------
\* The state has its types.
RcTypeOK ==
    /\ rcNow \in 1..MaxNow /\ rcVersion \in 1..2
    /\ \A i \in 1..Len(rcDecls) : rcDecls[i].feed \in 1..Len(rcFeeds) /\ rcDecls[i].result \in 1..Len(rcResults)
    /\ \A i \in 1..Len(rcFeeds) : rcFeeds[i].state \in Lifecycle
    /\ rcRouted.decl \in 0..Len(rcDecls)

Revoking == {i \in 1..Len(rcFeeds) : rcFeeds[i].state = "revoked"}

\* A later feed that does not revoke the set enables it again: the code signs
\* any feed, and compares none with the one before it.
TakenBack(i, newest) == \E j \in i + 1 .. newest : j \notin Revoking

\* A revocation takes effect by itself, although no declaration is withdrawn:
\* the gate insists on the feed a declaration was signed over. So after a feed
\* that revokes the set, and as long as none takes that back, work is routed
\* only on a declaration signed over an older feed, and only until that feed
\* expires.
RevocationBounded ==
    rcRouted.decl # 0 =>
        LET f == rcDecls[rcRouted.decl].feed
        IN  /\ rcRouted.at < rcFeeds[f].until /\ f \notin Revoking
            /\ \A i \in Revoking :
                  i <= rcRouted.newest /\ ~TakenBack(i, rcRouted.newest) => f < i

\* Work is routed to the backend that was verified: the result a declaration
\* names passed for the version that routing expects, and still holds, whatever
\* was upgraded or issued in between.
RoutedWasVerified ==
    rcRouted.decl # 0 =>
        LET r == rcDecls[rcRouted.decl].result
        IN  /\ rcResults[r].passed /\ rcResults[r].version = rcRouted.version
            /\ rcRouted.at < rcResults[r].until

\* A preview gives a session the network without a reservation only if the
\* request asks for the public internet and does not deny everything.
PreviewGrantsOnlyWhatIsAsked ==
    \A grants \in SUBSET Grants :
        Posture(grants).mode = "default" /\ Posture(grants).unsupported = {}
            => "allow:public-internet" \in grants /\ "deny:all" \notin grants

\* What bounds a capability: revocation and expiry, what was verified, and what
\* was asked for.
CapabilityBounded == RevocationBounded /\ RoutedWasVerified /\ PreviewGrantsOnlyWhatIsAsked
=============================================================================
