--------------------------- MODULE RepoSetupProofs ---------------------------
(***************************************************************************)
(* That a session writes outside its project only where its user said so,  *)
(* for any number of overlapping launches, crashes and torn files.         *)
(***************************************************************************)
EXTENDS RepoSetup, TLAPS

Effects == [RsSession -> SUBSET Effect]
RsPlace == {"idle", "ask", "save", "open", "write", "run", "denials", "reopen", "rewrite",
            "dead"}

\* The property, said of every record in a session's hand as well as of the
\* file; and before its prompt a session applies only what its record remembers.
RsInv ==
    /\ rsStore \in Record /\ rsEver \in SUBSET Effect
    /\ rsRec \in [RsSession -> Record] /\ rsKeep \in [RsSession -> Record]
    /\ rsCur \in Effects /\ rsFinal \in Effects /\ rsAsked \in Effects
    /\ rsStep \in [RsSession -> RsPlace]
    /\ rsStore.remembered \subseteq rsEver
    /\ \A s \in RsSession :
          /\ rsRec[s].remembered \subseteq rsEver
          /\ rsKeep[s].remembered \subseteq rsEver
          /\ ExplicitOf(rsFinal[s]) \subseteq rsAsked[s] \union rsEver
          /\ rsStep[s] = "ask" => ExplicitOf(rsFinal[s]) \subseteq rsEver

LEMMA EmptyIsRecord == Empty \in Record /\ Empty.remembered = {}
BY DEF Empty, Record

LEMMA RsInvInit == RsInit => RsInv
<1> SUFFICES ASSUME RsInit
             PROVE  RsInv
    OBVIOUS
<1>1. rsStep \in [RsSession -> RsPlace] /\ \A s \in RsSession : rsStep[s] # "ask"
    BY DEF RsInit, RsPlace
<1>2. /\ rsRec \in [RsSession -> Record] /\ rsKeep \in [RsSession -> Record]
      /\ rsStore \in Record /\ rsStore.remembered = {}
      /\ \A s \in RsSession : rsRec[s].remembered = {} /\ rsKeep[s].remembered = {}
    BY EmptyIsRecord DEF RsInit
<1>3. /\ rsCur \in Effects /\ rsFinal \in Effects /\ rsAsked \in Effects
      /\ rsEver \in SUBSET Effect
      /\ \A s \in RsSession : ExplicitOf(rsFinal[s]) = {}
    BY DEF RsInit, Effects, ExplicitOf
<1> QED
    BY <1>1, <1>2, <1>3 DEF RsInv

----------------------------------------------------------------------------
\* A step of one session that leaves it at a place, with a record loaded and
\* one to write, and with these effects collected, granted and shown.
Moves(s, at, rec, keep, cur, final, asked) ==
    /\ rsStep' = [rsStep EXCEPT ![s] = at] /\ rsRec' = [rsRec EXCEPT ![s] = rec]
    /\ rsKeep' = [rsKeep EXCEPT ![s] = keep] /\ rsCur' = [rsCur EXCEPT ![s] = cur]
    /\ rsFinal' = [rsFinal EXCEPT ![s] = final] /\ rsAsked' = [rsAsked EXCEPT ![s] = asked]

\* What it may have in hand when the effects ever are remembered with consent.
Fits(ever, at, rec, keep, cur, final, asked) ==
    /\ at \in RsPlace /\ rec \in Record /\ keep \in Record
    /\ cur \subseteq Effect /\ final \subseteq Effect /\ asked \subseteq Effect
    /\ rec.remembered \subseteq ever /\ keep.remembered \subseteq ever
    /\ ExplicitOf(final) \subseteq asked \union ever
    /\ at = "ask" => ExplicitOf(final) \subseteq ever

\* What happens to the file and to what users asked for besides.
FileFits ==
    /\ rsEver \subseteq rsEver' /\ rsEver' \subseteq Effect
    /\ rsStore' \in Record /\ rsStore'.remembered \subseteq rsEver'

LEMMA SessionMoves ==
    ASSUME RsInv, FileFits, NEW s \in RsSession,
           NEW at, NEW rec, NEW keep, NEW cur, NEW final, NEW asked,
           Moves(s, at, rec, keep, cur, final, asked),
           Fits(rsEver', at, rec, keep, cur, final, asked)
    PROVE  RsInv'
<1>1. /\ rsStep' \in [RsSession -> RsPlace] /\ rsRec' \in [RsSession -> Record]
      /\ rsKeep' \in [RsSession -> Record]
    BY DEF RsInv, Moves, Fits
<1>2. rsCur' \in Effects /\ rsFinal' \in Effects /\ rsAsked' \in Effects
    BY DEF RsInv, Effects, Moves, Fits
<1>3. ASSUME NEW t \in RsSession
      PROVE  /\ rsRec'[t].remembered \subseteq rsEver'
             /\ rsKeep'[t].remembered \subseteq rsEver'
             /\ ExplicitOf(rsFinal'[t]) \subseteq rsAsked'[t] \union rsEver'
             /\ rsStep'[t] = "ask" => ExplicitOf(rsFinal'[t]) \subseteq rsEver'
    <2>1. CASE t = s
        BY <2>1 DEF RsInv, Effects, Moves, Fits
    <2>2. CASE t # s
        <3>1. /\ rsRec'[t] = rsRec[t] /\ rsKeep'[t] = rsKeep[t] /\ rsFinal'[t] = rsFinal[t]
              /\ rsAsked'[t] = rsAsked[t] /\ rsStep'[t] = rsStep[t]
            BY <2>2 DEF RsInv, Effects, Moves
        <3> QED
            BY <3>1 DEF RsInv, FileFits
    <2> QED
        BY <2>1, <2>2
<1> QED
    BY <1>1, <1>2, <1>3 DEF RsInv, FileFits

\* A function is itself with one of its values put back.
LEMMA PutBack ==
    ASSUME NEW S, NEW T, NEW f \in [S -> T], NEW x \in S
    PROVE  f = [f EXCEPT ![x] = f[x]]
OBVIOUS

LEMMA InHand ==
    ASSUME RsInv, NEW s \in RsSession
    PROVE  /\ rsRec[s] \in Record /\ rsRec = [rsRec EXCEPT ![s] = rsRec[s]]
           /\ rsKeep[s] \in Record /\ rsKeep = [rsKeep EXCEPT ![s] = rsKeep[s]]
           /\ rsCur[s] \in SUBSET Effect /\ rsCur = [rsCur EXCEPT ![s] = rsCur[s]]
           /\ rsFinal[s] \in SUBSET Effect /\ rsFinal = [rsFinal EXCEPT ![s] = rsFinal[s]]
           /\ rsAsked[s] \in SUBSET Effect /\ rsAsked = [rsAsked EXCEPT ![s] = rsAsked[s]]
           /\ rsEver \in SUBSET Effect /\ rsStore \in Record
           /\ rsStore.remembered \subseteq rsEver
           /\ rsRec[s].remembered \subseteq rsEver
           /\ rsKeep[s].remembered \subseteq rsEver
           /\ ExplicitOf(rsFinal[s]) \subseteq rsAsked[s] \union rsEver
BY PutBack DEF RsInv, Effects

\* A step after the prompts that changes only the record to be written.
LEMMA KeepChanges ==
    ASSUME RsInv, NEW s \in RsSession, NEW at \in RsPlace \ {"ask"}, NEW keep \in Record,
           rsStep' = [rsStep EXCEPT ![s] = at], rsKeep' = [rsKeep EXCEPT ![s] = keep],
           UNCHANGED <<rsRec, rsCur, rsFinal, rsAsked, rsEver>>,
           rsStore' \in Record, rsStore'.remembered \subseteq rsEver,
           keep.remembered \subseteq rsEver
    PROVE  RsInv'
<1>1. /\ rsRec' = [rsRec EXCEPT ![s] = rsRec[s]] /\ rsCur' = [rsCur EXCEPT ![s] = rsCur[s]]
      /\ rsFinal' = [rsFinal EXCEPT ![s] = rsFinal[s]]
      /\ rsAsked' = [rsAsked EXCEPT ![s] = rsAsked[s]]
      /\ rsEver' = rsEver
    BY InHand
<1>2. /\ rsRec[s] \in Record /\ rsCur[s] \in SUBSET Effect /\ rsFinal[s] \in SUBSET Effect
      /\ rsAsked[s] \in SUBSET Effect /\ rsEver \in SUBSET Effect
      /\ rsRec[s].remembered \subseteq rsEver
      /\ ExplicitOf(rsFinal[s]) \subseteq rsAsked[s] \union rsEver
    BY InHand
<1>3. Moves(s, at, rsRec[s], keep, rsCur[s], rsFinal[s], rsAsked[s])
    BY <1>1 DEF Moves
<1>4. Fits(rsEver', at, rsRec[s], keep, rsCur[s], rsFinal[s], rsAsked[s]) /\ FileFits
    BY <1>1, <1>2 DEF Fits, FileFits
<1> QED
    BY <1>3, <1>4, SessionMoves

\* A step after the prompts that changes nothing the session has in hand.
LEMMA StepsOn ==
    ASSUME RsInv, NEW s \in RsSession, NEW at \in RsPlace \ {"ask"},
           rsStep' = [rsStep EXCEPT ![s] = at], UNCHANGED <<rsEver, rsMine>>,
           rsStore' \in Record, rsStore'.remembered \subseteq rsEver
    PROVE  RsInv'
<1>1. /\ rsKeep[s] \in Record /\ rsKeep[s].remembered \subseteq rsEver
      /\ rsKeep = [rsKeep EXCEPT ![s] = rsKeep[s]]
    BY InHand
<1>2. /\ UNCHANGED <<rsRec, rsCur, rsFinal, rsAsked, rsEver>>
      /\ rsKeep' = [rsKeep EXCEPT ![s] = rsKeep[s]]
    BY <1>1 DEF rsMine
<1> QED
    BY <1>1, <1>2, KeepChanges

\* A text of which parts stay behind another remembers what one of the two did.
LEMMA PutFits ==
    ASSUME RsInv, NEW s \in RsSession, PutRecord(rsKeep[s])
    PROVE  rsStore' \in Record /\ rsStore'.remembered \subseteq rsEver
<1>1. /\ rsKeep[s] \in Record /\ rsKeep[s].remembered \subseteq rsEver
      /\ rsStore \in Record /\ rsStore.remembered \subseteq rsEver
    BY InHand
<1>2. ASSUME NEW remembered \in SUBSET rsStore.remembered,
             NEW rejected \in SUBSET rsStore.rejected,
             NEW evidence \in SUBSET rsStore.evidence,
             rsStore' = LeftOver(rsKeep[s], remembered, rejected, evidence)
      PROVE  rsStore' \in Record /\ rsStore'.remembered \subseteq rsEver
    BY <1>1, <1>2 DEF LeftOver, Record
<1> QED
    BY <1>1, <1>2 DEF PutRecord

\* A session that forgets what it had in hand owes nothing.
LEMMA ForgetKeepsInv ==
    ASSUME RsInv, NEW s \in RsSession, RsForget(s), NEW at \in RsPlace \ {"ask"},
           rsStep' = [rsStep EXCEPT ![s] = at], UNCHANGED rsEver,
           rsStore' \in Record, rsStore'.remembered \subseteq rsEver
    PROVE  RsInv'
<1>1. ExplicitOf({}) = {}
    BY DEF ExplicitOf
<1>2. rsEver' \in SUBSET Effect /\ rsEver' = rsEver
    BY DEF RsInv
<1>3. Moves(s, at, Empty, Empty, {}, {}, {})
    BY DEF RsForget, Moves
<1>4. Fits(rsEver', at, Empty, Empty, {}, {}, {}) /\ FileFits
    BY <1>1, <1>2, EmptyIsRecord DEF Fits, FileFits
<1> QED
    BY <1>3, <1>4, SessionMoves

\* What is applied without a question is remembered, as far as it is a write.
LEMMA CollectKeepsInv ==
    ASSUME RsInv, NEW s \in RsSession, Collect(s)
    PROVE  RsInv'
<1> DEFINE Cur(evidence) == (rsTools \intersect {"g"}) \union ResolvedDirs(Suggested) \union evidence
           Rec(evidence) == [rsStore EXCEPT !.evidence = evidence]
           Final(evidence) == Applied(Rec(evidence), Cur(evidence))
           Kept(evidence) == [Rec(evidence) EXCEPT !.remembered = @ \intersect Final(evidence)]
           Refused == UNCHANGED <<rsStep, rsMine>>
           Ran == /\ rsStep' = [rsStep EXCEPT ![s] = "run"]
                  /\ rsCur' = [rsCur EXCEPT ![s] = {}]
                  /\ rsFinal' = [rsFinal EXCEPT ![s] = {}]
                  /\ rsAsked' = [rsAsked EXCEPT ![s] = {}]
                  /\ UNCHANGED <<rsRec, rsKeep>>
           Collected(evidence) ==
                  /\ rsStep' = [rsStep EXCEPT ![s] = "ask"]
                  /\ rsRec' = [rsRec EXCEPT ![s] = Kept(evidence)]
                  /\ rsCur' = [rsCur EXCEPT ![s] = Cur(evidence)]
                  /\ rsFinal' = [rsFinal EXCEPT ![s] = Final(evidence)]
                  /\ rsAsked' = [rsAsked EXCEPT ![s] = {}]
                  /\ UNCHANGED rsKeep
<1>0. PICK evidence \in {rsStore.evidence, {}} : Refused \/ Ran \/ Collected(evidence)
    BY Zenon DEF Collect
<1>1. UNCHANGED <<rsStore, rsEver>>
    BY DEF Collect
<1>2. CASE Refused
    <2>1. UNCHANGED <<rsStore, rsEver, rsStep, rsRec, rsCur, rsFinal, rsKeep, rsAsked>>
        BY <1>1, <1>2 DEF rsMine
    <2> QED
        BY <2>1 DEF RsInv
<1>3. CASE Ran
    <2>1. "run" \in RsPlace /\ ExplicitOf({}) = {}
        BY DEF RsPlace, ExplicitOf
    <2>2. Moves(s, "run", rsRec[s], rsKeep[s], {}, {}, {})
        BY <1>3, InHand DEF Moves
    <2>3. Fits(rsEver', "run", rsRec[s], rsKeep[s], {}, {}, {}) /\ FileFits
        BY <1>1, <2>1, InHand DEF Fits, FileFits
    <2> QED
        BY <2>2, <2>3, SessionMoves
<1>4. CASE Collected(evidence)
    <2> DEFINE cur == Cur(evidence)
               rec == Rec(evidence)
               final == Final(evidence)
               kept == Kept(evidence)
    <2>0. /\ rsStep' = [rsStep EXCEPT ![s] = "ask"] /\ rsRec' = [rsRec EXCEPT ![s] = kept]
          /\ rsCur' = [rsCur EXCEPT ![s] = cur] /\ rsFinal' = [rsFinal EXCEPT ![s] = final]
          /\ rsAsked' = [rsAsked EXCEPT ![s] = {}] /\ rsKeep' = rsKeep
        BY <1>4
    <2>1. /\ rec \in Record /\ rec.remembered = rsStore.remembered
          /\ kept \in Record /\ kept.remembered \subseteq rsStore.remembered
        BY DEF RsInv, Record
    <2>2. cur \in SUBSET Effect
        <3>1. Suggested \subseteq Suggestion /\ evidence \subseteq Denial
            BY DEF Suggested, RsInv, Record
        <3> QED
            BY <3>1 DEF ResolvedDirs, Effect
    <2>3. final \in SUBSET Effect
        BY <2>2 DEF Applied
    <2>4. ExplicitOf(final) \subseteq rsEver
        BY <2>1 DEF Applied, ExplicitOf, Suggestion, RsInv
    <2> HIDE DEF cur, rec, final, kept
    <2>5. "ask" \in RsPlace /\ rsKeep' = [rsKeep EXCEPT ![s] = rsKeep[s]]
        BY <2>0, InHand DEF RsPlace
    <2>6. kept.remembered \subseteq rsEver
        BY <2>1 DEF RsInv
    <2>7. /\ rsKeep[s] \in Record /\ rsKeep[s].remembered \subseteq rsEver
          /\ rsStore \in Record /\ rsStore.remembered \subseteq rsEver
          /\ rsEver \in SUBSET Effect
        BY InHand
    <2>8. Moves(s, "ask", kept, rsKeep[s], cur, final, {})
        BY <2>0, <2>5 DEF Moves
    <2>9. Fits(rsEver', "ask", kept, rsKeep[s], cur, final, {}) /\ FileFits
        BY <1>1, <2>1, <2>2, <2>3, <2>4, <2>5, <2>6, <2>7 DEF Fits, FileFits
    <2> QED
        BY <2>8, <2>9, SessionMoves
<1> HIDE DEF Refused, Ran, Collected
<1> QED
    BY <1>0, <1>2, <1>3, <1>4

\* The prompts: what a session adds its user was shown; what the record gains
\* the user asked to remember.
LEMMA PromptKeepsInv ==
    ASSUME RsInv, NEW s \in RsSession, Ask(s)
    PROVE  RsInv'
<1> DEFINE cur == rsCur[s]
           pendW == PendingExplicit(cur, rsFinal[s])
           pendS == PendingSafe(rsRec[s], cur, rsFinal[s])
           Final(w, a) == rsFinal[s]
                \union (IF w \in {"remember", "once"} THEN ExplicitOf(cur) ELSE {})
                \union (IF a \in {"remember", "once"} THEN SafeOf(cur) ELSE {})
           Remembered(w, a) == rsRec[s].remembered
                \union (IF w = "remember" THEN ExplicitOf(cur) ELSE {})
                \union (IF a = "remember" THEN SafeOf(cur) ELSE {})
           Asked(w, a) == (IF w \in {"remember", "once"} THEN pendW ELSE {})
                \union (IF a \in {"remember", "once"} THEN pendS ELSE {})
           Rejected(a) == IF a = "remember" THEN rsRec[s].rejected \ pendS
                ELSE IF a = "keep" THEN rsRec[s].rejected \union pendS
                ELSE rsRec[s].rejected
           Ever(w, a) == rsEver \union (IF w = "remember" THEN pendW ELSE {})
                \union (IF a = "remember" THEN SafeOf(cur) ELSE {})
<1>1. PICK w, a :
         /\ rsFinal' = [rsFinal EXCEPT ![s] = Final(w, a)]
         /\ rsKeep' = [rsKeep EXCEPT ![s] = [remembered |-> Remembered(w, a) \intersect Final(w, a),
                         rejected |-> Rejected(a), evidence |-> rsRec[s].evidence]]
         /\ rsAsked' = [rsAsked EXCEPT ![s] = Asked(w, a)]
         /\ rsEver' = Ever(w, a)
    BY Zenon DEF Ask
<1>2. /\ rsStep[s] = "ask" /\ rsStep' = [rsStep EXCEPT ![s] = "save"]
      /\ UNCHANGED <<rsStore, rsRec, rsCur>>
    BY DEF Ask, RsGo
<1>3. cur \subseteq Effect /\ rsFinal[s] \subseteq Effect /\ rsRec[s] \in Record
    BY DEF RsInv, Effects
<1>4. ExplicitOf(rsFinal[s]) \subseteq rsEver /\ rsRec[s].remembered \subseteq rsEver
    BY <1>2 DEF RsInv
<1>5. ExplicitOf(cur) \subseteq pendW \union ExplicitOf(rsFinal[s])
    BY DEF ExplicitOf, PendingExplicit
<1>6. Final(w, a) \subseteq Effect /\ Asked(w, a) \subseteq Effect
    BY <1>3 DEF ExplicitOf, SafeOf, PendingExplicit, PendingSafe
<1>7. Ever(w, a) \subseteq Effect /\ rsEver \subseteq Ever(w, a)
    BY <1>3 DEF RsInv, ExplicitOf, SafeOf, PendingExplicit
<1>8. Remembered(w, a) \subseteq Ever(w, a)
    BY <1>4, <1>5
<1>9. ExplicitOf(Final(w, a)) \subseteq Asked(w, a) \union Ever(w, a)
    BY <1>4, <1>5 DEF ExplicitOf, SafeOf
<1>10. [remembered |-> Remembered(w, a) \intersect Final(w, a), rejected |-> Rejected(a),
        evidence |-> rsRec[s].evidence] \in Record
    <2>1. Rejected(a) \subseteq Effect
        BY <1>3 DEF Record, PendingSafe, SafeOf
    <2> QED
        BY <1>3, <1>6, <2>1 DEF Record
<1> HIDE DEF Final, Remembered, Asked, Ever, Rejected
<1> QED
    <2> DEFINE kept == [remembered |-> Remembered(w, a) \intersect Final(w, a),
                        rejected |-> Rejected(a), evidence |-> rsRec[s].evidence]
    <2>1. "save" \in RsPlace /\ kept.remembered \subseteq Ever(w, a)
        BY <1>8 DEF RsPlace
    <2>2. rsRec' = [rsRec EXCEPT ![s] = rsRec[s]] /\ rsCur' = [rsCur EXCEPT ![s] = rsCur[s]]
        BY <1>2, InHand
    <2>3. kept \in Record /\ rsKeep' = [rsKeep EXCEPT ![s] = kept]
        BY <1>1, <1>10
    <2>4. rsRec[s].remembered \subseteq rsEver' /\ rsStore'.remembered \subseteq rsEver'
        BY <1>1, <1>2, <1>7, InHand
    <2> HIDE DEF kept
    <2> QED
        <3>1. rsStore' \in Record
            BY <1>2, InHand
        <3>2. /\ rsStep' = [rsStep EXCEPT ![s] = "save"] /\ rsEver' = Ever(w, a)
              /\ rsFinal' = [rsFinal EXCEPT ![s] = Final(w, a)]
              /\ rsAsked' = [rsAsked EXCEPT ![s] = Asked(w, a)]
            BY <1>1, <1>2
        <3>3. Moves(s, "save", rsRec[s], kept, rsCur[s], Final(w, a), Asked(w, a))
            BY <2>2, <2>3, <3>2 DEF Moves
        <3>4. Fits(rsEver', "save", rsRec[s], kept, rsCur[s], Final(w, a), Asked(w, a)) /\ FileFits
            BY <1>3, <1>6, <1>7, <1>9, <2>1, <2>3, <2>4, <3>1, <3>2 DEF Fits, FileFits
        <3> QED
            BY <3>3, <3>4, SessionMoves

\* Only records in hand, the file and steps change after the prompts.
LEMMA LaterStepsKeepInv ==
    ASSUME RsInv, NEW s \in RsSession,
           NoTerminal(s) \/ SaveLoads(s) \/ SaveOpens(s) \/ SaveWrites(s) \/ RsCrash(s)
               \/ SessionEnds(s)
    PROVE  RsInv'
<1>0. {"idle", "save", "open", "write", "run", "denials", "reopen", "rewrite", "dead"} \subseteq RsPlace \ {"ask"}
    BY DEF RsPlace
<1>1. CASE NoTerminal(s)
    <2>1. CASE RsGo(s, "ask", "idle") /\ RsForget(s)
        <3>1. UNCHANGED <<rsStore, rsEver>> /\ rsStep' = [rsStep EXCEPT ![s] = "idle"]
            BY <1>1, <2>1 DEF NoTerminal, RsGo
        <3> QED
            BY <1>0, <2>1, <3>1, InHand, ForgetKeepsInv
    <2>2. CASE /\ RsGo(s, "ask", "save") /\ rsKeep' = [rsKeep EXCEPT ![s] = rsRec[s]]
               /\ UNCHANGED <<rsRec, rsCur, rsFinal, rsRepair, rsAsked>>
        <3>1. UNCHANGED <<rsStore, rsEver>> /\ rsStep' = [rsStep EXCEPT ![s] = "save"]
            BY <1>1, <2>2 DEF NoTerminal, RsGo
        <3>2. rsRec[s] \in Record /\ rsRec[s].remembered \subseteq rsEver
              /\ rsStore \in Record /\ rsStore.remembered \subseteq rsEver
            BY InHand
        <3> QED
            BY <1>0, <2>2, <3>1, <3>2, KeepChanges
    <2> QED
        BY <1>1, <2>1, <2>2 DEF NoTerminal
<1>2. CASE SaveLoads(s)
    <2>1. UNCHANGED <<rsStore, rsEver>>
        BY <1>2 DEF SaveLoads
    <2>2. CASE RsForget(s) /\ RsGo(s, "denials", "idle")
        <3>1. rsStep' = [rsStep EXCEPT ![s] = "idle"]
            BY <2>2 DEF RsGo
        <3> QED
            BY <1>0, <2>1, <2>2, <3>1, InHand, ForgetKeepsInv
    <2>3. CASE UNCHANGED rsMine
        <3>1. PICK at \in {"open", "run", "reopen", "idle"} : rsStep' = [rsStep EXCEPT ![s] = at]
            BY <1>2 DEF SaveLoads, RsGo
        <3> QED
            BY <1>0, <2>1, <2>3, <3>1, InHand, StepsOn
    <2> QED
        BY <1>2, <2>2, <2>3 DEF SaveLoads
<1>3. CASE SaveOpens(s)
    <2>1. UNCHANGED <<rsEver, rsMine>> /\ rsStore' = Empty
        BY <1>3 DEF SaveOpens
    <2>2. PICK at \in {"write", "rewrite"} : rsStep' = [rsStep EXCEPT ![s] = at]
        BY <1>3 DEF SaveOpens, RsGo
    <2>3. rsStore' \in Record /\ rsStore'.remembered \subseteq rsEver
        BY <2>1, EmptyIsRecord
    <2> QED
        BY <1>0, <2>1, <2>2, <2>3, StepsOn
<1>7. CASE SaveWrites(s)
    <2>1. rsStore' \in Record /\ rsStore'.remembered \subseteq rsEver
        BY <1>7, PutFits DEF SaveWrites
    <2>2. UNCHANGED rsEver
        BY <1>7 DEF SaveWrites
    <2>3. CASE /\ RsGo(s, "write", "run") /\ rsKeep' = [rsKeep EXCEPT ![s] = Empty]
               /\ UNCHANGED <<rsRec, rsCur, rsFinal, rsRepair, rsAsked>>
        <3>1. rsStep' = [rsStep EXCEPT ![s] = "run"]
            BY <2>3 DEF RsGo
        <3> QED
            BY <1>0, <2>1, <2>2, <2>3, <3>1, EmptyIsRecord, KeepChanges
    <2>4. CASE RsGo(s, "rewrite", "idle") /\ RsForget(s)
        <3>1. rsStep' = [rsStep EXCEPT ![s] = "idle"]
            BY <2>4 DEF RsGo
        <3> QED
            BY <1>0, <2>1, <2>2, <2>4, <3>1, ForgetKeepsInv
    <2> QED
        BY <1>7, <2>3, <2>4 DEF SaveWrites
<1>4. CASE RsCrash(s)
    <2>1. UNCHANGED <<rsStore, rsEver>> /\ rsStep' = [rsStep EXCEPT ![s] = "dead"] /\ RsForget(s)
        BY <1>4 DEF RsCrash
    <2> QED
        BY <1>0, <2>1, InHand, ForgetKeepsInv
<1>5. CASE SessionEnds(s)
    <2>1. CASE RsGo(s, "run", "idle") /\ RsForget(s)
        <3>1. UNCHANGED <<rsStore, rsEver>> /\ rsStep' = [rsStep EXCEPT ![s] = "idle"]
            BY <1>5, <2>1 DEF SessionEnds, RsGo
        <3> QED
            BY <1>0, <2>1, <3>1, InHand, ForgetKeepsInv
    <2>2. ASSUME NEW new \in SUBSET Denial, RsGo(s, "run", "denials"),
                 rsKeep' = [rsKeep EXCEPT ![s] = [rsStore EXCEPT !.evidence = @ \union new]],
                 UNCHANGED <<rsRec, rsCur, rsFinal, rsRepair, rsAsked>>
          PROVE  RsInv'
        <3> DEFINE kept == [rsStore EXCEPT !.evidence = @ \union new]
        <3>1. kept \in Record /\ kept.remembered = rsStore.remembered
            BY DEF RsInv, Record
        <3>2. rsKeep' = [rsKeep EXCEPT ![s] = kept] /\ UNCHANGED <<rsStore, rsEver>>
            BY <1>5, <2>2 DEF SessionEnds
        <3>3. rsStep' = [rsStep EXCEPT ![s] = "denials"]
            BY <2>2 DEF RsGo
        <3>4. rsStore \in Record /\ rsStore.remembered \subseteq rsEver
            BY InHand
        <3> HIDE DEF kept
        <3> QED
            BY <1>0, <2>2, <3>1, <3>2, <3>3, <3>4, KeepChanges
    <2> QED
        BY <1>5, <2>1, <2>2 DEF SessionEnds
<1> QED
    BY <1>1, <1>2, <1>3, <1>4, <1>5, <1>7

LEMMA RsInvStep == RsInv /\ [RsNext]_rsVars => RsInv'
<1> SUFFICES ASSUME RsInv, [RsNext]_rsVars
             PROVE  RsInv'
    OBVIOUS
<1>1. CASE ProjectChanges \/ UNCHANGED rsVars
    BY <1>1 DEF ProjectChanges, rsVars, rsMine, RsInv
<1> QED
    BY <1>1, CollectKeepsInv, PromptKeepsInv, LaterStepsKeepInv DEF RsNext

----------------------------------------------------------------------------
\* finalizePreparedRepoSetup and saveRepoProfileRecord: however launches
\* overlap, write stale records back or die in between, a session writes
\* outside its project only where its user accepted it at this launch or some
\* user asked for it to be remembered, and the profile remembers nothing else.
THEOREM WritesAreApproved == RsSpec => []WritesWereApproved
<1>1. RsSpec => []RsInv
    BY RsInvInit, RsInvStep, PTL DEF RsSpec
<1>2. RsInv => WritesWereApproved
    BY DEF RsInv, WritesWereApproved
<1> QED
    BY <1>1, <1>2, PTL
----------------------------------------------------------------------------
\* The types of what RsInv does not speak of.
RsRest ==
    /\ rsText \in {"saved", "empty", "broken"} /\ rsTools \in SUBSET (Suggestion \union {"g"})
    /\ rsRoot \in [Suggestion -> Root] /\ rsPinned \in SUBSET Suggestion
    /\ rsRepair \in [RsSession -> SUBSET Suggestion] /\ rsLaunches \in 0..MaxLaunches

LEMMA RsRestInit == RsInit => RsRest
<1> SUFFICES ASSUME RsInit
             PROVE  RsRest
    OBVIOUS
<1>1. rsTools \in SUBSET (Suggestion \union {"g"}) /\ rsPinned \in SUBSET Suggestion
    BY DEF RsInit, Suggestion
<1>2. rsRoot \in [Suggestion -> Root] /\ rsRepair \in [RsSession -> SUBSET Suggestion]
    BY DEF RsInit
<1>3. rsText \in {"saved", "empty", "broken"} /\ rsLaunches \in 0..MaxLaunches
    <2>1. rsLaunches = 0
        BY DEF RsInit
    <2>2. rsLaunches \in 0..MaxLaunches
        BY <2>1, RepoAssumption DEF RepoAssumption
    <2>3. rsText \in {"saved", "empty", "broken"}
        BY DEF RsInit
    <2> QED
        BY <2>2, <2>3
<1> QED
    BY <1>1, <1>2, <1>3 DEF RsRest

\* A session's repairs are of integrations, whatever else it does.
LEMMA RepairsTyped ==
    ASSUME RsRest, NEW s \in RsSession, NEW r \in SUBSET Suggestion,
           rsRepair' = [rsRepair EXCEPT ![s] = r]
    PROVE  rsRepair' \in [RsSession -> SUBSET Suggestion]
BY DEF RsRest

LEMMA PlannedRepairs ==
    ASSUME RsRest
    PROVE  Repairs(Active) \in SUBSET Suggestion /\ Repairs(Suggested) \in SUBSET Suggestion
BY DEF RsRest, Repairs, Active, Suggested

LEMMA RsRestStep == RsRest /\ [RsNext]_rsVars => RsRest'
<1> SUFFICES ASSUME RsRest, [RsNext]_rsVars
             PROVE  RsRest'
    OBVIOUS
<1>1. CASE ProjectChanges
    BY <1>1 DEF ProjectChanges, rsMine, RsRest, Suggestion
<1>2. CASE UNCHANGED rsVars
    BY <1>2 DEF rsVars, RsRest
<1>3. ASSUME NEW s \in RsSession, Collect(s)
      PROVE  RsRest'
    <2>1. UNCHANGED <<rsText, rsTools, rsRoot, rsPinned>> /\ rsLaunches' \in 0..MaxLaunches
        BY <1>3, RepoAssumption DEF Collect, rsWorld, RsRest, RepoAssumption
    <2>2. \/ rsRepair' = rsRepair
          \/ \E c \in BOOLEAN :
                rsRepair' = [rsRepair EXCEPT ![s] =
                               Repairs(Active) \union (IF c THEN Repairs(Suggested) ELSE {})]
        BY <1>3 DEF Collect, rsMine
    <2>3. rsRepair' \in [RsSession -> SUBSET Suggestion]
        BY <2>2, PlannedRepairs, RepairsTyped DEF RsRest
    <2> QED
        BY <2>1, <2>3 DEF RsRest
<1>4. ASSUME NEW s \in RsSession, Ask(s)
      PROVE  RsRest'
    <2>1. UNCHANGED <<rsText, rsTools, rsRoot, rsPinned, rsLaunches>>
        BY <1>4 DEF Ask, rsWorld
    <2>2. \E c \in BOOLEAN :
             rsRepair' = [rsRepair EXCEPT ![s] =
                            rsRepair[s] \union (IF c THEN Repairs(Suggested) ELSE {})]
        BY <1>4 DEF Ask
    <2>3. rsRepair' \in [RsSession -> SUBSET Suggestion]
        BY <2>2, PlannedRepairs, RepairsTyped DEF RsRest
    <2> QED
        BY <2>1, <2>3 DEF RsRest
<1>5. ASSUME NEW s \in RsSession,
             NoTerminal(s) \/ SaveLoads(s) \/ SaveOpens(s) \/ SaveWrites(s) \/ RsCrash(s)
                 \/ SessionEnds(s)
      PROVE  RsRest'
    <2>1. /\ UNCHANGED <<rsTools, rsRoot, rsPinned, rsLaunches>>
          /\ rsText' \in {"saved", "empty", "broken"}
        BY <1>5 DEF NoTerminal, SaveLoads, SaveOpens, SaveWrites, PutRecord, RsCrash,
                    SessionEnds, rsWorld, RsRest
    <2>2. rsRepair' = rsRepair \/ rsRepair' = [rsRepair EXCEPT ![s] = {}]
        BY <1>5 DEF NoTerminal, SaveLoads, SaveOpens, SaveWrites, RsCrash, SessionEnds,
                    RsForget, rsMine
    <2>3. rsRepair' \in [RsSession -> SUBSET Suggestion]
        BY <2>2, RepairsTyped DEF RsRest
    <2> QED
        BY <2>1, <2>3 DEF RsRest
<1> QED
    BY <1>1, <1>2, <1>3, <1>4, <1>5 DEF RsNext

LEMMA RepoHasItsTypes == RsSpec => []RsTypeOK
<1>1. RsSpec => [](RsInv /\ RsRest)
    BY RsInvInit, RsInvStep, RsRestInit, RsRestStep, PTL DEF RsSpec
<1>2. RsInv /\ RsRest => RsTypeOK
    BY DEF RsInv, RsRest, RsTypeOK, Effects, RsPlace
<1> QED
    BY <1>1, <1>2, PTL
=============================================================================
