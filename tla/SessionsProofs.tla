----------------------------- MODULE SessionsProofs -----------------------------
(***************************************************************************)
(* What holds of the components that serve a session, for every value of   *)
(* their constants: component by component in the order of MCSessions, and *)
(* then of their composition, of which each component is a part.           *)
(***************************************************************************)
EXTENDS MCSessions, Integers, FiniteSetTheorems, SequenceTheorems, TLAPS

----------------------------------------------------------------------------
(* ProjectPermissions.                                                     *)

PmSteps == {"probe", "record", "planGit", "noteGit", "planned", "apply", "fixGit", "noteFix",
            "repair", "judge", "trust", "running", "postGit", "notePost", "postRepair",
            "postJudge", "ended", "failed"}

\* The path is in order, or it is known why it may not be.
Good(p, s) == grant[p] \/ p \in touched[s] \/ p \in torn

\* The same, since the session last probed.
Fresh(p, s) == grant[p] \/ p \in window[s] \/ p \in torn

\* An entry that answers for the path as it is tells the truth.
EntryOK(e, p) ==
    e # NoEntry => /\ e.at \in Nat /\ e.at <= ctime[p]
                   /\ e.at = ctime[p] /\ e.has => grant[p] \/ p \in torn

\* What a session stands on where it is: what it has seen, planned and repaired.
SessionStands(s) ==
    /\ window[s] \subseteq touched[s]
    /\ step[s] = "record" =>
         \A p \in Probed : copy[s][p] = NoEntry /\ seen[s][p] => Fresh(p, s)
    /\ step[s] # "probe" => \A p \in Probed : seen[s][p] => Good(p, s)
    /\ step[s] \in {"probe", "record", "planGit"} => ~healthy[s]
    /\ healthy[s] => Good("git", s)
    /\ step[s] \in {"noteGit", "noteFix", "notePost", "judge", "postJudge"} /\ healthy[s] =>
         Fresh("git", s)
    /\ step[s] = "apply" => \A p \in Path : p \in plan[s] \/ Good(p, s)
    /\ step[s] \in {"trust", "running"} => Good("git", s)
    /\ step[s] \in {"fixGit", "noteFix", "repair", "judge", "trust", "running"} =>
         \A p \in Probed : Good(p, s) \/ p \in warned[s]

PmTypes ==
    /\ ctime \in [Path -> Nat]
    /\ step \in [Session -> PmSteps]
    /\ DOMAIN grant = Path /\ DOMAIN healthy = Session
    /\ DOMAIN copy = Session /\ DOMAIN seen = Session /\ DOMAIN plan = Session
    /\ DOMAIN warned = Session /\ DOMAIN touched = Session /\ DOMAIN window = Session

GitCacheTrue ==
    gitCache # NoEntry => /\ gitCache \in Nat /\ gitCache <= ctime["git"]
                          /\ gitCache = ctime["git"] => grant["git"] \/ "git" \in torn

ListsTrue ==
    /\ \A p \in Probed : EntryOK(cache[p], p)
    /\ \A s \in Session, p \in Probed : EntryOK(copy[s][p], p)

CachesTrue == ListsTrue /\ GitCacheTrue

PmInv == PmTypes /\ CachesTrue /\ \A s \in Session : SessionStands(s)

\* What an entry says stays true when a path is only granted, or its state moves on.
LEMMA EntriesLast ==
    ASSUME PmTypes, PmTypes', NEW p \in Path, NEW e, EntryOK(e, p),
           torn \subseteq torn',
           \/ ctime'[p] > ctime[p]
           \/ ctime'[p] = ctime[p] /\ (grant[p] => grant'[p])
    PROVE  EntryOK(e, p)'
<1>1. ctime[p] \in Nat /\ ctime'[p] \in Nat
    BY DEF PmTypes
<1> QED
    BY <1>1 DEF EntryOK

\* And so is what a session that does not move stands on.
LEMMA OthersStand ==
    ASSUME NEW s \in Session, SessionStands(s), torn \subseteq torn',
           UNCHANGED <<step[s], copy[s], seen[s], plan[s], healthy[s], warned[s]>>,
           touched[s] \subseteq touched'[s], window'[s] \subseteq touched'[s],
           window[s] \subseteq window'[s],
           \A p \in Path : (grant[p] => grant'[p]) \/ p \in window'[s]
    PROVE  SessionStands(s)'
<1>1. \A p \in Path : (Good(p, s) => Good(p, s)') /\ (Fresh(p, s) => Fresh(p, s)')
    BY DEF Good, Fresh
<1>2. "git" \in Path /\ Probed \subseteq Path
    BY DEF Path, Probed
<1> QED
    BY <1>1, <1>2 DEF SessionStands

\* Nothing is cached and nothing is planned.
LEMMA PmInvInit == Init => PmInv
<1> SUFFICES ASSUME Init PROVE PmInv
    OBVIOUS
<1>1. PmTypes
    BY DEF Init, PmTypes, PmSteps, Path
<1>2. CachesTrue
    <2>1. \A p \in Probed : cache[p] = NoEntry \/ cache[p] = [at |-> 0, has |-> grant[p]]
        BY DEF Init
    <2>2. \A p \in Probed : EntryOK(cache[p], p)
        BY <2>1 DEF Init, EntryOK, Probed, Path
    <2>3. \A s \in Session, p \in Probed : EntryOK(copy[s][p], p)
        BY DEF Init, EntryOK
    <2> QED
        BY <2>2, <2>3, PermsAssumption DEF Init, CachesTrue, ListsTrue, GitCacheTrue, Path
<1>3. \A s \in Session : SessionStands(s)
    BY DEF Init, SessionStands
<1> QED
    BY <1>1, <1>2, <1>3 DEF PmInv

\* The paths, by name.
LEMMA PathsAre == Path = Probed \cup {"git"} /\ "git" \notin Probed
BY DEF Path, Probed

\* A session that goes about its business takes nothing away, and touches nothing
\* that is another's.
Onward(s) ==
    /\ torn \subseteq torn'
    /\ \A p \in Path : ctime'[p] >= ctime[p]
    /\ \A p \in Path : grant[p] => grant'[p]
    /\ \A r \in Session \ {s} :
           /\ step'[r] = step[r] /\ copy'[r] = copy[r] /\ seen'[r] = seen[r]
           /\ plan'[r] = plan[r] /\ healthy'[r] = healthy[r] /\ warned'[r] = warned[r]
           /\ touched'[r] = touched[r] /\ window'[r] = window[r]

\* Then the entries go on telling the truth, wherever they are kept.
LEMMA ListsLast ==
    ASSUME NEW s \in Session, PmInv, PmTypes', Onward(s), UNCHANGED <<cache, copy>>
    PROVE  ListsTrue'
<1>1. \A p \in Path : ctime[p] \in Nat /\ ctime'[p] \in Nat
    BY DEF PmInv, PmTypes
<1>2. \A p \in Path : ctime'[p] > ctime[p] \/ ctime'[p] = ctime[p]
    BY <1>1 DEF Onward
<1>3. ASSUME NEW p \in Path, NEW e, EntryOK(e, p)
      PROVE  EntryOK(e, p)'
    BY <1>1, <1>2, <1>3, EntriesLast DEF PmInv, Onward
<1>4. \A p \in Probed : EntryOK(cache[p], p)'
    BY <1>3, PathsAre DEF PmInv, CachesTrue, ListsTrue, EntryOK
<1>5. \A r \in Session, p \in Probed : EntryOK(copy[r][p], p)'
    BY <1>3, PathsAre DEF PmInv, CachesTrue, ListsTrue, EntryOK
<1> QED
    BY <1>4, <1>5 DEF ListsTrue, EntryOK

\* A step that writes no cache leaves the entries as true as they were.
LEMMA CachesLast ==
    ASSUME NEW s \in Session, PmInv, PmTypes', Onward(s), UNCHANGED <<cache, copy, gitCache>>
    PROVE  CachesTrue'
<1>1. \A p \in Path : ctime[p] \in Nat /\ ctime'[p] \in Nat
    BY DEF PmInv, PmTypes
<1>2. \A p \in Path : ctime'[p] > ctime[p] \/ ctime'[p] = ctime[p]
    BY <1>1 DEF Onward
<1>3. GitCacheTrue'
    BY <1>1, <1>2, PathsAre DEF PmInv, CachesTrue, ListsTrue, GitCacheTrue, Onward, GitCacheTrue
<1> QED
    BY <1>3, ListsLast DEF CachesTrue

\* So that a step is judged by the session that takes it.
LEMMA StepStands ==
    ASSUME NEW s \in Session, PmInv, PmTypes', Onward(s), CachesTrue', SessionStands(s)'
    PROVE  PmInv'
<1>1. ASSUME NEW r \in Session PROVE SessionStands(r)'
    <2>1. CASE r = s
        BY <2>1
    <2>2. CASE r # s
        <3>1. SessionStands(r) /\ window[r] \subseteq touched[r]
            BY DEF PmInv, SessionStands
        <3>2. UNCHANGED <<step[r], copy[r], seen[r], plan[r], healthy[r], warned[r]>>
            BY <2>2 DEF Onward
        <3>3. touched[r] \subseteq touched'[r] /\ window'[r] \subseteq touched'[r]
              /\ window[r] \subseteq window'[r]
            BY <2>2, <3>1 DEF Onward
        <3>4. \A p \in Path : (grant[p] => grant'[p]) \/ p \in window'[r]
            BY DEF Onward
        <3> QED
            BY <3>1, <3>2, <3>3, <3>4, OthersStand DEF Onward
    <2> QED
        BY <2>1, <2>2
<1> QED
    BY <1>1 DEF PmInv

\* Every step keeps the shapes of the state.
LEMMA PmTypesStep ==
    ASSUME PmTypes, Next PROVE PmTypes'
<1> USE DEF PmTypes, PmSteps
<1>1. ASSUME NEW s \in Session, Probe(s) PROVE PmTypes'
    BY <1>1 DEF Probe, Go, hostVars
<1>2. ASSUME NEW s \in Session, Record(s) PROVE PmTypes'
    BY <1>2 DEF Record, Go, hostVars
<1>3. ASSUME NEW s \in Session, CheckGit(s) PROVE PmTypes'
    <2> PICK here \in DOMAIN GitStep :
            /\ step' = [step EXCEPT ![s] =
                   IF gitCache = ctime["git"] THEN AfterGit(here, TRUE) ELSE GitStep[here]]
            /\ healthy' = [healthy EXCEPT ![s] = gitCache = ctime["git"] \/ grant["git"]]
            /\ window' = [window EXCEPT ![s] = {}]
            /\ UNCHANGED <<hostVars, owned, cache, gitCache, copy, seen, plan,
                           warned, changes, touched, torn>>
        BY <1>3 DEF CheckGit
    <2>1. AfterGit(here, TRUE) \in PmSteps /\ GitStep[here] \in PmSteps
        BY DEF AfterGit, GitStep
    <2> QED
        BY <2>1 DEF hostVars
<1>4. ASSUME NEW s \in Session, NoteGit(s) PROVE PmTypes'
    <2> PICK here \in DOMAIN GitStep :
            /\ step' = [step EXCEPT ![s] = AfterGit(here, healthy[s])]
            /\ UNCHANGED <<hostVars, owned, cache, copy, seen, plan, healthy, warned,
                           changes, touched, window>>
        BY <1>4 DEF NoteGit
    <2>1. AfterGit(here, healthy[s]) \in PmSteps
        BY DEF AfterGit, GitStep
    <2> QED
        BY <2>1 DEF hostVars
<1>5. ASSUME NEW s \in Session, Plan(s) PROVE PmTypes'
    BY <1>5 DEF Plan, Go, hostVars
<1>6. ASSUME NEW s \in Session, ApplyACLs(s) PROVE PmTypes'
    BY <1>6 DEF ApplyACLs, Go, Grant
<1>7. ASSUME NEW s \in Session, RepairGit(s) PROVE PmTypes'
    BY <1>7 DEF RepairGit, Grant
<1>8. ASSUME NEW s \in Session, JudgeGit(s) PROVE PmTypes'
    BY <1>8 DEF JudgeGit, hostVars
<1>9. ASSUME NEW s \in Session, Trust(s) PROVE PmTypes'
    BY <1>9 DEF Trust
<1>10. ASSUME NEW s \in Session, EndSession(s) PROVE PmTypes'
    BY <1>10 DEF EndSession, Go, hostVars
<1>11. ASSUME NEW p \in Path, Change(p) PROVE PmTypes'
    <2>1. DOMAIN grant' = Path
        BY <1>11 DEF Change
    <2>2. ctime' \in [Path -> Nat]
        BY <1>11 DEF Change
    <2> QED
        BY <1>11, <2>1, <2>2 DEF Change
<1> QED
    BY <1>1, <1>2, <1>3, <1>4, <1>5, <1>6, <1>7, <1>8, <1>9, <1>10, <1>11 DEF Next

\* A probe reads the caches and the paths as they are.
LEMMA ProbeStands ==
    ASSUME NEW s \in Session, PmInv, PmTypes', Probe(s) PROVE PmInv'
<1>1. /\ step[s] = "probe" /\ step'[s] = "record"
      /\ \A p \in Probed : copy'[s][p] = IF Hit(cache, p) THEN cache[p] ELSE NoEntry
      /\ \A p \in Probed : seen'[s][p] = IF Hit(cache, p) THEN cache[p].has ELSE grant[p]
      /\ touched'[s] = {} /\ window'[s] = {} /\ healthy'[s] = healthy[s]
    BY DEF Probe, Go, PmInv, PmTypes
<1>2. /\ \A r \in Session \ {s} : copy'[r] = copy[r]
      /\ UNCHANGED <<grant, ctime, torn, cache, gitCache>>
    BY DEF Probe, hostVars, PmInv, PmTypes
<1>3. Onward(s)
    <2>1. \A p \in Path : ctime'[p] >= ctime[p]
        BY <1>2 DEF PmInv, PmTypes
    <2> QED
        BY <1>2, <2>1 DEF Probe, Go, hostVars, PmInv, PmTypes, Onward
<1>4. \A p \in Probed : EntryOK(cache[p], p)
    BY DEF PmInv, CachesTrue, ListsTrue, GitCacheTrue
<1>5. CachesTrue'
    <2>1. \A p \in Probed : EntryOK(copy'[s][p], p)
        BY <1>1, <1>4 DEF EntryOK
    <2>2. \A r \in Session, p \in Probed : EntryOK(copy'[r][p], p)
        BY <1>2, <2>1 DEF PmInv, CachesTrue, ListsTrue, GitCacheTrue
    <2> QED
        BY <1>2, <1>4, <2>2 DEF PmInv, CachesTrue, ListsTrue, GitCacheTrue, EntryOK
<1>6. SessionStands(s)'
    <2>1. \A p \in Probed : seen'[s][p] => grant[p] \/ p \in torn
        BY <1>1, <1>4 DEF Hit, EntryOK
    <2>2. healthy'[s] = FALSE \/ ~healthy'[s]
        BY <1>1 DEF PmInv, SessionStands
    <2> QED
        BY <1>1, <1>2, <2>1, <2>2 DEF SessionStands, Good, Fresh
<1> QED
    BY <1>3, <1>5, <1>6, StepStands

\* What a probe saw is recorded for the paths it missed.
LEMMA RecordStands ==
    ASSUME NEW s \in Session, PmInv, PmTypes', Record(s) PROVE PmInv'
<1> DEFINE misses == {p \in Probed : copy[s][p] = NoEntry}
<1>1. /\ step[s] = "record" /\ step'[s] = "planGit"
      /\ UNCHANGED <<grant, ctime, gitCache, copy, seen, plan, healthy, warned,
                     touched, window>>
      /\ torn' = torn \cup (misses \cap window[s])
    BY DEF Record, Go, hostVars, PmInv, PmTypes
<1>2. Onward(s)
    <2>1. \A p \in Path : ctime'[p] >= ctime[p]
        BY <1>1 DEF PmInv, PmTypes
    <2>2. \A r \in Session \ {s} : step'[r] = step[r]
        BY DEF Record, Go, PmInv, PmTypes
    <2> QED
        BY <1>1, <2>1, <2>2 DEF Onward
<1>3. ASSUME NEW p \in Probed PROVE EntryOK(cache[p], p)'
    <2>1. EntryOK(cache[p], p) /\ EntryOK(copy[s][p], p)
        BY DEF PmInv, CachesTrue, ListsTrue, GitCacheTrue
    <2>2. CASE misses = {}
        <3>1. cache' = cache
            BY <2>2 DEF Record
        <3> QED
            BY <1>1, <2>1, <3>1 DEF EntryOK
    <2>3. CASE misses # {} /\ p \notin misses
        <3>1. cache'[p] = copy[s][p]
            BY <2>3 DEF Record
        <3> QED
            BY <1>1, <2>1, <3>1 DEF EntryOK
    <2>4. CASE p \in misses
        <3>1. cache'[p] = [at |-> ctime[p], has |-> seen[s][p]]
            BY <2>4 DEF Record
        <3>2. seen[s][p] => grant[p] \/ p \in window[s] \/ p \in torn
            BY <1>1, <2>4 DEF PmInv, SessionStands, Fresh
        <3>3. ctime[p] \in Nat
            BY PathsAre DEF PmInv, PmTypes
        <3> QED
            BY <1>1, <2>4, <3>1, <3>2, <3>3 DEF EntryOK
    <2> QED
        BY <2>2, <2>3, <2>4
<1>4. CachesTrue'
    BY <1>1, <1>3 DEF PmInv, CachesTrue, ListsTrue, GitCacheTrue, EntryOK
<1>5. SessionStands(s)'
    <2>1. SessionStands(s)
        BY DEF PmInv
    <2>2. \A p \in Path : (Good(p, s) => Good(p, s)') /\ (Fresh(p, s) => Fresh(p, s)')
        BY <1>1 DEF Good, Fresh
    <2> QED
        BY <1>1, <2>1, <2>2, PathsAre DEF SessionStands
<1> QED
    BY <1>2, <1>4, <1>5, StepStands

\* The sets of steps a session's standing speaks of, of a step that it may be at.
LEMMA CheckGitStands ==
    ASSUME NEW s \in Session, PmInv, PmTypes', CheckGit(s) PROVE PmInv'
<1> DEFINE known == gitCache = ctime["git"]
<1>1. PICK here \in DOMAIN GitStep :
          /\ step[s] = here
          /\ healthy' = [healthy EXCEPT ![s] = known \/ grant["git"]]
          /\ step' = [step EXCEPT ![s] =
                 IF known THEN AfterGit(here, TRUE) ELSE GitStep[here]]
          /\ window' = [window EXCEPT ![s] = {}]
          /\ UNCHANGED <<hostVars, owned, cache, gitCache, copy, seen, plan,
                         warned, changes, touched, torn>>
    BY DEF CheckGit
<1>2. /\ UNCHANGED <<grant, ctime, cache, gitCache, copy, seen, plan, warned, touched, torn>>
      /\ window'[s] = {}
    BY <1>1 DEF hostVars, PmInv, PmTypes
<1>3. healthy'[s] <=> known \/ grant["git"]
    BY <1>1 DEF PmInv, PmTypes
<1>4. Onward(s)
    <2>1. \A p \in Path : ctime'[p] >= ctime[p]
        BY <1>2 DEF PmInv, PmTypes
    <2> QED
        BY <1>1, <1>2, <2>1 DEF Onward, PmInv, PmTypes
<1>5. known => grant["git"] \/ "git" \in torn
    <2>1. ctime["git"] \in Nat
        BY PathsAre DEF PmInv, PmTypes
    <2> QED
        BY <2>1, PermsAssumption DEF PmInv, CachesTrue, ListsTrue, GitCacheTrue
<1>6. healthy'[s] => (Good("git", s) /\ Fresh("git", s))'
    BY <1>2, <1>3, <1>5 DEF Good, Fresh
<1>7. \A p \in Probed : Good(p, s) => Good(p, s)'
    BY <1>2 DEF Good
<1>8. \/ step[s] = "planGit" /\ step'[s] \in {"planned", "noteGit"}
      \/ step[s] = "fixGit" /\ step'[s] = "trust" /\ known
      \/ step[s] = "fixGit" /\ step'[s] = "noteFix"
      \/ step[s] = "postGit" /\ step'[s] \in {"ended", "notePost"}
    BY <1>1 DEF GitStep, AfterGit, PmInv, PmTypes
<1>9. SessionStands(s)
    BY DEF PmInv
<1> HIDE DEF known
<1>10. step'[s] = "trust" => healthy'[s]
    BY <1>3, <1>8
<1>11. SessionStands(s)'
    BY <1>2, <1>6, <1>7, <1>8, <1>9, <1>10 DEF SessionStands
<1> QED
    BY <1>2, <1>4, <1>11, StepStands, CachesLast

\* A healthy Git tree is noted with the time it was seen at.
LEMMA NoteGitStands ==
    ASSUME NEW s \in Session, PmInv, PmTypes', NoteGit(s) PROVE PmInv'
<1>1. PICK here \in DOMAIN GitStep :
          /\ step[s] = GitStep[here]
          /\ gitCache' = IF healthy[s] THEN ctime["git"] ELSE NoEntry
          /\ step' = [step EXCEPT ![s] = AfterGit(here, healthy[s])]
          /\ torn' = IF healthy[s] THEN torn \cup (window[s] \cap {"git"}) ELSE torn
          /\ UNCHANGED <<hostVars, owned, cache, copy, seen, plan, healthy, warned,
                         changes, touched, window>>
    BY DEF NoteGit
<1>2. /\ UNCHANGED <<grant, ctime, cache, copy, seen, plan, healthy, warned, touched, window>>
      /\ torn \subseteq torn'
    BY <1>1 DEF hostVars
<1>3. Onward(s)
    <2>1. \A p \in Path : ctime'[p] >= ctime[p]
        BY <1>2 DEF PmInv, PmTypes
    <2> QED
        BY <1>1, <1>2, <2>1 DEF Onward, PmInv, PmTypes
<1>4. \/ step[s] = "noteGit" /\ step'[s] = "planned"
      \/ step[s] = "noteFix" /\ step'[s] = "trust" /\ healthy[s]
      \/ step[s] = "noteFix" /\ step'[s] = "repair"
      \/ step[s] = "notePost" /\ step'[s] \in {"ended", "postRepair"}
    BY <1>1 DEF GitStep, AfterGit, PmInv, PmTypes
<1>5. SessionStands(s)
    BY DEF PmInv
<1>6. GitCacheTrue'
    <2>1. ctime["git"] \in Nat
        BY PathsAre DEF PmInv, PmTypes
    <2>2. healthy[s] => Fresh("git", s)
        BY <1>4, <1>5 DEF SessionStands
    <2> QED
        BY <1>1, <1>2, <2>1, <2>2 DEF GitCacheTrue, Fresh
<1>7. \A p \in Path : Good(p, s) => Good(p, s)'
    BY <1>2 DEF Good
<1>8. SessionStands(s)'
    BY <1>2, <1>4, <1>5, <1>7, PathsAre DEF SessionStands
<1> QED
    BY <1>2, <1>3, <1>6, <1>8, StepStands, ListsLast DEF CachesTrue

\* What is not known to be in order is planned.
LEMMA PlanStands ==
    ASSUME NEW s \in Session, PmInv, PmTypes', Plan(s) PROVE PmInv'
<1>1. /\ step[s] = "planned" /\ step'[s] = "apply"
      /\ plan'[s] = {p \in Probed : ~seen[s][p]}
                    \cup (IF healthy[s] THEN {} ELSE {"git"})
                    \cup (IF trusted THEN {} ELSE {"trust"})
      /\ UNCHANGED <<grant, ctime, cache, gitCache, copy, seen, healthy, warned,
                     touched, window, torn>>
    BY DEF Plan, Go, hostVars, PmInv, PmTypes
<1>2. Onward(s)
    <2>1. \A p \in Path : ctime'[p] >= ctime[p]
        BY <1>1 DEF PmInv, PmTypes
    <2> QED
        BY <1>1, <2>1 DEF Onward, Plan, Go, PmInv, PmTypes
<1>3. SessionStands(s)
    BY DEF PmInv
<1>4. \A p \in Path : p \in plan'[s] \/ Good(p, s)
    BY <1>1, <1>3, PathsAre DEF SessionStands
<1>5. \A p \in Path : Good(p, s) => Good(p, s)'
    BY <1>1 DEF Good
<1>6. SessionStands(s)'
    BY <1>1, <1>3, <1>4, <1>5, PathsAre DEF SessionStands
<1>7. CachesTrue'
    <2>1. UNCHANGED <<cache, copy, gitCache>>
        BY <1>1
    <2> QED
        BY <2>1, <1>2, CachesLast
<1> QED
    BY <1>2, <1>6, <1>7, StepStands

\* chmod +a only gives.
LEMMA GrantGives ==
    ASSUME PmTypes, NEW ps, Grant(ps)
    PROVE  /\ \A p \in Path : ctime'[p] >= ctime[p]
           /\ \A p \in Path : grant[p] => grant'[p]
           /\ \A p \in Path : p \in ps /\ p \in owned => grant'[p]
<1>1. \A p \in Path : grant'[p] = (grant[p] \/ (p \in ps /\ p \in owned))
    BY Zenon DEF Grant
<1>2. \A p \in Path : ctime'[p] = ctime[p] \/ ctime'[p] = ctime[p] + 1
    BY DEF Grant
<1>3. \A p \in Path : ctime[p] \in Nat
    BY DEF PmTypes
<1>4. \A p \in Path : ctime'[p] >= ctime[p]
    BY <1>2, <1>3
<1>5. \A p \in Path : grant[p] => grant'[p]
    BY <1>1, Zenon
<1>6. \A p \in Path : p \in ps /\ p \in owned => grant'[p]
    BY <1>1, Zenon
<1> QED
    BY <1>4, <1>5, <1>6

\* A repair grants what was planned, or warns, or fails.
LEMMA ApplyStands ==
    ASSUME NEW s \in Session, PmInv, PmTypes', ApplyACLs(s) PROVE PmInv'
<1>1. /\ step[s] = "apply"
      /\ step'[s] = IF "git" \in plan[s] THEN "fixGit" ELSE "trust"
      /\ warned'[s] = {p \in plan[s] \cap Probed : ~grant[p] /\ p \notin owned}
      /\ UNCHANGED <<cache, gitCache, copy, seen, plan, healthy, touched, window, torn>>
    BY DEF ApplyACLs, Go, PmInv, PmTypes
<1>2. /\ \A p \in Path : ctime'[p] >= ctime[p]
      /\ \A p \in Path : grant[p] => grant'[p]
      /\ \A p \in Path : p \in plan[s] \cap Probed /\ p \in owned => grant'[p]
    BY GrantGives DEF ApplyACLs, PmInv
<1>3. Onward(s)
    <2>1. \A r \in Session \ {s} : step'[r] = step[r] /\ warned'[r] = warned[r]
        BY DEF ApplyACLs, Go, PmInv, PmTypes
    <2> QED
        BY <1>1, <1>2, <2>1 DEF Onward
<1>4. SessionStands(s)
    BY DEF PmInv
<1>5. \A p \in Path : (Good(p, s) => Good(p, s)') /\ (Fresh(p, s) => Fresh(p, s)')
    BY <1>1, <1>2 DEF Good, Fresh
<1>6. \A p \in Probed : Good(p, s)' \/ p \in warned'[s]
    <2> TAKE p \in Probed
    <2>1. CASE Good(p, s)
        BY <2>1, <1>5, PathsAre
    <2>2. CASE ~Good(p, s)
        <3>1. p \in plan[s] \cap Probed /\ ~grant[p]
            BY <2>2, <1>1, <1>4, PathsAre DEF SessionStands, Good
        <3>2. p \in owned => Good(p, s)'
            BY <1>2, <3>1, PathsAre DEF Good
        <3> QED
            BY <1>1, <3>1, <3>2
    <2> QED
        BY <2>1, <2>2
<1>7. step'[s] = "trust" => Good("git", s)
    BY <1>1, <1>4, PathsAre DEF SessionStands
<1>8. SessionStands(s)'
    BY <1>1, <1>4, <1>5, <1>6, <1>7, PathsAre DEF SessionStands
<1> QED
    BY <1>1, <1>3, <1>8, StepStands, CachesLast

\* And so does the repair of the Git metadata.
LEMMA RepairStands ==
    ASSUME NEW s \in Session, PmInv, PmTypes', RepairGit(s) PROVE PmInv'
<1>1. /\ \/ step[s] = "repair" /\ step'[s] = "judge"
         \/ step[s] = "postRepair" /\ step'[s] = "postJudge"
      /\ healthy'[s] = grant'["git"] /\ window'[s] = {}
      /\ UNCHANGED <<cache, gitCache, copy, seen, plan, warned, touched, torn>>
    BY DEF RepairGit, PmInv, PmTypes
<1>2. /\ \A p \in Path : ctime'[p] >= ctime[p]
      /\ \A p \in Path : grant[p] => grant'[p]
    BY GrantGives DEF RepairGit, PmInv
<1>3. Onward(s)
    <2>1. \A r \in Session \ {s} : step'[r] = step[r] /\ healthy'[r] = healthy[r]
                                   /\ window'[r] = window[r]
        BY DEF RepairGit, PmInv, PmTypes
    <2> QED
        BY <1>1, <1>2, <2>1 DEF Onward
<1>4. SessionStands(s)
    BY DEF PmInv
<1>5. \A p \in Path : Good(p, s) => Good(p, s)'
    BY <1>1, <1>2 DEF Good
<1>6. healthy'[s] => (Good("git", s) /\ Fresh("git", s))'
    BY <1>1 DEF Good, Fresh
<1>7. SessionStands(s)'
    BY <1>1, <1>4, <1>5, <1>6, PathsAre DEF SessionStands
<1> QED
    BY <1>1, <1>3, <1>7, StepStands, CachesLast

\* Only a healthy Git tree passes.
LEMMA JudgeStands ==
    ASSUME NEW s \in Session, PmInv, PmTypes', JudgeGit(s) PROVE PmInv'
<1>1. /\ \/ step[s] = "postJudge" /\ step'[s] = "ended"
         \/ step[s] = "judge" /\ step'[s] = "trust" /\ healthy[s]
         \/ step[s] = "judge" /\ step'[s] = "failed"
      /\ UNCHANGED <<grant, ctime, cache, copy, seen, plan, healthy, warned, touched, window>>
      /\ torn \subseteq torn'
    BY DEF JudgeGit, hostVars, PmInv, PmTypes
<1>2. Onward(s)
    <2>1. \A p \in Path : ctime'[p] >= ctime[p]
        BY <1>1 DEF PmInv, PmTypes
    <2>2. \A r \in Session \ {s} : step'[r] = step[r]
        BY DEF JudgeGit, PmInv, PmTypes
    <2> QED
        BY <1>1, <2>1, <2>2 DEF Onward
<1>3. SessionStands(s)
    BY DEF PmInv
<1>4. GitCacheTrue'
    <2>1. ctime["git"] \in Nat
        BY PathsAre DEF PmInv, PmTypes
    <2>2. healthy[s] => Fresh("git", s)
        BY <1>1, <1>3 DEF SessionStands
    <2> QED
        BY <1>1, <2>1, <2>2 DEF JudgeGit, GitCacheTrue, Fresh
<1>5. \A p \in Path : Good(p, s) => Good(p, s)'
    BY <1>1 DEF Good
<1>6. SessionStands(s)'
    BY <1>1, <1>3, <1>5, PathsAre DEF SessionStands
<1> QED
    BY <1>1, <1>2, <1>4, <1>6, StepStands, ListsLast DEF CachesTrue

\* A launch goes on from what it stands on.
LEMMA LaunchStands ==
    ASSUME NEW s \in Session, PmInv, PmTypes', Trust(s) \/ EndSession(s) PROVE PmInv'
<1>1. /\ \/ step[s] = "trust" /\ step'[s] \in {"running", "failed"}
         \/ step[s] = "running" /\ step'[s] = "postGit"
      /\ \A r \in Session \ {s} : step'[r] = step[r]
    BY DEF Trust, EndSession, Go, PmInv, PmTypes
<1>2. UNCHANGED <<grant, ctime, cache, gitCache, copy, seen, plan, healthy, warned,
                  touched, window, torn>>
    BY DEF Trust, EndSession, hostVars
<1>3. Onward(s)
    <2>1. \A p \in Path : ctime'[p] >= ctime[p]
        BY <1>2 DEF PmInv, PmTypes
    <2> QED
        BY <1>1, <1>2, <2>1 DEF Onward
<1>4. SessionStands(s)
    BY DEF PmInv
<1>5. \A p \in Path : Good(p, s) => Good(p, s)'
    BY <1>2 DEF Good
<1>6. SessionStands(s)'
    BY <1>1, <1>2, <1>4, <1>5, PathsAre DEF SessionStands
<1> QED
    BY <1>2, <1>3, <1>6, StepStands, CachesLast

\* Whoever changes a path makes every entry about it stale, and every session
\* remembers that it was not its doing.
LEMMA ChangeStands ==
    ASSUME NEW q \in Path, PmInv, PmTypes', Change(q) PROVE PmInv'
<1>1. /\ UNCHANGED <<cache, gitCache, step, copy, seen, plan, healthy, warned, torn>>
      /\ \A s \in Session : touched'[s] = touched[s] \cup {q}
      /\ \A s \in Session : window'[s] = window[s] \cup {q}
    BY DEF Change, PmInv, PmTypes
<1>2. \A p \in Path : ctime[p] \in Nat /\ ctime'[p] \in Nat
    BY DEF PmInv, PmTypes
<1>3. \A p \in Path : \/ p = q /\ ctime'[p] > ctime[p]
                      \/ p # q /\ ctime'[p] = ctime[p]
    BY <1>2 DEF Change, PmInv, PmTypes
<1>4. \A p \in Path : p # q => grant'[p] = grant[p]
    BY DEF Change, PmInv, PmTypes
<1>5. ASSUME NEW p \in Path, NEW e, EntryOK(e, p)
      PROVE  EntryOK(e, p)'
    BY <1>1, <1>3, <1>4, <1>5, EntriesLast DEF PmInv
<1>6. ListsTrue'
    <2>1. \A p \in Probed : EntryOK(cache[p], p)'
        BY <1>1, <1>5, PathsAre DEF PmInv, CachesTrue, ListsTrue, EntryOK
    <2>2. \A r \in Session, p \in Probed : EntryOK(copy[r][p], p)'
        BY <1>1, <1>5, PathsAre DEF PmInv, CachesTrue, ListsTrue, EntryOK
    <2> QED
        BY <2>1, <2>2 DEF ListsTrue, EntryOK
<1>7. GitCacheTrue'
    BY <1>1, <1>2, <1>3, <1>4, PathsAre DEF PmInv, CachesTrue, GitCacheTrue
<1>8. ASSUME NEW s \in Session PROVE SessionStands(s)'
    <2>1. SessionStands(s) /\ window[s] \subseteq touched[s]
        BY DEF PmInv, SessionStands
    <2>2. touched[s] \subseteq touched'[s] /\ window'[s] \subseteq touched'[s]
          /\ window[s] \subseteq window'[s]
        BY <1>1, <2>1
    <2>3. \A p \in Path : (grant[p] => grant'[p]) \/ p \in window'[s]
        BY <1>1, <1>4
    <2> QED
        BY <1>1, <2>1, <2>2, <2>3, OthersStand
<1> QED
    BY <1>6, <1>7, <1>8 DEF PmInv, CachesTrue

\* Every step keeps it: the paths others touch are marked, the caches expire.
LEMMA PmInvStep == PmInv /\ [Next]_permVars => PmInv'
<1> SUFFICES ASSUME PmInv, [Next]_permVars PROVE PmInv'
    OBVIOUS
<1>1. CASE UNCHANGED permVars
    <2>1. PmTypes'
        BY <1>1 DEF permVars, PmInv, PmTypes
    <2>2. CachesTrue'
        BY <1>1 DEF permVars, PmInv, CachesTrue, ListsTrue, GitCacheTrue, EntryOK
    <2>3. \A s \in Session : SessionStands(s)'
        BY <1>1 DEF permVars, PmInv, SessionStands, Good, Fresh
    <2> QED
        BY <2>1, <2>2, <2>3 DEF PmInv
<1>2. CASE Next
    <2>1. PmTypes'
        BY <1>2, PmTypesStep DEF PmInv
    <2> QED
        BY <1>2, <2>1, ProbeStands, RecordStands, CheckGitStands, NoteGitStands, PlanStands,
           ApplyStands, RepairStands, JudgeStands, LaunchStands, ChangeStands DEF Next
<1> QED
    BY <1>1, <1>2

\* It is what the launches and the caches are to be true of.
LEMMA PmInvTrue == PmInv => PermissionsTrue
<1> SUFFICES ASSUME PmInv PROVE PermissionsTrue
    OBVIOUS
<1>1. StartsRepairedOrWarned
    BY PathsAre DEF PmInv, SessionStands, StartsRepairedOrWarned, Good
<1>2. ASSUME NEW p \in Probed PROVE Hit(cache, p) /\ cache[p].has => grant[p] \/ p \in torn
    BY DEF PmInv, CachesTrue, ListsTrue, EntryOK, Hit
<1>3. gitCache = ctime["git"] => grant["git"] \/ "git" \in torn
    <2>1. ctime["git"] \in Nat
        BY PathsAre DEF PmInv, PmTypes
    <2> QED
        BY <2>1, PermsAssumption DEF PmInv, CachesTrue, GitCacheTrue
<1> QED
    BY <1>1, <1>2, <1>3 DEF PermissionsTrue, CacheHitsAreTrue

\* The permission steps of session_mutation.go and git_preflight.go, for any
\* number of sessions and of changes by others.
THEOREM PermissionsHold == Spec => []PermissionsTrue
<1>1. Spec => []PmInv
    BY PmInvInit, PmInvStep, PTL DEF Spec
<1> QED
    BY <1>1, PmInvTrue, PTL

\* What is loaded, read and judged has its type.
PmCopies ==
    /\ TypeOK /\ ctime \in [Path -> Nat]
    /\ copy \in [Session -> [Probed -> Entry \cup {NoEntry}]]
    /\ seen \in [Session -> [Probed -> BOOLEAN]] /\ healthy \in [Session -> BOOLEAN]

LEMMA PmCopiesInit == Init => PmCopies
<1> SUFFICES ASSUME Init PROVE PmCopies
    OBVIOUS
<1>1. cache \in [Probed -> Entry \cup {NoEntry}]
    <2>1. grant["project"] \in BOOLEAN /\ grant["ancestor"] \in BOOLEAN
        BY DEF Init, Path
    <2> QED
        BY <2>1 DEF Init, Entry, Probed
<1>2. gitCache \in Nat \cup {NoEntry}
    BY DEF Init
<1> QED
    BY <1>1, <1>2 DEF Init, PmCopies, TypeOK

LEMMA PmCopiesStep == PmCopies /\ [Next]_permVars => PmCopies'
<1> SUFFICES ASSUME PmCopies, [Next]_permVars
             PROVE  PmCopies'
    OBVIOUS
<1> USE DEF PmCopies, TypeOK
<1>1. ASSUME NEW s \in Session, Probe(s)
      PROVE  PmCopies'
    <2>1. \A p \in Probed : cache[p] \in Entry \cup {NoEntry}
        OBVIOUS
    <2>2. \A p \in Probed : Hit(cache, p) => cache[p].has \in BOOLEAN
        BY <2>1 DEF Hit, Entry
    <2>3. \A p \in Probed : grant[p] \in BOOLEAN
        BY DEF Path, Probed
    <2>4. [p \in Probed |-> IF Hit(cache, p) THEN cache[p] ELSE NoEntry]
             \in [Probed -> Entry \cup {NoEntry}]
        BY <2>1
    <2>5. [p \in Probed |-> IF Hit(cache, p) THEN cache[p].has ELSE grant[p]] \in [Probed -> BOOLEAN]
        BY <2>2, <2>3
    <2> QED
        BY <1>1, <2>4, <2>5 DEF Probe, Go, hostVars
<1>2. ASSUME NEW s \in Session, Record(s)
      PROVE  PmCopies'
    <2> DEFINE misses == {p \in Probed : copy[s][p] = NoEntry}
    <2>1. \A p \in Probed : /\ ctime[p] \in Nat /\ seen[s][p] \in BOOLEAN
                            /\ copy[s][p] \in Entry \cup {NoEntry}
        BY DEF Path, Probed
    <2>2. [p \in Probed |-> IF p \in misses THEN [at |-> ctime[p], has |-> seen[s][p]] ELSE copy[s][p]]
             \in [Probed -> Entry \cup {NoEntry}]
        BY <2>1 DEF Entry
    <2>3. cache' = IF misses = {} THEN cache ELSE
             [p \in Probed |-> IF p \in misses THEN [at |-> ctime[p], has |-> seen[s][p]] ELSE copy[s][p]]
        BY <1>2 DEF Record
    <2> HIDE DEF misses
    <2>4. cache' \in [Probed -> Entry \cup {NoEntry}]
        BY <2>2, <2>3
    <2> QED
        BY <1>2, <2>4 DEF Record, Go, hostVars
<1>3. ASSUME NEW s \in Session, CheckGit(s)
      PROVE  PmCopies'
    <2>1. (gitCache = ctime["git"] \/ grant["git"]) \in BOOLEAN
        OBVIOUS
    <2> QED
        BY <1>3, <2>1 DEF CheckGit, hostVars
<1>4. ASSUME NEW s \in Session, NoteGit(s) \/ JudgeGit(s)
      PROVE  PmCopies'
    <2>1. ctime["git"] \in Nat
        BY DEF Path
    <2> QED
        BY <1>4, <2>1 DEF NoteGit, JudgeGit, hostVars
<1>5. ASSUME NEW s \in Session, Plan(s)
      PROVE  PmCopies'
    BY <1>5 DEF Plan, Go, hostVars, Path, Probed
<1>6. ASSUME NEW ps, Grant(ps)
      PROVE  grant' \in [Path -> BOOLEAN] /\ ctime' \in [Path -> Nat]
    <2>1. \A p \in Path : (grant[p] \/ (p \in ps /\ p \in owned)) \in BOOLEAN
        OBVIOUS
    <2>2. \A p \in Path : ctime[p] \in Nat /\ ctime[p] + 1 \in Nat
        OBVIOUS
    <2> QED
        BY <1>6, <2>1, <2>2 DEF Grant
<1>7. ASSUME NEW s \in Session, ApplyACLs(s)
      PROVE  PmCopies'
    <2>1. grant' \in [Path -> BOOLEAN] /\ ctime' \in [Path -> Nat]
        BY <1>6, <1>7 DEF ApplyACLs
    <2> QED
        BY <1>7, <2>1 DEF ApplyACLs, Go
<1>8. ASSUME NEW s \in Session, RepairGit(s)
      PROVE  PmCopies'
    <2>1. grant' \in [Path -> BOOLEAN] /\ ctime' \in [Path -> Nat]
        BY <1>6, <1>8 DEF RepairGit
    <2>2. grant'["git"] \in BOOLEAN
        BY <2>1 DEF Path
    <2> QED
        BY <1>8, <2>1, <2>2 DEF RepairGit
<1>9. ASSUME NEW s \in Session, Trust(s)
      PROVE  PmCopies'
    BY <1>9 DEF Trust
<1>10. ASSUME NEW s \in Session, EndSession(s)
       PROVE  PmCopies'
    BY <1>10 DEF EndSession, Go, hostVars
<1>11. ASSUME NEW p \in Path, Change(p)
       PROVE  PmCopies'
    <2>1. grant' \in [Path -> BOOLEAN]
        BY <1>11 DEF Change
    <2>2. ctime' = [ctime EXCEPT ![p] = @ + 1]
        BY <1>11 DEF Change
    <2>3. ctime' \in [Path -> Nat]
        BY <2>2
    <2> QED
        BY <1>11, <2>1, <2>3 DEF Change
<1>12. CASE UNCHANGED permVars
    BY <1>12 DEF permVars
<1> QED
    BY <1>1, <1>2, <1>3, <1>4, <1>5, <1>7, <1>8, <1>9, <1>10, <1>11, <1>12 DEF Next

LEMMA PermissionTypes == Spec => []TypeOK
<1>1. PmCopies => TypeOK
    BY DEF PmCopies
<1> QED
    BY <1>1, PmCopiesInit, PmCopiesStep, PTL DEF Spec

----------------------------------------------------------------------------
(* GitSSHTransport.                                                        *)

Hosts == Seq(SSHHost)
Call == [host : SSHHost, left : Hosts]
Calls == Seq(Call)

\* A list without its last element.
LEMMA FrontIs ==
    ASSUME NEW S, NEW q \in Seq(S), q # <<>>
    PROVE  /\ Front(q) \in Seq(S) /\ Len(Front(q)) = Len(q) - 1
           /\ \A i \in 1..(Len(q) - 1) : Front(q)[i] = q[i]
           /\ Len(q) \in Nat \ {0} /\ Last(q) = q[Len(q)] /\ Last(q) \in S
<1>1. Len(q) \in Nat \ {0}
    BY EmptySeq
<1>2. \A i \in 1..Len(q) : q[i] \in S
    BY ElementOfSeq
<1>3. /\ SubSeq(q, 1, Len(q) - 1) \in Seq(S)
      /\ Len(SubSeq(q, 1, Len(q) - 1)) = Len(q) - 1
      /\ \A i \in 1..(Len(q) - 1) : SubSeq(q, 1, Len(q) - 1)[i] = q[i]
    <2> DEFINE k == Len(q) - 1
    <2>1. 1 \in Int /\ k \in Nat /\ \A i \in 1..k : q[i] \in S
        BY <1>1, <1>2
    <2> HIDE DEF k
    <2>2. /\ SubSeq(q, 1, k) \in Seq(S)
          /\ Len(SubSeq(q, 1, k)) = IF 1 <= k THEN k - 1 + 1 ELSE 0
          /\ \A i \in 1..(k - 1 + 1) : SubSeq(q, 1, k)[i] = q[1 + i - 1]
        BY <2>1, SubSeqProperties
    <2>3. (IF 1 <= k THEN k - 1 + 1 ELSE 0) = k
        BY <2>1
    <2>4. \A i \in 1..k : i \in 1..(k - 1 + 1) /\ 1 + i - 1 = i
        BY <2>1
    <2>5. \A i \in 1..k : SubSeq(q, 1, k)[i] = q[i]
        <3> TAKE i \in 1..k
        <3>1. SubSeq(q, 1, k)[i] = q[1 + i - 1]
            BY <2>2, <2>4
        <3> QED
            BY <2>4, <3>1
    <2> QED
        BY <2>2, <2>3, <2>5 DEF k
<1> QED
    BY <1>1, <1>2, <1>3 DEF Front, Last

\* A list of two.
LEMMA PairIs ==
    ASSUME NEW S, NEW x \in S, NEW y \in S
    PROVE  <<x, y>> \in Seq(S) /\ Len(<<x, y>>) = 2 /\ <<x, y>>[1] = x /\ <<x, y>>[2] = y
OBVIOUS

\* A list with two more.
LEMMA WithPairIs ==
    ASSUME NEW S, NEW q \in Seq(S), NEW x \in S, NEW y \in S
    PROVE  /\ q \o <<x, y>> \in Seq(S) /\ Len(q \o <<x, y>>) = Len(q) + 2
           /\ \A i \in 1..Len(q) : (q \o <<x, y>>)[i] = q[i]
           /\ (q \o <<x, y>>)[Len(q) + 1] = x /\ (q \o <<x, y>>)[Len(q) + 2] = y
<1> DEFINE p == <<x, y>>
<1>1. p \in Seq(S) /\ Len(p) = 2 /\ p[1] = x /\ p[2] = y
    BY PairIs
<1> HIDE DEF p
<1>2. Len(q) \in Nat
    BY LenProperties
<1>3. /\ q \o p \in Seq(S) /\ Len(q \o p) = Len(q) + Len(p)
      /\ \A i \in 1..(Len(q) + Len(p)) :
            (q \o p)[i] = IF i <= Len(q) THEN q[i] ELSE p[i - Len(q)]
    BY <1>1, ConcatProperties
<1>4. \A i \in 1..Len(q) : (q \o p)[i] = q[i]
    BY <1>1, <1>2, <1>3
<1>5. (q \o p)[Len(q) + 1] = p[1]
    BY <1>1, <1>2, <1>3
<1>6. (q \o p)[Len(q) + 2] = p[2]
    BY <1>1, <1>2, <1>3
<1> QED
    BY <1>1, <1>3, <1>4, <1>5, <1>6 DEF p

\* The last call replaced by itself and the one it makes.
LEMMA DescendMakes ==
    ASSUME NEW S, NEW q \in Seq(S), q # <<>>, NEW x \in S, NEW y \in S
    PROVE  LET g == Front(q) \o <<x, y>>
           IN  /\ g \in Seq(S) /\ Len(g) = Len(q) + 1
               /\ \A i \in 1..(Len(q) - 1) : g[i] = q[i]
               /\ g[Len(q)] = x /\ g[Len(q) + 1] = y
<1>1. /\ Front(q) \in Seq(S) /\ Len(Front(q)) = Len(q) - 1
      /\ \A i \in 1..(Len(q) - 1) : Front(q)[i] = q[i]
      /\ Len(q) \in Nat \ {0}
    BY FrontIs
<1> DEFINE g == Front(q) \o <<x, y>>
<1>2. /\ g \in Seq(S) /\ Len(g) = Len(Front(q)) + 2
      /\ \A i \in 1..Len(Front(q)) : g[i] = Front(q)[i]
      /\ g[Len(Front(q)) + 1] = x /\ g[Len(Front(q)) + 2] = y
    BY <1>1, WithPairIs
<1> HIDE DEF g
<1>3. Len(g) = Len(q) + 1 /\ g[Len(q)] = x /\ g[Len(q) + 1] = y
    BY <1>1, <1>2
<1>4. \A i \in 1..(Len(q) - 1) : g[i] = q[i]
    BY <1>1, <1>2
<1> QED
    BY <1>2, <1>3, <1>4 DEF g

----------------------------------------------------------------------------
\* Who is in a list.
In(h, q) == \E i \in 1..Len(q) : q[i] = h

\* A list's set is who is in it.
LEMMA ToSetIs == \A S : \A q \in Seq(S) : \A h : h \in ToSet(q) <=> In(h, q)
BY LenProperties DEF ToSet, In

\* A call of the walk is done with the hosts of its list, or has them left, or is
\* resolving one.
CallStands(i) ==
    \A h \in SSHHost : In(h, jumps[frames[i].host]) =>
        \/ In(h, frames[i].left) \/ In(h, jumpPath)
        \/ i < Len(frames) /\ frames[i + 1].host = h

\* A host of the route comes after all it is reached by.
HopStands(i) ==
    \A h \in SSHHost : In(h, jumps[jumpPath[i]]) => \E j \in 1..(i - 1) : jumpPath[j] = h

WalkTypes ==
    /\ jumps \in [SSHHost -> Hosts] /\ frames \in Calls /\ jumpPath \in Hosts
    /\ reqStep \in {"parse", "select", "resolve", "run", "exit", "done"}

WalkInv ==
    /\ WalkTypes
    /\ \A i, j \in 1..Len(frames) : i # j => frames[i].host # frames[j].host
    /\ reqStep # "resolve" => frames = <<>>
    /\ reqStep \in {"parse", "select"} => jumpPath = <<>>
    /\ reqStep = "resolve" => /\ \A i \in 1..Len(frames) : CallStands(i)
                              /\ \A i \in 1..Len(jumpPath) : HopStands(i)

\* The ProxyJump lists are lists of hosts.
LEMMA JumpListsAre == JumpLists \subseteq Hosts
<1>1. \A h \in SSHHost : <<h>> \in Hosts
    BY DEF Hosts
<1>2. \A g, h \in SSHHost : <<g, h>> \in Hosts
    BY DEF Hosts
<1>3. <<>> \in Hosts
    BY DEF Hosts
<1> QED
    BY <1>1, <1>2, <1>3 DEF JumpLists

\* And so are none.
LEMMA NoJumpsAre == NoJumps \in [SSHHost -> Hosts]
BY DEF NoJumps, Hosts

\* There is no walk before the request has been parsed.
LEMMA WalkInvInit == SSHInit => WalkInv
<1> SUFFICES ASSUME SSHInit PROVE WalkInv
    OBVIOUS
<1>1. WalkTypes
    BY JumpListsAre DEF SSHInit, WalkTypes, Calls, Hosts
<1> QED
    BY <1>1 DEF SSHInit, WalkInv

\* A refusal forgets the walk.
LEMMA RefuseWalks == WalkInv /\ RefuseGit => WalkInv'
<1> SUFFICES ASSUME WalkInv, RefuseGit PROVE WalkInv'
    OBVIOUS
<1>1. WalkTypes'
    BY NoJumpsAre DEF RefuseGit, WalkTypes, Calls, Hosts
<1> QED
    BY <1>1 DEF RefuseGit, WalkInv

\* The walk starts with the host of the request.
LEMMA SelectWalks == WalkInv /\ Select => WalkInv'
<1> SUFFICES ASSUME WalkInv, Select PROVE WalkInv'
    OBVIOUS
<1> DEFINE c == [host |-> Origin, left |-> jumps[Origin]]
<1>1. c \in Call
    BY SSHAssumption DEF WalkInv, WalkTypes, Call
<1>2. /\ frames' = <<c>> /\ jumps' = jumps /\ jumpPath' = <<>> /\ reqStep' = "resolve"
    BY DEF Select, WalkInv
<1>3. c.host = Origin /\ c.left = jumps[Origin]
    OBVIOUS
<1> HIDE DEF c
<1>4. <<c>> \in Calls /\ Len(<<c>>) = 1 /\ <<c>>[1] = c
    BY <1>1 DEF Calls
<1>5. WalkTypes'
    BY <1>2, <1>4 DEF WalkInv, WalkTypes, Hosts
<1>6. frames'[1] = c /\ Len(frames') = 1 /\ Len(jumpPath') = 0
    BY <1>2, <1>4
<1>7. \A i, j \in 1..Len(frames') : i = j
    BY <1>6
<1>8. \A i \in 1..Len(frames') : CallStands(i)'
    BY <1>2, <1>3, <1>6 DEF CallStands
<1>9. \A i \in 1..Len(jumpPath') : HopStands(i)'
    BY <1>6
<1> QED
    BY <1>2, <1>5, <1>7, <1>8, <1>9 DEF WalkInv

\* A host is entered that is not being resolved: its caller waits for it.
LEMMA DescendWalks == WalkInv /\ Descend => WalkInv'
<1> SUFFICES ASSUME WalkInv, Descend PROVE WalkInv'
    OBVIOUS
<1> DEFINE n == Len(frames)
           f == Last(frames)
           h == Head(f.left)
           rest == [f EXCEPT !.left = Tail(@)]
           new == [host |-> h, left |-> jumps[h]]
<1>1. CASE RefuseGit
    BY <1>1, RefuseWalks
<1>2. CASE ~RefuseGit
    <2>1. /\ reqStep = "resolve" /\ frames # <<>> /\ f.left # <<>> /\ h \notin Seen
          /\ frames' = Front(frames) \o <<rest, new>>
          /\ UNCHANGED <<jumps, reqStep, jumpPath>>
        BY <1>2 DEF Descend
    <2>2. frames \in Seq(Call) /\ n \in Nat \ {0} /\ f = frames[n] /\ f \in Call
        BY <2>1, FrontIs DEF WalkInv, WalkTypes, Calls
    <2>3. /\ h \in SSHHost /\ Tail(f.left) \in Hosts /\ Len(Tail(f.left)) = Len(f.left) - 1
          /\ \A i \in 1..Len(Tail(f.left)) : Tail(f.left)[i] = f.left[i + 1]
          /\ Len(f.left) \in Nat \ {0} /\ h = f.left[1]
        <3>1. f.left \in Seq(SSHHost)
            BY <2>2 DEF Call, Hosts
        <3>2. Len(f.left) \in Nat \ {0} /\ h = f.left[1]
            BY <2>1, <3>1, EmptySeq
        <3> QED
            BY <2>1, <3>1, <3>2, HeadTailProperties DEF Hosts
    <2>4. /\ rest \in Call /\ rest.host = f.host /\ rest.left = Tail(f.left)
          /\ new \in Call /\ new.host = h /\ new.left = jumps[h]
        BY <2>2, <2>3 DEF Call, WalkInv, WalkTypes
    <2> HIDE DEF f, h, rest, new
    <2>5. /\ frames' \in Calls /\ Len(frames') = n + 1
          /\ \A i \in 1..(n - 1) : frames'[i] = frames[i]
          /\ frames'[n] = rest /\ frames'[n + 1] = new
        BY <2>1, <2>2, <2>4, DescendMakes DEF Calls
    <2>6. WalkTypes'
        BY <2>1, <2>5 DEF WalkInv, WalkTypes
    <2>7. \A i \in 1..n : frames[i].host # h
        BY <2>1 DEF Seen
    <2>8. \A i \in 1..n : frames'[i].host = frames[i].host
        BY <2>2, <2>4, <2>5
    <2>9. \A i, j \in 1..Len(frames') : i # j => frames'[i].host # frames'[j].host
        BY <2>2, <2>4, <2>5, <2>7, <2>8 DEF WalkInv
    <2>10. \A g \in SSHHost : In(g, f.left) => g = h \/ In(g, rest.left)
        <3> TAKE g \in SSHHost
        <3> HAVE In(g, f.left)
        <3>1. PICK i \in 1..Len(f.left) : f.left[i] = g
            BY DEF In
        <3>2. CASE i = 1
            BY <2>3, <3>1, <3>2
        <3>3. CASE i # 1
            <4>1. i - 1 \in 1..Len(Tail(f.left)) /\ Tail(f.left)[i - 1] = g
                BY <2>3, <3>1, <3>3
            <4> QED
                BY <2>4, <4>1 DEF In
        <3> QED
            BY <3>2, <3>3
    <2>11. \A i \in 1..Len(frames') : CallStands(i)'
        <3> TAKE i \in 1..Len(frames')
        <3>1. CASE i = n + 1
            BY <2>1, <2>4, <2>5, <3>1 DEF CallStands
        <3>2. CASE i = n
            <4>1. CallStands(n)
                BY <2>1, <2>2 DEF WalkInv
            <4>2. \A g \in SSHHost : In(g, jumps[f.host]) => In(g, f.left) \/ In(g, jumpPath)
                BY <2>2, <4>1 DEF CallStands
            <4>3. i < Len(frames') /\ frames'[i + 1].host = h /\ frames'[i] = rest
                BY <2>2, <2>4, <2>5, <3>2
            <4> QED
                BY <2>1, <2>4, <2>10, <4>2, <4>3 DEF CallStands
        <3>3. CASE i \in 1..(n - 1)
            <4>1. /\ frames'[i] = frames[i] /\ frames'[i + 1].host = frames[i + 1].host
                  /\ i < n /\ i \in 1..n
                BY <2>2, <2>5, <2>8, <3>3
            <4>2. CallStands(i)
                BY <2>1, <4>1 DEF WalkInv
            <4>3. i < Len(frames')
                BY <2>2, <2>5, <4>1
            <4> QED
                BY <2>1, <4>1, <4>2, <4>3 DEF CallStands
        <3> QED
            BY <2>2, <2>5, <3>1, <3>2, <3>3
    <2>12. \A i \in 1..Len(jumpPath') : HopStands(i)'
        BY <2>1 DEF HopStands, WalkInv
    <2> QED
        BY <2>1, <2>6, <2>9, <2>11, <2>12 DEF WalkInv
<1> QED
    BY <1>1, <1>2

\* A host is left when all of its list is in the route, and follows it there.
LEMMA AscendWalks == WalkInv /\ Ascend => WalkInv'
<1> SUFFICES ASSUME WalkInv, Ascend PROVE WalkInv'
    OBVIOUS
<1> DEFINE n == Len(frames)
           f == Last(frames)
           m == Len(jumpPath)
<1>1. /\ reqStep = "resolve" /\ frames # <<>> /\ f.left = <<>>
      /\ frames' = Front(frames) /\ UNCHANGED <<jumps, reqStep>>
      /\ jumpPath' = IF n > 1 THEN Append(jumpPath, f.host) ELSE jumpPath
    BY DEF Ascend
<1>2. /\ frames' \in Seq(Call) /\ Len(frames') = n - 1
      /\ \A i \in 1..(n - 1) : frames'[i] = frames[i]
      /\ n \in Nat \ {0} /\ f = frames[n] /\ f \in Call
    BY <1>1, FrontIs DEF WalkInv, WalkTypes, Calls
<1>3. f.host \in SSHHost
    BY <1>2 DEF Call
<1> HIDE DEF f
<1>4. jumpPath \in Seq(SSHHost) /\ m \in Nat
    BY LenProperties DEF WalkInv, WalkTypes, Hosts
<1>5. \A i, j \in 1..Len(frames') : i # j => frames'[i].host # frames'[j].host
    BY <1>2 DEF WalkInv
<1>6. \A i \in 1..n : CallStands(i)
    BY <1>1 DEF WalkInv
<1>7. \A i \in 1..m : HopStands(i)
    BY <1>1 DEF WalkInv
<1>8. CASE n = 1
    <2>1. jumpPath' = jumpPath /\ Len(frames') = 0
        BY <1>1, <1>2, <1>8
    <2>2. WalkTypes'
        BY <1>1, <1>2, <2>1 DEF WalkInv, WalkTypes, Calls
    <2>3. \A i \in 1..Len(frames') : CallStands(i)'
        BY <2>1
    <2>4. \A i \in 1..Len(jumpPath') : HopStands(i)'
        BY <1>1, <1>7, <2>1 DEF HopStands
    <2> QED
        BY <1>1, <1>5, <2>2, <2>3, <2>4 DEF WalkInv
<1>9. CASE n # 1
    <2>1. jumpPath' = Append(jumpPath, f.host)
        BY <1>1, <1>2, <1>9
    <2>2. /\ jumpPath' \in Seq(SSHHost) /\ Len(jumpPath') = m + 1
          /\ \A i \in 1..m : jumpPath'[i] = jumpPath[i]
          /\ jumpPath'[m + 1] = f.host
        BY <1>3, <1>4, <2>1, AppendProperties
    <2>3. WalkTypes'
        BY <1>1, <1>2, <2>2 DEF WalkInv, WalkTypes, Calls, Hosts
    <2>4. \A h : In(h, jumpPath) => In(h, jumpPath')
        BY <1>4, <2>2 DEF In
    <2>5. In(f.host, jumpPath')
        BY <1>4, <2>2 DEF In
    <2>6. \A h \in SSHHost : In(h, jumps[f.host]) => In(h, jumpPath)
        <3>1. CallStands(n)
            BY <1>2, <1>6
        <3>2. \A h : ~In(h, f.left)
            BY <1>1 DEF In
        <3> QED
            BY <1>2, <3>1, <3>2 DEF CallStands
    <2>7. \A i \in 1..Len(frames') : CallStands(i)'
        <3> TAKE i \in 1..Len(frames')
        <3>1. i \in 1..n /\ i \in 1..(n - 1) /\ i < n /\ frames'[i] = frames[i]
            BY <1>2
        <3>2. CallStands(i)
            BY <1>6, <3>1
        <3>3. CASE i < n - 1
            <4>1. frames'[i + 1] = frames[i + 1] /\ i < Len(frames')
                BY <1>2, <3>1, <3>3
            <4> QED
                BY <1>1, <2>4, <3>1, <3>2, <4>1 DEF CallStands
        <3>4. CASE ~(i < n - 1)
            <4>1. i + 1 = n
                BY <1>2, <3>1, <3>4
            <4>2. frames[i + 1].host = f.host
                BY <1>2, <4>1
            <4> QED
                BY <1>1, <2>4, <2>5, <3>1, <3>2, <4>2 DEF CallStands
        <3> QED
            BY <3>3, <3>4
    <2>8. \A i \in 1..Len(jumpPath') : HopStands(i)'
        <3> TAKE i \in 1..Len(jumpPath')
        <3>1. CASE i = m + 1
            <4> SUFFICES ASSUME NEW h \in SSHHost, In(h, jumps[f.host])
                         PROVE  \E j \in 1..(i - 1) : jumpPath'[j] = h
                BY <1>1, <2>2, <3>1 DEF HopStands
            <4>1. PICK j \in 1..m : jumpPath[j] = h
                BY <2>6 DEF In
            <4> QED
                BY <1>4, <2>2, <3>1, <4>1
        <3>2. CASE i # m + 1
            <4>1. i \in 1..m /\ HopStands(i) /\ jumpPath'[i] = jumpPath[i]
                BY <1>4, <1>7, <2>2, <3>2
            <4>2. \A j \in 1..(i - 1) : jumpPath'[j] = jumpPath[j]
                BY <1>4, <2>2, <4>1
            <4> QED
                BY <1>1, <4>1, <4>2 DEF HopStands
        <3> QED
            BY <3>1, <3>2
    <2> QED
        BY <1>1, <1>5, <2>3, <2>7, <2>8 DEF WalkInv
<1> QED
    BY <1>8, <1>9

\* What leaves the walk alone.
LEMMA WalkStays ==
    WalkInv /\ UNCHANGED <<jumps, reqStep, frames, jumpPath>> => WalkInv'
BY DEF WalkInv, WalkTypes, CallStands, HopStands

\* The walk over, its route is forgotten or no longer looked at.
LEMMA WalkOver ==
    ASSUME WalkInv, reqStep' \in {"run", "exit", "done"}, frames' = <<>>,
           jumps' = jumps \/ jumps' = NoJumps, jumpPath' = jumpPath \/ jumpPath' = <<>>
    PROVE  WalkInv'
<1>1. jumps' \in [SSHHost -> Hosts]
    BY NoJumpsAre DEF WalkInv, WalkTypes
<1>2. jumpPath' \in Hosts
    <2>1. jumpPath \in Hosts /\ <<>> \in Hosts
        BY DEF WalkInv, WalkTypes, Hosts
    <2> QED
        BY <2>1
<1>4. frames' \in Calls
    BY DEF Calls
<1>3. Len(frames') = 0
    OBVIOUS
<1> QED
    BY <1>1, <1>2, <1>3, <1>4 DEF WalkInv, WalkTypes

\* Every step keeps it.
LEMMA WalkInvStep == WalkInv /\ [SSHNext]_sshVars => WalkInv'
<1> SUFFICES ASSUME WalkInv, [SSHNext]_sshVars PROVE WalkInv'
    OBVIOUS
<1> HIDE DEF WalkInv
<1>1. CASE Parse
    <2>1. CASE RefuseGit
        BY <2>1, RefuseWalks
    <2>2. CASE ~RefuseGit
        <3>1. reqStep = "parse" /\ reqStep' = "select" /\ UNCHANGED <<jumps, frames, jumpPath>>
            BY <1>1, <2>2 DEF Parse
        <3> QED
            BY <3>1 DEF WalkInv, WalkTypes
    <2> QED
        BY <2>1, <2>2
<1>2. CASE NoKeyForHost \/ StartFails
    BY <1>2, RefuseWalks DEF NoKeyForHost, StartFails
<1>3. CASE StartSSH
    BY <1>3, WalkOver DEF StartSSH
<1>4. CASE CopiesDone \/ WriteExit
    <2>1. frames = <<>>
        BY <1>4 DEF CopiesDone, WriteExit, WalkInv
    <2> QED
        BY <1>4, <2>1, WalkOver DEF CopiesDone, WriteExit
<1>5. CASE SSHExits \/ WaitReturns \/ HelperHangsUp
    BY <1>5, WalkStays DEF SSHExits, WaitReturns, HelperHangsUp
<1>6. ASSUME NEW s \in SSHStream,
             \/ SSHWrites(s) \/ ReadChunk(s) \/ WriteHeader(s)
             \/ WritePayload(s) \/ WriteFails(s)
      PROVE  WalkInv'
    BY <1>6, WalkStays DEF SSHWrites, ReadChunk, WriteHeader, WritePayload, WriteFails
<1>7. CASE UNCHANGED sshVars
    BY <1>7, WalkStays DEF sshVars
<1> QED
    BY <1>1, <1>2, <1>3, <1>4, <1>5, <1>6, <1>7, SelectWalks, DescendWalks, AscendWalks
    DEF SSHNext

\* The calls of the walk are of different hosts: there are no more than hosts.
LEMMA WalkIsShort == WalkInv => Len(frames) <= Cardinality(SSHHost)
<1> SUFFICES ASSUME WalkInv PROVE Len(frames) <= Cardinality(SSHHost)
    OBVIOUS
<1> DEFINE n == Len(frames)
           host == [i \in 1..n |-> frames[i].host]
<1>1. frames \in Seq(Call) /\ n \in Nat
    BY LenProperties DEF WalkInv, WalkTypes, Calls
<1>2. \A i \in 1..n : frames[i].host \in SSHHost
    <2>1. \A i \in 1..n : frames[i] \in Call
        BY <1>1, ElementOfSeq
    <2> QED
        BY <2>1 DEF Call
<1>3. host \in Injection(1..n, SSHHost)
    <2>1. host \in [1..n -> SSHHost] /\ DOMAIN host = 1..n
        BY <1>2
    <2>2. \A i, j \in 1..n : host[i] = host[j] => i = j
        BY DEF WalkInv
    <2> HIDE DEF host
    <2> QED
        BY <2>1, <2>2 DEF Injection, IsInjective
<1>4. IsFiniteSet(1..n) /\ Cardinality(1..n) = n
    <2>1. 1 \in Int /\ n \in Int
        BY <1>1
    <2> QED
        BY <1>1, <2>1, FS_Interval
<1>6. Cardinality(1..n) <= Cardinality(SSHHost)
    <2> HIDE DEF host
    <2> QED
        BY <1>3, SSHAssumption, FS_Injection
<1> QED
    BY <1>4, <1>6

\* So the route is in order.
LEMMA WalkOrdered == WalkInv => JumpRouteOrdered
<1> SUFFICES ASSUME WalkInv PROVE JumpRouteOrdered
    OBVIOUS
<1>1. SUFFICES ASSUME reqStep = "resolve", NEW i \in 1..Len(jumpPath),
                      NEW h \in ToSet(jumps[jumpPath[i]])
               PROVE  \E j \in 1..(i - 1) : jumpPath[j] = h
    BY WalkIsShort DEF JumpRouteOrdered
<1>2. jumps[jumpPath[i]] \in Seq(SSHHost)
    <2>1. jumpPath[i] \in SSHHost
        BY ElementOfSeq DEF WalkInv, WalkTypes, Hosts
    <2> QED
        BY <2>1 DEF WalkInv, WalkTypes, Hosts
<1>3. In(h, jumps[jumpPath[i]])
    BY <1>2, ToSetIs
<1>4. h \in SSHHost
    BY <1>2, <1>3, ElementOfSeq DEF In
<1> QED
    BY <1>1, <1>3, <1>4 DEF WalkInv, HopStands

----------------------------------------------------------------------------
Frame == [part : {"header", "payload"}, of : SSHStream \cup {"exit"}]

Whole(c) ==
    \A i \in 1..Len(c) :
        IF c[i].part = "header"
        THEN /\ i < Len(c) => c[i + 1] = Payload(c[i].of)
             /\ c[i].of = "exit" => i >= Len(c) - 1
        ELSE i > 1 /\ c[i - 1] = Header(c[i].of)

\* Nothing told the end of the request, or nothing did before the last frame.
NoExit(c) == \A i \in 1..Len(c) : c[i].of # "exit"

NoExitBefore(c) == \A i \in 1..Len(c) : c[i].of = "exit" => i = Len(c)

\* The last frame is all there.
AtRest(c) == c = <<>> \/ c[Len(c)].part = "payload"

Pending(c, s) == c # <<>> /\ c[Len(c)] = Header(s)

\* The two parts of a frame.
LEMMA FrameIs ==
    \A s \in SSHStream \cup {"exit"} :
        /\ Header(s) \in Frame /\ Header(s).part = "header" /\ Header(s).of = s
        /\ Payload(s) \in Frame /\ Payload(s).part = "payload" /\ Payload(s).of = s
BY DEF Frame, Header, Payload

\* A header is written where the frames before it are all there.
LEMMA HeaderGoesOn ==
    ASSUME NEW c \in Seq(Frame), Whole(c), AtRest(c), NoExit(c),
           NEW s \in SSHStream \cup {"exit"}
    PROVE  LET d == Append(c, Header(s))
           IN  /\ d \in Seq(Frame) /\ Whole(d) /\ Pending(d, s) /\ NoExitBefore(d)
               /\ s # "exit" => NoExit(d)
<1> DEFINE d == Append(c, Header(s))
           h == Header(s)
           n == Len(c)
<1>1. h \in Frame /\ h.part = "header" /\ h.of = s
    BY FrameIs
<1>2. /\ d \in Seq(Frame) /\ Len(d) = n + 1 /\ n \in Nat
      /\ \A i \in 1..n : d[i] = c[i]
      /\ d[n + 1] = h
    BY <1>1, LenProperties, AppendProperties
<1> HIDE DEF d
<1>3. Pending(d, s)
    BY <1>2 DEF Pending
<1>4. ASSUME NEW i \in 1..Len(d)
      PROVE  IF d[i].part = "header"
             THEN /\ i < Len(d) => d[i + 1] = Payload(d[i].of)
                  /\ d[i].of = "exit" => i >= Len(d) - 1
             ELSE i > 1 /\ d[i - 1] = Header(d[i].of)
    <2>1. CASE i = n + 1
        BY <1>1, <1>2, <2>1
    <2>2. CASE i # n + 1
        <3>1. i \in 1..n /\ d[i] = c[i]
            BY <1>2, <2>2
        <3>2. IF c[i].part = "header"
              THEN i < n => c[i + 1] = Payload(c[i].of)
              ELSE i > 1 /\ c[i - 1] = Header(c[i].of)
            BY <3>1 DEF Whole
        <3>3. c[i].of # "exit"
            BY <3>1 DEF NoExit
        <3>4. CASE i = n
            <4>1. c # <<>>
                BY <3>1
            <4>2. c[i].part = "payload"
                BY <3>4, <4>1 DEF AtRest
            <4>3. i > 1 /\ c[i - 1] = Header(c[i].of)
                BY <3>2, <4>2
            <4>4. d[i - 1] = c[i - 1]
                BY <1>2, <3>1, <4>3
            <4> QED
                BY <3>1, <4>2, <4>3, <4>4
        <3>5. CASE i # n
            <4>1. i < n /\ d[i + 1] = c[i + 1]
                BY <1>2, <3>1, <3>5
            <4>2. i > 1 => d[i - 1] = c[i - 1]
                BY <1>2, <3>1
            <4> QED
                BY <3>1, <3>2, <3>3, <4>1, <4>2
        <3> QED
            BY <3>4, <3>5
    <2> QED
        BY <2>1, <2>2
<1>5. Whole(d)
    BY <1>4 DEF Whole
<1>6. NoExitBefore(d)
    BY <1>2 DEF NoExit, NoExitBefore
<1>7. s # "exit" => NoExit(d)
    BY <1>1, <1>2 DEF NoExit
<1> QED
    BY <1>2, <1>3, <1>5, <1>6, <1>7 DEF d

\* And its payload right after it.
LEMMA PayloadGoesOn ==
    ASSUME NEW c \in Seq(Frame), Whole(c), NEW s \in SSHStream \cup {"exit"},
           Pending(c, s), NoExitBefore(c)
    PROVE  LET d == Append(c, Payload(s))
           IN  /\ d \in Seq(Frame) /\ Whole(d) /\ AtRest(d)
               /\ NoExit(c) => NoExit(d)
<1> DEFINE d == Append(c, Payload(s))
           p == Payload(s)
           n == Len(c)
<1>1. p \in Frame /\ p.part = "payload" /\ p.of = s
    BY FrameIs
<1>2. /\ d \in Seq(Frame) /\ Len(d) = n + 1 /\ n \in Nat
      /\ \A i \in 1..n : d[i] = c[i]
      /\ d[n + 1] = p
    BY <1>1, LenProperties, AppendProperties
<1>0. n \in Nat \ {0} /\ c[n] = Header(s) /\ c[n].part = "header" /\ c[n].of = s
    BY EmptySeq, LenProperties, FrameIs DEF Pending
<1>3. p = Payload(s)
    OBVIOUS
<1> HIDE DEF d, p, n
<1>4. ASSUME NEW i \in 1..Len(d)
      PROVE  IF d[i].part = "header"
             THEN /\ i < Len(d) => d[i + 1] = Payload(d[i].of)
                  /\ d[i].of = "exit" => i >= Len(d) - 1
             ELSE i > 1 /\ d[i - 1] = Header(d[i].of)
    <2>1. CASE i = n + 1
        <3>1. i > 1 /\ i - 1 = n /\ d[n] = c[n]
            BY <1>0, <1>2, <2>1
        <3>2. d[i].part = "payload" /\ d[i].of = s /\ d[i - 1] = Header(s)
            BY <1>0, <1>1, <1>2, <2>1, <3>1
        <3> QED
            BY <3>1, <3>2
    <2>2. CASE i = n
        <3>1. d[i] = c[n] /\ i + 1 = n + 1 /\ i >= Len(d) - 1
            BY <1>0, <1>2, <2>2
        <3> QED
            BY <1>0, <1>2, <1>3, <3>1
    <2>3. CASE i # n + 1 /\ i # n
        <3>1. i \in 1..n /\ d[i] = c[i] /\ i < n /\ d[i + 1] = c[i + 1]
            BY <1>0, <1>2, <2>3
        <3>2. i > 1 => d[i - 1] = c[i - 1]
            BY <1>2, <3>1
        <3>3. IF c[i].part = "header"
              THEN i < n => c[i + 1] = Payload(c[i].of)
              ELSE i > 1 /\ c[i - 1] = Header(c[i].of)
            BY <3>1 DEF Whole, n
        <3>4. c[i].of # "exit"
            BY <3>1 DEF NoExitBefore, n
        <3> QED
            BY <3>1, <3>2, <3>3, <3>4
    <2> QED
        BY <2>1, <2>2, <2>3
<1>5. Whole(d)
    BY <1>4 DEF Whole
<1>6. AtRest(d)
    BY <1>1, <1>2 DEF AtRest
<1>7. NoExit(c) => NoExit(d)
    <2>1. SUFFICES ASSUME NoExit(c) PROVE NoExit(d)
        OBVIOUS
    <2>2. s # "exit"
        BY <1>0, <2>1 DEF NoExit, n
    <2> QED
        BY <1>1, <1>2, <2>1, <2>2 DEF NoExit, n
<1> QED
    BY <1>2, <1>5, <1>6, <1>7 DEF d

\* Two writes are one after the other.
LEMMA PairIsTwo ==
    ASSUME NEW c \in Seq(Frame), NEW x \in Frame, NEW y \in Frame
    PROVE  c \o <<x, y>> = Append(Append(c, x), y)
<1> DEFINE n == Len(c)
           a == c \o <<x, y>>
           u == Append(c, x)
           b == Append(u, y)
<1>1. n \in Nat
    BY LenProperties
<1>2. /\ a \in Seq(Frame) /\ Len(a) = n + 2 /\ \A i \in 1..n : a[i] = c[i]
      /\ a[n + 1] = x /\ a[n + 2] = y
    BY WithPairIs
<1>3. u \in Seq(Frame) /\ Len(u) = n + 1 /\ u[n + 1] = x /\ \A i \in 1..n : u[i] = c[i]
    BY AppendProperties
<1> HIDE DEF u
<1>4. b \in Seq(Frame) /\ Len(b) = Len(u) + 1 /\ b[Len(u) + 1] = y
      /\ \A i \in 1..Len(u) : b[i] = u[i]
    BY <1>3, AppendProperties
<1> HIDE DEF a, b, n
<1>5. Len(a) = Len(b)
    BY <1>1, <1>2, <1>3, <1>4
<1>6. \A i \in 1..Len(a) : a[i] = b[i]
    <2> TAKE i \in 1..Len(a)
    <2>1. CASE i \in 1..n
        BY <1>1, <1>2, <1>3, <1>4, <2>1
    <2>2. CASE i = n + 1
        BY <1>1, <1>2, <1>3, <1>4, <2>2
    <2>3. CASE i = n + 2
        <3>1. b[n + 2] = y
            BY <1>1, <1>3, <1>4
        <3> QED
            BY <1>2, <2>3, <3>1
    <2> QED
        BY <1>1, <1>2, <2>1, <2>2, <2>3
<1> QED
    BY <1>2, <1>4, <1>5, <1>6, SeqEqual DEF a, b, u

\* A frame written in one go.
LEMMA PairGoesOn ==
    ASSUME NEW c \in Seq(Frame), Whole(c), AtRest(c), NoExit(c),
           NEW s \in SSHStream \cup {"exit"}
    PROVE  LET d == c \o <<Header(s), Payload(s)>>
           IN  /\ d \in Seq(Frame) /\ Whole(d) /\ AtRest(d)
               /\ s # "exit" => NoExit(d)
<1> DEFINE u == Append(c, Header(s))
<1>1. u \in Seq(Frame) /\ Whole(u) /\ Pending(u, s) /\ NoExitBefore(u) /\ (s # "exit" => NoExit(u))
    BY HeaderGoesOn
<1>2. c \o <<Header(s), Payload(s)>> = Append(u, Payload(s))
    BY FrameIs, PairIsTwo
<1> HIDE DEF u
<1>3. LET d == Append(u, Payload(s))
      IN  d \in Seq(Frame) /\ Whole(d) /\ AtRest(d) /\ (NoExit(u) => NoExit(d))
    BY <1>1, PayloadGoesOn
<1> QED
    BY <1>1, <1>2, <1>3

\* The lock and the connection: the holder of writeMu is between the two writes
\* of its frame, which is the last of the connection unless the helper is gone.
FramesInv ==
    /\ conn \in Seq(Frame) /\ Whole(conn)
    /\ copier \in [SSHStream -> {"off", "read", "lock", "payload", "done"}]
    /\ mu \in SSHStream \cup {"free"}
    /\ \A s \in SSHStream : copier[s] = "payload" <=> mu = s
    /\ ~helperGone /\ mu # "free" => Pending(conn, mu)
    /\ ~helperGone /\ mu = "free" => AtRest(conn)
    /\ reqStep \in {"parse", "select", "resolve"} =>
         conn = <<>> /\ \A s \in SSHStream : copier[s] = "off"
    /\ reqStep \in {"exit", "done"} =>
         \A s \in SSHStream : copier[s] \in {"off", "done"}
    /\ reqStep # "done" => NoExit(conn)

\* An empty connection is whole.
LEMMA NothingSent == <<>> \in Seq(Frame) /\ Whole(<<>>) /\ AtRest(<<>>) /\ NoExit(<<>>)
BY DEF Whole, AtRest, NoExit

\* Nothing is sent before the request has been parsed.
LEMMA FramesInvInit == SSHInit => FramesInv
BY NothingSent DEF SSHInit, FramesInv, SSHStream

\* A refusal is the first frame of the connection.
LEMMA RefuseKeepsFrames ==
    FramesInv /\ RefuseGit /\ reqStep \in {"parse", "select", "resolve"} => FramesInv'
<1> SUFFICES ASSUME FramesInv, RefuseGit, reqStep \in {"parse", "select", "resolve"}
             PROVE  FramesInv'
    OBVIOUS
<1>1. conn' = conn \o <<Header("stderr"), Payload("stderr")>> /\ reqStep' = "exit"
      /\ UNCHANGED <<copier, mu, helperGone>>
    BY DEF RefuseGit
<1>2. conn = <<>> /\ \A s \in SSHStream : copier[s] = "off"
    BY DEF FramesInv
<1>3. mu = "free"
    BY <1>2 DEF FramesInv
<1>4. conn' \in Seq(Frame) /\ Whole(conn') /\ AtRest(conn') /\ NoExit(conn')
    BY <1>1, <1>2, NothingSent, PairGoesOn DEF SSHStream
<1> QED
    BY <1>1, <1>2, <1>3, <1>4 DEF FramesInv

\* What leaves the lock and the connection alone.
LEMMA FramesStay ==
    ASSUME FramesInv, UNCHANGED <<conn, copier, mu, helperGone>>,
           \/ reqStep' = reqStep
           \/ reqStep' \in {"parse", "select", "resolve", "run"} /\ reqStep \in {"parse", "select"}
           \/ /\ reqStep = "run" /\ reqStep' = "exit"
              /\ \A s \in SSHStream : copier[s] \in {"off", "done"}
    PROVE  FramesInv'
<1>1. CASE reqStep' = reqStep
    BY <1>1 DEF FramesInv
<1>2. CASE reqStep' # reqStep
    <2>1. reqStep # "done"
        BY <1>2
    <2>2. NoExit(conn')
        BY <2>1 DEF FramesInv
    <2>3. reqStep' \in {"parse", "select", "resolve"} =>
             conn' = <<>> /\ \A s \in SSHStream : copier'[s] = "off"
        BY <1>2 DEF FramesInv
    <2>4. reqStep' \in {"exit", "done"} =>
             \A s \in SSHStream : copier'[s] \in {"off", "done"}
        BY <1>2
    <2>5. /\ conn' \in Seq(Frame) /\ Whole(conn')
          /\ copier' \in [SSHStream -> {"off", "read", "lock", "payload", "done"}]
          /\ mu' \in SSHStream \cup {"free"}
          /\ \A s \in SSHStream : copier'[s] = "payload" <=> mu' = s
          /\ ~helperGone' /\ mu' # "free" => Pending(conn', mu')
          /\ ~helperGone' /\ mu' = "free" => AtRest(conn')
        BY DEF FramesInv
    <2> QED
        BY <2>2, <2>3, <2>4, <2>5 DEF FramesInv
<1> QED
    BY <1>1, <1>2

\* A copier reads a chunk or is done.
LEMMA CopierMoves ==
    ASSUME FramesInv, NEW s \in SSHStream, NEW to \in {"lock", "done"},
           copier[s] = "read", copier' = [copier EXCEPT ![s] = to],
           UNCHANGED <<conn, mu, helperGone, reqStep>>
    PROVE  FramesInv'
<1>1. /\ copier' \in [SSHStream -> {"off", "read", "lock", "payload", "done"}]
      /\ copier'[s] = to /\ \A r \in SSHStream \ {s} : copier'[r] = copier[r]
    BY DEF FramesInv
<1>2. reqStep \notin {"parse", "select", "resolve", "exit", "done"}
    BY DEF FramesInv
<1> QED
    BY <1>1, <1>2 DEF FramesInv

\* The header is written by the one who takes the lock.
LEMMA HeaderKeepsFrames ==
    ASSUME FramesInv, NEW s \in SSHStream, WriteHeader(s) PROVE FramesInv'
<1>1. /\ copier[s] = "lock" /\ mu = "free" /\ ~helperGone
      /\ copier' = [copier EXCEPT ![s] = "payload"] /\ mu' = s
      /\ conn' = Append(conn, Header(s)) /\ UNCHANGED <<reqStep, helperGone>>
    BY DEF WriteHeader
<1>2. /\ copier' \in [SSHStream -> {"off", "read", "lock", "payload", "done"}]
      /\ copier'[s] = "payload" /\ \A r \in SSHStream \ {s} : copier'[r] = copier[r]
    BY <1>1 DEF FramesInv
<1>3. reqStep \notin {"parse", "select", "resolve", "exit", "done"}
    BY <1>1 DEF FramesInv
<1>6. AtRest(conn) /\ NoExit(conn)
    BY <1>1, <1>3 DEF FramesInv
<1>4. s # "exit" /\ \A r \in SSHStream : r # "free"
    BY DEF SSHStream
<1>7. \A r \in SSHStream : copier'[r] = "payload" <=> mu' = r
    BY <1>1, <1>2, <1>4 DEF FramesInv
<1>5. conn' \in Seq(Frame) /\ Whole(conn') /\ Pending(conn', s) /\ NoExit(conn')
    BY <1>1, <1>4, <1>6, HeaderGoesOn DEF FramesInv
<1> QED
    BY <1>1, <1>2, <1>3, <1>4, <1>5, <1>7 DEF FramesInv

\* The payload by the one who holds it, who then gives it up.
LEMMA PayloadKeepsFrames ==
    ASSUME FramesInv, NEW s \in SSHStream, WritePayload(s) PROVE FramesInv'
<1>1. /\ copier[s] = "payload" /\ ~helperGone
      /\ copier' = [copier EXCEPT ![s] = "read"] /\ mu' = "free"
      /\ conn' = Append(conn, Payload(s)) /\ UNCHANGED <<reqStep, helperGone>>
    BY DEF WritePayload
<1>2. /\ copier' \in [SSHStream -> {"off", "read", "lock", "payload", "done"}]
      /\ copier'[s] = "read" /\ \A r \in SSHStream \ {s} : copier'[r] = copier[r]
    BY <1>1 DEF FramesInv
<1>3. reqStep \notin {"parse", "select", "resolve", "exit", "done"} /\ NoExit(conn) /\ mu = s
    BY <1>1 DEF FramesInv
<1>4. s # "exit" /\ \A r \in SSHStream : r # "free"
    BY DEF SSHStream
<1>5. Pending(conn, s) /\ NoExitBefore(conn)
    BY <1>1, <1>3, <1>4 DEF FramesInv, NoExit, NoExitBefore
<1>6. conn' \in Seq(Frame) /\ Whole(conn') /\ AtRest(conn') /\ NoExit(conn')
    BY <1>1, <1>3, <1>5, PayloadGoesOn DEF FramesInv
<1>7. \A r \in SSHStream : copier'[r] = "payload" <=> mu' = r
    BY <1>1, <1>2, <1>3, <1>4 DEF FramesInv
<1> QED
    BY <1>1, <1>2, <1>3, <1>4, <1>6, <1>7 DEF FramesInv

\* So does a write that fails, and nobody reads the connection any more.
LEMMA FailureKeepsFrames ==
    ASSUME FramesInv, NEW s \in SSHStream, WriteFails(s) PROVE FramesInv'
<1>1. /\ helperGone /\ copier[s] \in {"lock", "payload"} /\ (copier[s] = "lock" => mu = "free")
      /\ copier' = [copier EXCEPT ![s] = "done"] /\ mu' = "free"
      /\ UNCHANGED <<reqStep, helperGone, conn>>
    BY DEF WriteFails
<1>2. /\ copier' \in [SSHStream -> {"off", "read", "lock", "payload", "done"}]
      /\ copier'[s] = "done" /\ \A r \in SSHStream \ {s} : copier'[r] = copier[r]
    BY <1>1 DEF FramesInv
<1>3. reqStep \notin {"parse", "select", "resolve", "exit", "done"}
    BY <1>1 DEF FramesInv
<1>4. \A r \in SSHStream : r # "free"
    BY DEF SSHStream
<1>5. \A r \in SSHStream : copier'[r] = "payload" <=> mu' = r
    BY <1>1, <1>2, <1>4 DEF FramesInv
<1> QED
    BY <1>1, <1>2, <1>3, <1>5 DEF FramesInv

\* The exit frame is written when no copier is left to write.
LEMMA ExitKeepsFrames == FramesInv /\ WriteExit => FramesInv'
<1> SUFFICES ASSUME FramesInv, WriteExit PROVE FramesInv'
    OBVIOUS
<1>1. /\ reqStep = "exit" /\ reqStep' = "done" /\ UNCHANGED <<copier, mu, helperGone>>
      /\ conn' = IF helperGone THEN conn ELSE conn \o <<Header("exit"), Payload("exit")>>
    BY DEF WriteExit
<1>2. \A s \in SSHStream : copier[s] \in {"off", "done"} 
    BY <1>1 DEF FramesInv
<1>3. mu = "free"
    BY <1>2 DEF FramesInv
<1>4. CASE helperGone
    BY <1>1, <1>2, <1>3, <1>4 DEF FramesInv
<1>5. CASE ~helperGone
    <2>1. AtRest(conn) /\ NoExit(conn)
        BY <1>1, <1>3, <1>5 DEF FramesInv
    <2>2. conn' \in Seq(Frame) /\ Whole(conn') /\ AtRest(conn')
        BY <1>1, <1>5, <2>1, PairGoesOn DEF FramesInv
    <2> QED
        BY <1>1, <1>2, <1>3, <2>2 DEF FramesInv
<1> QED
    BY <1>4, <1>5

\* Every step keeps it.
LEMMA FramesInvStep == FramesInv /\ [SSHNext]_sshVars => FramesInv'
<1> SUFFICES ASSUME FramesInv, [SSHNext]_sshVars PROVE FramesInv'
    OBVIOUS
<1>1. CASE Parse
    <2>1. CASE RefuseGit
        BY <1>1, <2>1, RefuseKeepsFrames DEF Parse
    <2>2. CASE ~RefuseGit
        BY <1>1, <2>2, FramesStay DEF Parse, runVars
    <2> QED
        BY <2>1, <2>2
<1>2. CASE NoKeyForHost \/ StartFails
    BY <1>2, RefuseKeepsFrames DEF NoKeyForHost, StartFails
<1>3. CASE Select
    BY <1>3, FramesStay DEF Select, runVars
<1>4. CASE Descend
    <2>1. CASE RefuseGit
        BY <1>4, <2>1, RefuseKeepsFrames DEF Descend
    <2>2. CASE ~RefuseGit
        BY <1>4, <2>2, FramesStay DEF Descend, runVars
    <2> QED
        BY <2>1, <2>2
<1>5. CASE Ascend
    BY <1>5, FramesStay DEF Ascend, runVars
<1>6. CASE StartSSH
    <2>1. /\ reqStep = "resolve" /\ reqStep' = "run" /\ UNCHANGED <<mu, conn, helperGone>>
          /\ copier' = [s \in SSHStream |-> "read"]
        BY <1>6 DEF StartSSH
    <2>2. mu = "free"
        BY <2>1 DEF FramesInv
    <2>3. copier' \in [SSHStream -> {"off", "read", "lock", "payload", "done"}]
        BY <2>1
    <2>4. \A s \in SSHStream : copier'[s] = "read"
        BY <2>1
    <2>5. \A s \in SSHStream : s # "free"
        BY DEF SSHStream
    <2> QED
        BY <2>1, <2>2, <2>3, <2>4, <2>5 DEF FramesInv
<1>7. CASE CopiesDone
    BY <1>7, FramesStay DEF CopiesDone, runVars
<1>8. CASE SSHExits \/ WaitReturns
    BY <1>8, FramesStay DEF SSHExits, WaitReturns
<1>9. CASE HelperHangsUp
    BY <1>9 DEF HelperHangsUp, FramesInv
<1>10. ASSUME NEW s \in SSHStream, SSHWrites(s) PROVE FramesInv'
    BY <1>10, FramesStay DEF SSHWrites
<1>11. ASSUME NEW s \in SSHStream, ReadChunk(s) PROVE FramesInv'
    <2>1. PICK to \in {"lock", "done"} : copier' = [copier EXCEPT ![s] = to]
        BY <1>11 DEF ReadChunk
    <2> QED
        BY <1>11, <2>1, CopierMoves DEF ReadChunk
<1>12. CASE UNCHANGED sshVars
    BY <1>12, FramesStay DEF sshVars
<1> QED
    BY <1>1, <1>2, <1>3, <1>4, <1>5, <1>6, <1>7, <1>8, <1>9, <1>10, <1>11, <1>12,
       HeaderKeepsFrames, PayloadKeepsFrames, FailureKeepsFrames, ExitKeepsFrames
    DEF SSHNext

\* handleConn of git_ssh.go, for any configuration of hosts: the walk of the
\* ProxyJump lists ends with its route in order, and the frames come out whole.
THEOREM RequestsGoInOrder == SSHSpec => []RequestsInOrder
<1>1. WalkInv /\ FramesInv => RequestsInOrder
    BY WalkOrdered DEF FramesInv, Whole, RequestsInOrder, FramesAreWhole
<1> QED
    BY <1>1, WalkInvInit, WalkInvStep, FramesInvInit, FramesInvStep, PTL DEF SSHSpec

\* A stream holds at most what was written to it.
StreamTypes ==
    /\ invocation \in Invocation /\ jumps \in [SSHHost -> JumpLists]
    /\ sshState \in {"none", "running", "exited", "reaped", "failed"}
    /\ written \in [SSHStream -> 0..MaxChunks] /\ pipe \in [SSHStream -> 0..MaxChunks]
    /\ \A s \in SSHStream : pipe[s] <= written[s]
    /\ helperGone \in BOOLEAN

LEMMA StreamTypesInit == SSHInit => StreamTypes
<1> SUFFICES ASSUME SSHInit PROVE StreamTypes
    OBVIOUS
<1>1. 0 \in 0..MaxChunks
    BY SSHAssumption
<1>2. /\ written \in [SSHStream -> 0..MaxChunks] /\ pipe \in [SSHStream -> 0..MaxChunks]
      /\ \A s \in SSHStream : pipe[s] <= written[s]
    BY <1>1 DEF SSHInit
<1>3. invocation \in Invocation /\ jumps \in [SSHHost -> JumpLists]
    BY DEF SSHInit
<1> QED
    BY <1>2, <1>3 DEF SSHInit, StreamTypes

LEMMA StreamTypesStep == StreamTypes /\ [SSHNext]_sshVars => StreamTypes'
<1> SUFFICES ASSUME StreamTypes, [SSHNext]_sshVars
             PROVE  StreamTypes'
    OBVIOUS
<1>1. MaxChunks \in Nat /\ NoJumps \in [SSHHost -> JumpLists]
    BY SSHAssumption DEF NoJumps, JumpLists
<1> USE DEF StreamTypes
<1> HIDE DEF Invocation, JumpLists, SSHStream
<1>2. CASE RefuseGit
    BY <1>1, <1>2 DEF RefuseGit
<1>3. CASE UNCHANGED <<invocation, jumps, written, pipe, helperGone>> /\ sshState' = sshState
    BY <1>3
<1>4. CASE Parse \/ Select \/ NoKeyForHost \/ Descend \/ Ascend \/ StartFails \/ CopiesDone \/ WriteExit
    BY <1>2, <1>3, <1>4 DEF Parse, Select, NoKeyForHost, Descend, Ascend, StartFails, CopiesDone,
                            WriteExit, runVars
<1>5. CASE StartSSH \/ SSHExits \/ HelperHangsUp
    BY <1>1, <1>5 DEF StartSSH, SSHExits, HelperHangsUp
<1>6. CASE WaitReturns
    <2>1. \A s \in SSHStream : written[s] \in 0..MaxChunks
        OBVIOUS
    <2> QED
        BY <1>1, <1>6, <2>1 DEF WaitReturns
<1>7. ASSUME NEW s \in SSHStream, SSHWrites(s)
      PROVE  StreamTypes'
    <2>1. written[s] \in 0..MaxChunks /\ pipe[s] \in 0..MaxChunks /\ pipe[s] <= written[s]
          /\ written[s] < MaxChunks
        BY <1>7 DEF SSHWrites
    <2>2. written[s] + 1 \in 0..MaxChunks /\ pipe[s] + 1 \in 0..MaxChunks
          /\ pipe[s] + 1 <= written[s] + 1
        BY <1>1, <2>1
    <2>3. written' = [written EXCEPT ![s] = written[s] + 1] /\ pipe' = [pipe EXCEPT ![s] = pipe[s] + 1]
        BY <1>7 DEF SSHWrites
    <2>4. /\ written' \in [SSHStream -> 0..MaxChunks] /\ pipe' \in [SSHStream -> 0..MaxChunks]
          /\ \A r \in SSHStream : pipe'[r] <= written'[r]
        BY <2>2, <2>3
    <2> QED
        BY <1>7, <2>4 DEF SSHWrites
<1>8. ASSUME NEW s \in SSHStream, ReadChunk(s)
      PROVE  StreamTypes'
    <2>1. CASE pipe[s] > 0 /\ pipe' = [pipe EXCEPT ![s] = @ - 1]
        <3>1. written[s] \in 0..MaxChunks /\ pipe[s] \in 0..MaxChunks /\ pipe[s] <= written[s]
            OBVIOUS
        <3>2. pipe[s] - 1 \in 0..MaxChunks /\ pipe[s] - 1 <= written[s]
            BY <1>1, <2>1, <3>1
        <3>3. pipe' \in [SSHStream -> 0..MaxChunks] /\ \A r \in SSHStream : pipe'[r] <= written[r]
            BY <2>1, <3>2
        <3> QED
            BY <1>8, <3>3 DEF ReadChunk
    <2>2. CASE UNCHANGED pipe
        BY <1>8, <2>2 DEF ReadChunk
    <2> QED
        BY <1>8, <2>1, <2>2 DEF ReadChunk
<1>9. ASSUME NEW s \in SSHStream, WriteHeader(s) \/ WritePayload(s) \/ WriteFails(s)
      PROVE  StreamTypes'
    BY <1>3, <1>9 DEF WriteHeader, WritePayload, WriteFails
<1>10. CASE UNCHANGED sshVars
    BY <1>3, <1>10 DEF sshVars
<1> QED
    BY <1>4, <1>5, <1>6, <1>7, <1>8, <1>9, <1>10 DEF SSHNext

LEMMA RequestTypes == SSHSpec => []SSHTypeOK
<1>1. ASSUME WalkTypes PROVE Seen \subseteq SSHHost /\ ToSet(jumpPath) \subseteq SSHHost
    <2>1. \A i \in 1..Len(frames) : frames[i] \in Call
        BY <1>1 DEF WalkTypes, Calls
    <2>2. Seen \subseteq SSHHost
        BY <2>1 DEF Seen, Call
    <2>3. jumpPath \in Seq(SSHHost)
        BY <1>1 DEF WalkTypes, Hosts
    <2> QED
        BY <2>2, <2>3 DEF ToSet
<1>2. WalkInv /\ FramesInv /\ StreamTypes => SSHTypeOK
    BY <1>1 DEF WalkInv, WalkTypes, FramesInv, StreamTypes, SSHTypeOK
<1> QED
    BY <1>2, WalkInvInit, WalkInvStep, FramesInvInit, FramesInvStep, StreamTypesInit,
       StreamTypesStep, PTL DEF SSHSpec

----------------------------------------------------------------------------
(* SessionHome.                                                            *)

Held == [HomeSession -> Nat]

\* The shapes of the state, without their bounds.
HomeShapes ==
    /\ DOMAIN persistent = HomeEntry /\ persistent["checked"] \in Nat
    /\ DOMAIN homeStep = HomeSession /\ edits \in Nat
    /\ runtime \in Held /\ source \in Held /\ temp \in Held /\ backup \in Held

\* While a session is replacing the checked path, what is there is what it
\* compared with, or raced it; so is what it has moved aside, and what it will put
\* in place is no deletion.
HomeInv ==
    /\ HomeShapes
    /\ destroyed \subseteq raced
    /\ \A s \in HomeSession :
         /\ homeStep[s] \in {"temp", "aside"} =>
              persistent["checked"] \in raced \union {0, source[s]}
         /\ homeStep[s] = "swap" => persistent["checked"] \in raced \union {0}
         /\ homeStep[s] \in {"swap", "drop"} => backup[s] \in raced \union {0, source[s]}
         /\ homeStep[s] \in {"aside", "swap"} => temp[s] # 0

\* Nothing has been moved at first.
LEMMA HomeInvInit == HomeInit => HomeInv
<1> SUFFICES ASSUME HomeInit PROVE HomeInv
    OBVIOUS
<1>1. HomeShapes
    BY DEF HomeInit, HomeShapes, Held, HomeEntry
<1> QED
    BY <1>1 DEF HomeInit, HomeInv

\* Every step keeps the shapes of the state.
LEMMA HomeShapesStep == HomeShapes /\ HomeNext => HomeShapes'
<1> SUFFICES ASSUME HomeShapes, HomeNext PROVE HomeShapes'
    OBVIOUS
<1> USE DEF HomeShapes, Held, HomeEntry, wbVars, HomeGo
<1>1. CASE EditByOther
    BY <1>1 DEF EditByOther
<1>2. ASSUME NEW s \in HomeSession,
             \/ PlanHome(s) \/ CreateLayout(s) \/ Bridge(s) \/ Seed(s) \/ Fingerprint(s)
             \/ CopyIn(s) \/ EditInSession(s) \/ DeleteInSession(s) \/ EndRun(s)
      PROVE  HomeShapes'
    <2>1. CASE PlanHome(s)
        BY <2>1 DEF PlanHome
    <2>2. CASE CreateLayout(s)
        BY <2>2 DEF CreateLayout
    <2>3. CASE Bridge(s)
        BY <2>3 DEF Bridge
    <2>4. CASE Seed(s)
        BY <2>4 DEF Seed
    <2>5. CASE Fingerprint(s)
        BY <2>5 DEF Fingerprint
    <2>6. CASE CopyIn(s)
        BY <2>6 DEF CopyIn
    <2>7. CASE EditInSession(s)
        BY <2>7 DEF EditInSession
    <2>8. CASE DeleteInSession(s)
        BY <2>8 DEF DeleteInSession
    <2>9. CASE EndRun(s)
        BY <2>9 DEF EndRun
    <2> QED
        BY <1>2, <2>1, <2>2, <2>3, <2>4, <2>5, <2>6, <2>7, <2>8, <2>9
<1>3. ASSUME NEW s \in HomeSession,
             \/ Compare(s) \/ CopyOut(s) \/ MoveAside(s) \/ SwapIn(s) \/ SwapFails(s)
             \/ DropBackup(s) \/ KillHome(s) \/ CleanupHome(s)
      PROVE  HomeShapes'
    <2>1. CASE Compare(s)
        BY <2>1 DEF Compare
    <2>2. CASE CopyOut(s)
        BY <2>2 DEF CopyOut
    <2>3. CASE MoveAside(s)
        BY <2>3 DEF MoveAside
    <2>4. CASE SwapIn(s)
        BY <2>4 DEF SwapIn
    <2>5. CASE SwapFails(s)
        BY <2>5 DEF SwapFails
    <2>6. CASE DropBackup(s)
        BY <2>6 DEF DropBackup
    <2>7. CASE KillHome(s)
        BY <2>7 DEF KillHome
    <2>8. CASE CleanupHome(s)
        BY <2>8 DEF CleanupHome
    <2> QED
        BY <1>3, <2>1, <2>2, <2>3, <2>4, <2>5, <2>6, <2>7, <2>8
<1> QED
    BY <1>1, <1>2, <1>3 DEF HomeNext

\* A session is replacing the path from the comparison to the second rename.
LEMMA ReplacingMeans ==
    \A s \in HomeSession : homeStep[s] \in {"temp", "aside", "swap"} => s \in Replacing
BY DEF Replacing

\* Every step keeps it: who edits the path meanwhile has raced the write-back.
LEMMA HomeInvStep == HomeInv /\ [HomeNext]_homeVars => HomeInv'
<1> SUFFICES ASSUME HomeInv, [HomeNext]_homeVars PROVE HomeInv'
    OBVIOUS
<1>1. CASE UNCHANGED homeVars
    BY <1>1 DEF homeVars, HomeInv, HomeShapes
<1> SUFFICES ASSUME HomeNext PROVE HomeInv'
    BY <1>1
<1>2. HomeShapes /\ HomeShapes'
    BY HomeShapesStep DEF HomeInv
<1>3. CASE EditByOther
    BY <1>2, <1>3, ReplacingMeans DEF EditByOther, HomeInv, HomeShapes, wbVars, HomeEntry
<1>4. ASSUME NEW s \in HomeSession,
             \/ PlanHome(s) \/ CreateLayout(s) \/ Bridge(s) \/ Seed(s) \/ Fingerprint(s)
             \/ CopyIn(s) \/ EditInSession(s) \/ DeleteInSession(s) \/ EndRun(s)
      PROVE  HomeInv'
    <2>1. /\ UNCHANGED <<destroyed, raced, temp, backup>>
          /\ persistent'["checked"] = persistent["checked"]
        BY <1>2, <1>4 DEF HomeShapes, HomeEntry, PlanHome, CreateLayout, Bridge, Seed,
           Fingerprint, CopyIn, EditInSession, DeleteInSession, EndRun, wbVars
    <2>2. /\ homeStep'[s] \notin {"temp", "aside", "swap", "drop"}
          /\ \A r \in HomeSession \ {s} : homeStep'[r] = homeStep[r] /\ source'[r] = source[r]
        <3>1. CASE EditInSession(s) \/ DeleteInSession(s)
            BY <1>2, <3>1 DEF HomeShapes, EditInSession, DeleteInSession, wbVars
        <3>2. CASE ~(EditInSession(s) \/ DeleteInSession(s))
            BY <1>2, <1>4, <3>2 DEF HomeShapes, Held, PlanHome, CreateLayout, Bridge, Seed,
               Fingerprint, CopyIn, EndRun, wbVars, HomeGo
        <3> QED
            BY <3>1, <3>2
    <2> QED
        BY <1>2, <2>1, <2>2 DEF HomeInv
<1>5. ASSUME NEW s \in HomeSession, Compare(s) PROVE HomeInv'
    BY <1>2, <1>5 DEF Compare, HomeGo, HomeInv, HomeShapes
<1>6. ASSUME NEW s \in HomeSession, CopyOut(s) PROVE HomeInv'
    BY <1>2, <1>6 DEF CopyOut, HomeGo, HomeInv, HomeShapes, Held
<1>7. ASSUME NEW s \in HomeSession, MoveAside(s) PROVE HomeInv'
    BY <1>2, <1>7 DEF MoveAside, HomeGo, HomeInv, HomeShapes, HomeEntry, Held
<1>8. ASSUME NEW s \in HomeSession, SwapIn(s) PROVE HomeInv'
    <2>1. /\ homeStep[s] = "swap" /\ homeStep'[s] = "drop"
          /\ \A r \in HomeSession \ {s} : homeStep'[r] = homeStep[r] /\ temp'[r] = temp[r]
          /\ persistent'["checked"] = temp[s]
          /\ raced \subseteq raced' /\ (Replacing # {s} => temp[s] \in raced')
          /\ destroyed' = destroyed \union ({persistent["checked"]} \ {0})
          /\ UNCHANGED <<source, backup>>
        BY <1>2, <1>8 DEF SwapIn, HomeGo, HomeShapes, HomeEntry, Held
    <2>2. \A r \in HomeSession \ {s} :
              homeStep[r] \in {"temp", "aside", "swap"} => temp[s] \in raced'
        BY <2>1, ReplacingMeans
    <2> QED
        BY <1>2, <2>1, <2>2 DEF HomeInv
<1>9. ASSUME NEW s \in HomeSession, SwapFails(s) PROVE HomeInv'
    <2>1. /\ homeStep[s] = "swap" /\ homeStep'[s] = "failed"
          /\ \A r \in HomeSession \ {s} : homeStep'[r] = homeStep[r] /\ temp'[r] = temp[r]
                                          /\ backup'[r] = backup[r]
          /\ persistent'["checked"] = IF backup[s] # 0 THEN backup[s] ELSE persistent["checked"]
          /\ raced \subseteq raced' /\ (Replacing # {s} => backup[s] \in raced')
          /\ destroyed' \subseteq destroyed \union ({persistent["checked"]} \ {0})
          /\ UNCHANGED source
        BY <1>2, <1>9 DEF SwapFails, HomeGo, HomeShapes, HomeEntry, Held
    <2>2. \A r \in HomeSession \ {s} :
              homeStep[r] \in {"temp", "aside", "swap"} => backup[s] \in raced'
        BY <2>1, ReplacingMeans
    <2> QED
        BY <1>2, <2>1, <2>2 DEF HomeInv
<1>10. ASSUME NEW s \in HomeSession, DropBackup(s) PROVE HomeInv'
    BY <1>2, <1>10 DEF DropBackup, HomeGo, HomeInv, HomeShapes, Held
<1>11. ASSUME NEW s \in HomeSession, KillHome(s) PROVE HomeInv'
    BY <1>2, <1>11 DEF KillHome, HomeGo, HomeInv, HomeShapes, wbVars
<1>12. ASSUME NEW s \in HomeSession, CleanupHome(s) PROVE HomeInv'
    BY <1>2, <1>12 DEF CleanupHome, HomeGo, HomeInv, HomeShapes
<1> QED
    BY <1>3, <1>4, <1>5, <1>6, <1>7, <1>8, <1>9, <1>10, <1>11, <1>12 DEF HomeNext

\* The checked path goes away only when it is moved aside.
LEMMA HomeStepRecovers ==
    HomeInv /\ [HomeNext]_homeVars =>
        [persistent["checked"] # 0 /\ persistent'["checked"] = 0 =>
           \E s \in HomeSession : backup'[s] = persistent["checked"]]_homeVars
<1> SUFFICES ASSUME HomeInv, HomeNext, persistent["checked"] # 0, persistent'["checked"] = 0
             PROVE  \E s \in HomeSession : backup'[s] = persistent["checked"]
    OBVIOUS
<1> USE DEF HomeInv, HomeShapes, HomeEntry, Held
<1>1. ~EditByOther
    BY DEF EditByOther
<1>2. ASSUME NEW s \in HomeSession, MoveAside(s) PROVE backup'[s] = persistent["checked"]
    BY <1>2 DEF MoveAside
<1>3. ASSUME NEW s \in HomeSession PROVE ~SwapIn(s)
    BY DEF SwapIn, HomeGo
<1>4. ASSUME NEW s \in HomeSession PROVE ~SwapFails(s)
    BY DEF SwapFails, HomeGo
<1>5. ASSUME NEW s \in HomeSession PROVE ~Bridge(s)
    BY DEF Bridge
<1>6. ASSUME NEW s \in HomeSession,
             \/ PlanHome(s) \/ CreateLayout(s) \/ Seed(s) \/ Fingerprint(s)
             \/ CopyIn(s) \/ EditInSession(s) \/ DeleteInSession(s) \/ EndRun(s)
             \/ Compare(s) \/ CopyOut(s) \/ DropBackup(s) \/ KillHome(s) \/ CleanupHome(s)
      PROVE  FALSE
    BY <1>6 DEF PlanHome, CreateLayout, Seed, Fingerprint, CopyIn, EditInSession,
       DeleteInSession, EndRun, Compare, CopyOut, DropBackup, KillHome, CleanupHome
<1> QED
    BY <1>1, <1>2, <1>3, <1>4, <1>5, <1>6 DEF HomeNext

\* The write-back of session_home_writeback.go, for any number of sessions and edits.
THEOREM WriteBackKeeps == HomeSpec => HomeSurvives
<1>1. HomeInv => OnlyRacingVersionsDestroyed
    BY DEF HomeInv, OnlyRacingVersionsDestroyed
<1>2. HomeSpec => []HomeInv
    BY HomeInvInit, HomeInvStep, PTL DEF HomeSpec
<1> QED
    BY <1>1, <1>2, HomeStepRecovers, PTL DEF HomeSpec, HomeSurvives, PathRecoverable

HomeSteps == {"plan", "blocked", "layout", "bridge", "seed", "fingerprint", "copy", "run",
              "compare", "temp", "aside", "swap", "drop", "done", "failed"}

\* Every version is one that has been made.
HomeTypes ==
    /\ persistent \in [HomeEntry -> Version] /\ adapter \in BOOLEAN
    /\ homeStep \in [HomeSession -> HomeSteps] /\ homeDir \in [HomeSession -> BOOLEAN]
    /\ runtime \in [HomeSession -> Version] /\ source \in [HomeSession -> Version]
    /\ temp \in [HomeSession -> Version] /\ backup \in [HomeSession -> Version]
    /\ recovery \in [HomeSession -> Version]
    /\ edits \in Nat /\ raced \subseteq Version /\ destroyed \subseteq Version

LEMMA SomeVersions == 0 \in Version /\ 1 \in Version
BY SessionHomeAssumption DEF Version

LEMMA HomeTypesInit == HomeInit => HomeTypes
BY SomeVersions DEF HomeInit, HomeTypes, HomeSteps

LEMMA HomeTypesStep == HomeTypes /\ [HomeNext]_homeVars => HomeTypes'
<1> SUFFICES ASSUME HomeTypes, [HomeNext]_homeVars
             PROVE  HomeTypes'
    OBVIOUS
<1> USE DEF HomeTypes
<1>1. 0 \in Version /\ 1 \in Version /\ persistent["checked"] \in Version
    BY SomeVersions DEF HomeEntry
<1>2. edits < MaxEdits => edits + 1 \in Version
    BY SessionHomeAssumption DEF Version
<1>3. ASSUME NEW s \in HomeSession, NEW here, NEW there \in HomeSteps, HomeGo(s, here, there)
      PROVE  homeStep' \in [HomeSession -> HomeSteps]
    BY <1>3 DEF HomeGo
<1> HIDE DEF Version
<1>4. CASE EditByOther
    <2>1. edits' \in Nat /\ edits' \in Version
        BY <1>2, <1>4 DEF EditByOther
    <2>2. persistent' = [persistent EXCEPT !["checked"] = edits'] /\ raced' \in {raced, raced \union {edits'}}
        BY <1>4 DEF EditByOther
    <2>3. persistent' \in [HomeEntry -> Version] /\ raced' \subseteq Version
        BY <2>1, <2>2
    <2> QED
        BY <1>4, <2>1, <2>3 DEF EditByOther, wbVars
<1>5. ASSUME NEW s \in HomeSession,
             PlanHome(s) \/ CreateLayout(s) \/ Bridge(s) \/ Seed(s) \/ CopyIn(s) \/ EndRun(s)
             \/ Fingerprint(s)
      PROVE  HomeTypes'
    <2>1. homeStep' \in [HomeSession -> HomeSteps]
        BY <1>5 DEF PlanHome, CreateLayout, Bridge, Seed, CopyIn, EndRun, Fingerprint, HomeGo,
                    HomeSteps
    <2> QED
        BY <1>1, <1>5, <2>1 DEF PlanHome, CreateLayout, Bridge, Seed, CopyIn, EndRun, Fingerprint,
                                wbVars
<1>6. ASSUME NEW s \in HomeSession, EditInSession(s) \/ DeleteInSession(s)
      PROVE  HomeTypes'
    BY <1>1, <1>2, <1>6 DEF EditInSession, DeleteInSession, wbVars
<1>7. ASSUME NEW s \in HomeSession, Compare(s)
      PROVE  HomeTypes'
    <2>1. homeStep' \in [HomeSession -> HomeSteps]
        BY <1>7 DEF Compare, HomeGo, HomeSteps
    <2>2. recovery' \in [HomeSession -> Version]
        BY <1>7 DEF Compare
    <2> QED
        BY <1>7, <2>1, <2>2 DEF Compare
<1>8. ASSUME NEW s \in HomeSession, CopyOut(s) \/ MoveAside(s) \/ DropBackup(s)
      PROVE  HomeTypes'
    <2>1. homeStep' \in [HomeSession -> HomeSteps]
        BY <1>8 DEF CopyOut, MoveAside, DropBackup, HomeGo, HomeSteps
    <2>2. backup[s] \in Version
        OBVIOUS
    <2> QED
        BY <1>1, <1>8, <2>1, <2>2 DEF CopyOut, MoveAside, DropBackup, wbVars
<1>9. ASSUME NEW s \in HomeSession, SwapIn(s) \/ SwapFails(s)
      PROVE  HomeTypes'
    <2>1. homeStep' \in [HomeSession -> HomeSteps]
        BY <1>9 DEF SwapIn, SwapFails, HomeGo, HomeSteps
    <2>2. temp[s] \in Version /\ backup[s] \in Version
        OBVIOUS
    <2>3. persistent' \in [HomeEntry -> Version] /\ raced' \subseteq Version
          /\ destroyed' \subseteq Version
        BY <1>1, <1>9, <2>2 DEF SwapIn, SwapFails
    <2>4. temp' \in [HomeSession -> Version] /\ backup' \in [HomeSession -> Version]
        BY <1>1, <1>9 DEF SwapIn, SwapFails
    <2> QED
        BY <1>9, <2>1, <2>3, <2>4 DEF SwapIn, SwapFails
<1>10. ASSUME NEW s \in HomeSession, KillHome(s) \/ CleanupHome(s)
       PROVE  HomeTypes'
    <2>1. CASE KillHome(s)
        BY <2>1 DEF KillHome, wbVars, HomeSteps
    <2>2. CASE CleanupHome(s)
        BY <1>1, <2>2 DEF CleanupHome
    <2> QED
        BY <1>10, <2>1, <2>2
<1>11. CASE UNCHANGED homeVars
    BY <1>11 DEF homeVars
<1> QED
    BY <1>4, <1>5, <1>6, <1>7, <1>8, <1>9, <1>10, <1>11 DEF HomeNext

LEMMA HomeTypesAre == HomeTypes => HomeTypeOK
BY DEF HomeTypes, HomeTypeOK, HomeSteps

LEMMA HomesHaveTheirTypes == HomeSpec => []HomeTypeOK
BY HomeTypesInit, HomeTypesStep, HomeTypesAre, PTL DEF HomeSpec

----------------------------------------------------------------------------
(* ServiceLifecycle.                                                       *)

SvcInv ==
    /\ svcStep \in {"planned", "materialize", "start", "health", "ready", "attach",
                    "stop", "credentials"} =>
         \A r \in SvcRun : r < svcRun => svcLeft[r] = {}
    /\ \A r \in SvcRun : r > svcRun => svcLeft[r] = {}
    /\ svcStep \in {"validate", "residue", "planned", "materialize"} =>
         svcLeft[svcRun] = {} /\ ~svcMade /\ ~svcHandle /\ ~svcFailed
    /\ svcStep # "over" => /\ "credential" \in svcLeft[svcRun] => svcMade
                           /\ "service" \in svcLeft[svcRun] => svcHandle
    /\ svcStep = "credentials" => svcFailed \/ "service" \notin svcLeft[svcRun]
    /\ svcStep = "over" /\ ~svcFailed => svcLeft[svcRun] = {}

\* Runs are numbers, the first of them 1.
LEMMA RunsAreNumbers == 1 \in SvcRun /\ SvcRun \subseteq Nat
                        /\ \A r \in SvcRun : r < MaxRuns => r + 1 \in SvcRun
BY ServiceAssumption DEF SvcRun

\* A runner starts with a run that has made nothing.
LEMMA SvcTypeInit == SvcInit => SvcTypeOK
BY RunsAreNumbers DEF SvcInit, SvcTypeOK

\* Every step keeps the type.
LEMMA SvcTypeStep == SvcTypeOK /\ [SvcNext]_svcVars => SvcTypeOK'
<1> SUFFICES ASSUME SvcTypeOK, [SvcNext]_svcVars
             PROVE  SvcTypeOK'
    OBVIOUS
<1> USE RunsAreNumbers DEF SvcTypeOK, Part, Keep, SvcGo
<1>1. CASE Validate
    BY <1>1 DEF Validate
<1>2. CASE cleanupPriorResidue
    BY <1>2 DEF cleanupPriorResidue, Residue
<1>3. CASE RecordPlanned
    BY <1>3 DEF RecordPlanned
<1>4. CASE Materialize
    <2>1. PICK made \in SUBSET {"credential"} :
             svcLeft' = [svcLeft EXCEPT ![svcRun] = @ \union made]
        <3>1. {"credential"} \in SUBSET {"credential"}
            OBVIOUS
        <3> QED
            BY <1>4, <3>1 DEF Materialize
    <2>2. svcLeft' \in [SvcRun -> SUBSET Part]
        BY <2>1
    <2> QED
        BY <1>4, <2>2 DEF Materialize
<1>5. CASE Start
    BY <1>5 DEF Start
<1>6. CASE Serve
    BY <1>6 DEF Serve
<1>7. CASE Stop
    BY <1>7 DEF Stop
<1>8. CASE CleanupCredentials
    BY <1>8 DEF CleanupCredentials
<1>9. CASE SvcCrash
    BY <1>9 DEF SvcCrash
<1>10. CASE NextRun
    BY <1>10 DEF NextRun, Begin
<1>11. CASE UNCHANGED svcVars
    BY <1>11 DEF svcVars
<1> QED
    BY <1>1, <1>2, <1>3, <1>4, <1>5, <1>6, <1>7, <1>8, <1>9, <1>10, <1>11 DEF SvcNext

\* Before the first run the host is clean.
LEMMA SvcInvInit == SvcInit => SvcInv
BY RunsAreNumbers DEF SvcInit, SvcInv

\* Every step keeps it: a run starts on a clean host, or ends at once.
LEMMA SvcInvStep == SvcTypeOK /\ SvcInv /\ [SvcNext]_svcVars => SvcInv'
<1> SUFFICES ASSUME SvcTypeOK, SvcInv, [SvcNext]_svcVars
             PROVE  SvcInv'
    OBVIOUS
<1> USE RunsAreNumbers DEF SvcTypeOK, Keep, SvcGo
<1>1. CASE Validate
    BY <1>1 DEF SvcInv, Validate
<1>2. CASE cleanupPriorResidue
    BY <1>2 DEF SvcInv, Residue, cleanupPriorResidue
<1>3. CASE RecordPlanned
    BY <1>3 DEF SvcInv, RecordPlanned
<1>4. CASE Materialize
    <2>1. svcStep = "materialize" /\ svcRun' = svcRun /\ svcHandle' = svcHandle
        BY <1>4 DEF Materialize
    <2>2. /\ svcLeft'[svcRun] \subseteq svcLeft[svcRun] \cup {"credential"}
          /\ \A r \in SvcRun : r # svcRun => svcLeft'[r] = svcLeft[r]
        BY <1>4, <2>1 DEF Materialize
    <2>3. \/ svcStep' = "start" /\ svcMade' = TRUE /\ svcFailed' = svcFailed
          \/ svcStep' = "over" /\ svcFailed' = TRUE
        BY <1>4 DEF Materialize
    <2> QED
        BY <2>1, <2>2, <2>3 DEF SvcInv
<1>5. CASE Start
    <2>1. svcStep = "start" /\ svcRun' = svcRun /\ svcMade' = svcMade
        BY <1>5 DEF Start
    <2>2. /\ svcLeft'[svcRun] \subseteq svcLeft[svcRun] \cup {"service"}
          /\ \A r \in SvcRun : r # svcRun => svcLeft'[r] = svcLeft[r]
        BY <1>5, <2>1 DEF Start
    <2>3. \/ svcHandle' = TRUE
          \/ svcLeft' = svcLeft /\ svcHandle' = svcHandle
        BY <1>5 DEF Start
    <2>4. svcStep' \in {"health", "stop"}
        BY <1>5 DEF Start
    <2> QED
        BY <2>1, <2>2, <2>3, <2>4 DEF SvcInv
<1>6. CASE Serve
    BY <1>6 DEF SvcInv, Serve
<1>7. CASE Stop
    BY <1>7 DEF SvcInv, Stop
<1>8. CASE CleanupCredentials
    <2>1. svcStep = "credentials" /\ svcStep' = "over" /\ svcRun' = svcRun
        BY <1>8 DEF CleanupCredentials
    <2>2. \A r \in SvcRun : r # svcRun => svcLeft'[r] = svcLeft[r]
        BY <1>8, <2>1 DEF CleanupCredentials
    <2>3. CASE svcFailed' = TRUE
        BY <2>1, <2>2, <2>3 DEF SvcInv
    <2>4. CASE svcFailed' # TRUE
        <3>1. /\ svcFailed' = svcFailed
              /\ \/ ~svcMade /\ svcLeft' = svcLeft
                 \/ svcLeft' = [svcLeft EXCEPT ![svcRun] = @ \ {"credential"}]
            BY <1>8, <2>4 DEF CleanupCredentials
        <3>2. /\ "service" \notin svcLeft[svcRun]
              /\ ~svcMade => "credential" \notin svcLeft[svcRun]
            BY <2>1, <2>4, <3>1 DEF SvcInv
        <3>3. svcLeft'[svcRun] = {}
            BY <3>1, <3>2 DEF Part
        <3> QED
            BY <2>1, <2>2, <3>3 DEF SvcInv
    <2> QED
        BY <2>3, <2>4
<1>9. CASE SvcCrash
    BY <1>9 DEF SvcInv, SvcCrash
<1>10. CASE NextRun
    BY <1>10 DEF SvcInv, NextRun, Begin
<1>11. CASE UNCHANGED svcVars
    BY <1>11 DEF SvcInv, svcVars
<1> QED
    BY <1>1, <1>2, <1>3, <1>4, <1>5, <1>6, <1>7, <1>8, <1>9, <1>10, <1>11 DEF SvcNext

\* A run that ended without an error left nothing on the host.
LEMMA SvcInvServes == SvcTypeOK /\ SvcInv => ServiceLeavesNothing
BY DEF SvcInv, ServiceLeavesNothing, Residue

\* Runner.Run of internal/serviceharness/lifecycle.go: however many runs there
\* are, and whatever fails or dies in them.
THEOREM ServicesLeaveNothing == SvcSpec => [](SvcTypeOK /\ ServiceLeavesNothing)
BY SvcTypeInit, SvcTypeStep, SvcInvInit, SvcInvStep, SvcInvServes, PTL DEF SvcSpec

----------------------------------------------------------------------------
(* McpProxy.                                                               *)

\* One if a copier has handed in its result.
HandedIn(s) == IF mcpCopier[s] = "idle" THEN 1 ELSE 0

\* A copier that saw the end of its stream has copied all of it, the server
\* being gone; and Wait is reached without an error only after both did.
McpInv ==
    /\ McpTypeOK
    /\ mcpServed + mcpDenied <= mcpLines
    /\ mcpLine # "none" => mcpServed + mcpDenied < mcpLines
    /\ \A s \in Stream : mcpCopied[s] + mcpPipe[s] <= mcpOut[s]
    /\ \A s \in Stream : mcpCopier[s] = "run" => mcpCopied[s] + mcpPipe[s] = mcpOut[s]
    /\ \A s \in Stream : mcpCopier[s] \in {"eof", "idle"} =>
          mcpCopied[s] = mcpOut[s] /\ mcpServer # "running"
    /\ mcpStep = "start" => mcpServer = "none" /\ mcpErrs = 0
                              /\ \A s \in Stream : mcpCopier[s] = "idle"
    /\ mcpServer \in {"running", "exited"} =>
          mcpErrs = HandedIn("stdout") + HandedIn("stderr")
    /\ mcpStep \in {"loop", "drain", "kill", "wait"} => mcpServer \in {"running", "exited"}
    /\ mcpStep = "wait" /\ mcpResult # "error" => mcpErrs = 2
    /\ mcpResult = "ok" => mcpStep = "over" /\ mcpCopied = mcpOut
    /\ mcpStep = "over" => mcpTidied = 1 /\ mcpServer \in {"none", "reaped"}
                             /\ \A s \in Stream : mcpCopier[s] # "run"
    /\ mcpStep # "over" => mcpTidied = 0

\* Nothing is served before the server has been started.
LEMMA McpInvInit == McpInit => McpInv
BY McpAssumption DEF McpInit, McpInv, McpTypeOK, HandedIn, Stream, Line

\* Every step keeps it: a chunk moves from the pipe to the client, or the copier
\* ends in error and so does the loop.
LEMMA McpInvStep == McpInv /\ [McpNext]_mcpVars => McpInv'
<1> SUFFICES ASSUME McpInv, [McpNext]_mcpVars
             PROVE  McpInv'
    OBVIOUS
<1> USE McpAssumption DEF McpInv, McpTypeOK, HandedIn, Stream, Line, loopVars, pipeVars
<1>1. CASE StartServer
    BY <1>1 DEF StartServer
<1>2. CASE ReadLine
    BY <1>2 DEF ReadLine
<1>3. CASE forwardClientLine
    BY <1>3 DEF forwardClientLine
<1>4. CASE Drain
    BY <1>4 DEF Drain
<1>5. CASE Kill
    BY <1>5 DEF Kill
<1>6. CASE Wait
    BY <1>6 DEF Wait
<1>7. CASE ServerExits
    BY <1>7 DEF ServerExits
<1>8. ASSUME NEW s \in Stream, ServerWrites(s) PROVE McpInv'
    BY <1>8 DEF ServerWrites
<1>9. ASSUME NEW s \in Stream, copyStream(s) PROVE McpInv'
    BY <1>9 DEF copyStream
<1>10. CASE UNCHANGED mcpVars
    BY <1>10 DEF mcpVars
<1> QED
    BY <1>1, <1>2, <1>3, <1>4, <1>5, <1>6, <1>7, <1>8, <1>9, <1>10 DEF McpNext

\* The proxy of mcpproxy/stdio.go reports success only for complete output.
THEOREM ProxyOutputIsComplete == McpSpec => [](McpTypeOK /\ ProxyOutputComplete)
<1>1. McpInv => McpTypeOK /\ ProxyOutputComplete
    BY DEF McpInv, ProxyOutputComplete
<1> QED
    BY <1>1, McpInvInit, McpInvStep, PTL DEF McpSpec

----------------------------------------------------------------------------
(* HostBroker.                                                             *)

InHandler == {"decode", "deliver", "sent", "reply"}

HbInv ==
    /\ hbFacts \in BOOLEAN /\ hbServe \in BOOLEAN
    /\ hbSession \in {"new", "open", "closing", "closed", "refused"}
    /\ hbAt \in [HbConn -> {"none", "queued", "decode", "deliver", "sent", "reply", "done"}]
    /\ hbSent \in [HbConn -> HbRequest] /\ hbAgentUp \in [HbConn -> BOOLEAN]
    /\ hbBroker \in [HbConn -> {"none", "has", "said"}] /\ hbCut \in SUBSET HbConn
    /\ hbLedger \in [HbConn -> 0..1]
    /\ hbServing = {} \/ \E k \in HbConn : hbServing = {k}
    /\ \A k \in HbConn : hbAt[k] \in InHandler => k \in hbServing
    /\ \A k \in HbConn : hbBroker[k] # "said" => hbLedger[k] = 0
    /\ \A k \in HbConn : hbAt[k] \in {"none", "queued", "decode", "deliver"}
                            => hbBroker[k] = "none"
    /\ \A k \in HbConn : hbBroker[k] = "has" => hbAt[k] = "sent" \/ k \in hbCut
    /\ ~hbServe \/ hbSession = "new" => hbServing = {}
    /\ hbSession = "closed" => ~hbServe

\* Before the session is opened nothing is served.
LEMMA HbInvInit == HbInit => HbInv
<1> SUFFICES ASSUME HbInit PROVE HbInv
    OBVIOUS
<1>1. /\ hbAt \in [HbConn -> {"none", "queued", "decode", "deliver", "sent", "reply", "done"}]
      /\ hbAgentUp \in [HbConn -> BOOLEAN] /\ hbLedger \in [HbConn -> 0..1]
      /\ hbBroker \in [HbConn -> {"none", "has", "said"}]
    BY DEF HbInit
<1>2. \A k \in HbConn : hbAt[k] = "none" /\ hbLedger[k] = 0 /\ hbBroker[k] = "none"
    BY DEF HbInit
<1> QED
    BY <1>1, <1>2 DEF HbInit, HbInv, InHandler

\* Every step keeps it: what enters a handler is accepted by a running serve,
\* serve ends with nothing in hand, and a call leaves a request at the broker
\* only by breaking.
LEMMA HbInvStep == HbInv /\ [HbNext]_hbVars => HbInv'
<1> SUFFICES ASSUME HbInv, [HbNext]_hbVars
             PROVE  HbInv'
    OBVIOUS
<1> USE DEF HbInv, InHandler, brokerVars
<1>1. CASE Open
    BY <1>1 DEF Open, confirmSandboxBoundary
<1>2. CASE BeginClose
    BY <1>2 DEF BeginClose
<1>3. CASE EndServe
    BY <1>3 DEF EndServe
<1>4. CASE EndClose
    BY <1>4 DEF EndClose
<1>5. ASSUME NEW k \in HbConn,
             \/ Connect(k) \/ Accept(k) \/ Decode(k) \/ Deadline(k) \/ Deliver(k)
             \/ BrokerDecides(k) \/ Answered(k) \/ CallBreaks(k) \/ Reply(k)
      PROVE  HbInv'
    <2>1. CASE Connect(k)
        BY <2>1 DEF Connect
    <2>2. CASE Accept(k)
        BY <2>2 DEF Accept
    <2>3. CASE Decode(k)
        BY <2>3 DEF Decode
    <2>4. CASE Deadline(k)
        BY <2>4 DEF Deadline
    <2>5. CASE Deliver(k)
        BY <2>5 DEF Deliver
    <2>6. CASE Reply(k)
        BY <2>6 DEF Reply
    <2>7. CASE BrokerDecides(k)
        BY <2>7 DEF BrokerDecides
    <2>8. CASE Answered(k)
        BY <2>8 DEF Answered
    <2>9. CASE CallBreaks(k)
        BY <2>9 DEF CallBreaks
    <2> QED
        BY <1>5, <2>1, <2>2, <2>3, <2>4, <2>5, <2>6, <2>7, <2>8, <2>9
<1>6. CASE UNCHANGED hbVars
    BY <1>6 DEF hbVars
<1> QED
    BY <1>1, <1>2, <1>3, <1>4, <1>5, <1>6 DEF HbNext

\* And it types the state.
LEMMA HbInvTypes == HbInv => HbTypeOK
<1> SUFFICES ASSUME HbInv PROVE HbTypeOK
    OBVIOUS
<1>1. Cardinality({}) <= 1 /\ \A k : Cardinality({k}) <= 1
    BY FS_EmptySet, FS_Singleton
<1>2. hbServing \in SUBSET HbConn /\ Cardinality(hbServing) <= 1
    BY <1>1 DEF HbInv
<1> QED
    BY <1>2 DEF HbInv, HbTypeOK

\* A step of a closed session serves nobody, sends nothing and records only
\* what a broken call had left with the broker.
LEMMA ClosedStepIsQuiet ==
    HbInv /\ [HbNext]_hbVars
        => [hbSession = "closed" =>
               /\ UNCHANGED hbServing
               /\ \A k \in HbConn :
                    /\ hbBroker[k] = "none" => hbBroker'[k] = "none"
                    /\ hbLedger'[k] # hbLedger[k] => k \in hbCut]_hbVars
<1> DEFINE Quiet == /\ UNCHANGED hbServing
                    /\ \A c \in HbConn :
                         /\ hbBroker[c] = "none" => hbBroker'[c] = "none"
                         /\ hbLedger'[c] # hbLedger[c] => c \in hbCut
<1> SUFFICES ASSUME HbInv, HbNext, hbSession = "closed"
             PROVE  Quiet
    OBVIOUS
<1>1. hbServing = {} /\ \A k \in HbConn : hbAt[k] \notin InHandler
    BY DEF HbInv
<1>2. ASSUME NEW k \in HbConn, BrokerDecides(k)
      PROVE  Quiet
    BY <1>1, <1>2 DEF BrokerDecides, HbInv, InHandler
<1>3. ASSUME NEW k \in HbConn,
             \/ Connect(k) \/ Accept(k) \/ Decode(k) \/ Deadline(k) \/ Deliver(k)
             \/ Answered(k) \/ CallBreaks(k) \/ Reply(k)
      PROVE  UNCHANGED <<brokerVars, hbServing>>
    BY <1>1, <1>3 DEF Connect, Accept, Decode, Deadline, Deliver, Answered, CallBreaks,
                      Reply, InHandler, brokerVars
<1>4. CASE UNCHANGED <<brokerVars, hbServing>>
    BY <1>4 DEF brokerVars
<1>5. CASE Open \/ BeginClose \/ EndServe \/ EndClose
    BY <1>5, <1>4 DEF Open, BeginClose, EndServe, EndClose
<1> QED
    BY <1>2, <1>3, <1>4, <1>5 DEF HbNext

\* Session.Close of hostbroker/session.go: after it has returned no request is
\* in a handler or sent under the session's authority, and the broker records
\* only what a call that broke before had left with it.
THEOREM ClosedSessionIsQuiet == HbSpec => []HbTypeOK /\ QuietAfterClose
<1>1. HbSpec => []HbInv
    BY HbInvInit, HbInvStep, PTL DEF HbSpec
<1> QED
    BY <1>1, HbInvTypes, ClosedStepIsQuiet, PTL DEF HbSpec, QuietAfterClose

----------------------------------------------------------------------------
(* EgressAudit.                                                            *)

\* What snapshots saw has been merged, but for what the poller still holds; and
\* it holds nothing once it has ended, before which no last snapshot is taken.
AuInv ==
    /\ AuTypeOK
    /\ auSnapped = auObserved \cup auHeld
    /\ auPoller # "holding" => auHeld = {}
    /\ auStep = "baseline" => auPoller = "none" /\ auResult = "none"
    /\ auPoller = "over" => auStep \in {"join", "report", "over"}
    /\ auStep \in {"run", "join"} => auResult \in {"none", "command"}
    /\ auStep \in {"report", "over"} => auPoller \in {"none", "over"}
    /\ auStep = "report" => auPoller = "over"
    /\ ReportHasEverySnapshot

\* Nothing has been seen before the first snapshot.
LEMMA AuInvInit == AuInit => AuInv
BY DEF AuInit, AuInv, AuTypeOK, ReportHasEverySnapshot

\* Every step keeps it: the poller is joined before the last snapshot.
LEMMA AuInvStep == AuInv /\ [AuNext]_auVars => AuInv'
<1> SUFFICES ASSUME AuInv, [AuNext]_auVars
             PROVE  AuInv'
    OBVIOUS
<1> USE DEF AuInv, AuTypeOK, ReportHasEverySnapshot
<1>1. CASE Traffic
    BY <1>1 DEF Traffic
<1>2. CASE Baseline
    BY <1>2 DEF Baseline
<1>3. CASE Poll
    BY <1>3 DEF Poll
<1>4. CASE Merge
    BY <1>4 DEF Merge
<1>5. CASE CommandEnds
    BY <1>5 DEF CommandEnds
<1>6. CASE PollerEnds
    BY <1>6 DEF PollerEnds
<1>7. CASE FinalSnapshot
    BY <1>7 DEF FinalSnapshot
<1>8. CASE Report
    BY <1>8 DEF Report
<1>9. CASE UNCHANGED auVars
    BY <1>9 DEF auVars
<1> QED
    BY <1>1, <1>2, <1>3, <1>4, <1>5, <1>6, <1>7, <1>8, <1>9 DEF AuNext

\* The report of egress_audit.go loses no snapshot, whatever the poller was doing
\* when the command ended.
THEOREM ReportIsComplete == AuSpec => [](AuTypeOK /\ ReportHasEverySnapshot)
<1>1. AuInv => AuTypeOK /\ ReportHasEverySnapshot
    BY DEF AuInv
<1> QED
    BY <1>1, AuInvInit, AuInvStep, PTL DEF AuSpec

----------------------------------------------------------------------------
(* SandboxLaunch.                                                          *)

\* The launch is behind the approval.
Past == {"status", "remove", "create", "policy", "record", "list", "run", "running", "stale"}

\* Each launch by itself: approved when it uses docker, about to save a list
\* with its sandbox, and with an agent only while that runs.
Ready ==
    \A s \in SbSession :
       /\ sbStep[s] \in Past => sbApproved \/ sbDry[s]
       /\ sbStep[s] = "list" => sbCopy[s].managed
       /\ sbIn[s] # 0 => sbStep[s] = "running"

SbInv ==
    /\ sbBox.n <= sbCount /\ sbResetSaw <= sbCount
    /\ sbReset = "save" => sbBox.n = 0 \/ sbBox.n > sbResetSaw
    /\ Ready
    /\ \A s \in SbSession :
         /\ sbOwn[s] <= sbCount
         /\ sbOwn[s] # 0 /\ sbOwn[s] = sbBox.n => sbBox.policy
    /\ KnownToReset

BoxNo == 0..MaxBoxes
Boxes == [n : BoxNo, up : BOOLEAN, policy : BOOLEAN]
Configs == [backend : BOOLEAN, managed : BOOLEAN]

\* Sandboxes are numbered.
LEMMA SbNumbers == BoxNo \subseteq Nat /\ 0 \in BoxNo
                   /\ \A i \in BoxNo : i < MaxBoxes => i + 1 \in BoxNo
BY SandboxAssumption DEF BoxNo

\* What becomes of a sandbox when it is created, started or gets its policy.
LEMMA SbBoxes ==
    /\ NoBox \in Boxes /\ NoBox.n = 0
    /\ \A b \in Boxes : b.n \in BoxNo
    /\ \A b \in Boxes : /\ [b EXCEPT !.policy = TRUE] \in Boxes
                        /\ [b EXCEPT !.policy = TRUE].n = b.n
                        /\ [b EXCEPT !.policy = TRUE].policy = TRUE
    /\ \A b \in Boxes, u \in BOOLEAN : /\ [b EXCEPT !.up = u] \in Boxes
                        /\ [b EXCEPT !.up = u].n = b.n
                        /\ [b EXCEPT !.up = u].policy = b.policy
    /\ \A i \in BoxNo, u \in BOOLEAN :
          /\ [n |-> i, up |-> u, policy |-> FALSE] \in Boxes
          /\ [n |-> i, up |-> u, policy |-> FALSE].n = i
BY SbNumbers DEF NoBox, Boxes

SbFlags == [SbSession -> BOOLEAN]

SbTypes ==
    /\ sbBox \in Boxes
    /\ sbCount \in BoxNo /\ sbBackend \in BOOLEAN
    /\ sbManaged \in BOOLEAN /\ sbApproved \in BOOLEAN
    /\ sbStep \in [SbSession -> SbSteps]
    /\ sbOwn \in [SbSession -> BoxNo] /\ sbIn \in [SbSession -> BoxNo]
    /\ sbRetry \in SbFlags /\ sbDry \in SbFlags
    /\ sbCopy \in [SbSession -> SbCopies] /\ sbEdit \in SbCopies
    /\ \A s \in SbSession : sbStep[s] \in {"adopting", "list"} => sbCopy[s] \in Configs
    /\ sbReset \in {"idle", "remove", "save"}
    /\ sbResetSaw \in BoxNo /\ sbExcused \in BOOLEAN

\* The type, said without the record sets.
LEMMA SbTypesAre == SbTypes => SbTypeOK
BY DEF SbTypes, SbTypeOK, Boxes, BoxNo, SbFlags

\* Copies of a configuration, as they are loaded and as they are changed.
LEMMA SbLoads ==
    ASSUME SbTypes
    PROVE  /\ Loaded \in Configs /\ NoCopy \in SbCopies
           /\ [Loaded EXCEPT !.backend = TRUE] \in Configs
           /\ [Loaded EXCEPT !.managed = TRUE] \in Configs
           /\ [Loaded EXCEPT !.managed = TRUE].managed = TRUE
           /\ Configs \subseteq SbCopies
           /\ \A c \in SbCopies : c # NoCopy => c \in Configs
           /\ \A c \in Configs : c.backend \in BOOLEAN /\ c.managed \in BOOLEAN
BY DEF SbTypes, Loaded, Configs, SbCopies

\* Nothing is created at first.
LEMMA SbTypeInit == SbInit => SbTypes
<1> SUFFICES ASSUME SbInit PROVE SbTypes
    OBVIOUS
<1>1. sbStep \in [SbSession -> SbSteps] /\ \A s \in SbSession : sbStep[s] = "idle"
    BY DEF SbInit, SbSteps
<1>2. sbOwn \in [SbSession -> BoxNo] /\ sbIn \in [SbSession -> BoxNo]
    BY SbNumbers DEF SbInit
<1>3. sbRetry \in SbFlags /\ sbDry \in SbFlags
    BY DEF SbInit, SbFlags
<1>4. sbCopy \in [SbSession -> SbCopies] /\ sbEdit \in SbCopies
    BY DEF SbInit, SbCopies
<1> QED
    BY <1>1, <1>2, <1>3, <1>4, SbNumbers, SbBoxes DEF SbInit, SbTypes

\* The router sends a launch to approval or to admission.
LEMMA RoutesTo == Routed \subseteq {"admit", "approve"}
BY DEF Routed

\* And what it does to the launch.
LEMMA RouteGoes ==
    ASSUME NEW s \in SbSession, Route(s)
    PROVE  /\ sbStep[s] = "idle"
           /\ \E to \in {"admit", "approve"} : sbStep' = [sbStep EXCEPT ![s] = to]
           /\ \E dry \in BOOLEAN : sbDry' = [sbDry EXCEPT ![s] = dry]
           /\ UNCHANGED <<sbOwn, sbIn, sbRetry, sbCopy, sbBox, sbStore, sbExcused, sbRest>>
<1>1. PICK to \in Routed : sbStep' = [sbStep EXCEPT ![s] = IF sbApproved THEN "admit" ELSE to]
    BY DEF Route
<1>2. to \in {"admit", "approve"}
    BY RoutesTo
<1> QED
    BY <1>1, <1>2 DEF Route

\* What the end of a launch, a step of it and a save do to the types.
LEMMA SbOver ==
    ASSUME SbTypes, NEW s \in SbSession, Over(s)
    PROVE  /\ sbStep' \in [SbSession -> SbSteps] /\ sbStep'[s] = "idle"
           /\ sbOwn' \in [SbSession -> BoxNo] /\ sbIn' \in [SbSession -> BoxNo]
           /\ sbRetry' \in SbFlags /\ sbDry' \in SbFlags
           /\ sbCopy' \in [SbSession -> SbCopies]
           /\ \A t \in SbSession :
                sbStep'[t] \in {"adopting", "list"} => sbCopy'[t] \in Configs
<1>1. sbStep' \in [SbSession -> SbSteps] /\ sbStep'[s] = "idle"
    BY DEF SbTypes, Over, SbSteps
<1>2. sbOwn' \in [SbSession -> BoxNo]
    BY SbNumbers DEF SbTypes, Over
<1>3. sbIn' \in [SbSession -> BoxNo]
    BY SbNumbers DEF SbTypes, Over
<1>4. sbRetry' \in SbFlags
    BY DEF SbTypes, Over, SbFlags
<1>5. sbDry' \in SbFlags
    BY DEF SbTypes, Over, SbFlags
<1>6. sbCopy' \in [SbSession -> SbCopies]
    BY SbLoads DEF SbTypes, Over
<1>7. ASSUME NEW t \in SbSession, sbStep'[t] \in {"adopting", "list"}
      PROVE  sbCopy'[t] \in Configs
    BY <1>7 DEF SbTypes, Over
<1> QED
    BY <1>1, <1>2, <1>3, <1>4, <1>5, <1>6, <1>7

\* A step that leaves the copies alone, and is not one that saves, keeps them.
LEMMA SbGoes ==
    ASSUME SbTypes, NEW s \in SbSession, NEW x, NEW y \in SbSteps \ {"adopting", "list"},
           SbGo(s, x, y), UNCHANGED sbCopy
    PROVE  /\ sbStep' \in [SbSession -> SbSteps] /\ sbCopy' \in [SbSession -> SbCopies]
           /\ \A t \in SbSession :
                sbStep'[t] \in {"adopting", "list"} => sbCopy'[t] \in Configs
BY DEF SbTypes, SbGo

\* One that loads a copy, and one that has saved it.
LEMMA SbGoesWith ==
    ASSUME SbTypes, NEW s \in SbSession, NEW x, NEW y \in SbSteps, NEW c \in SbCopies,
           SbGo(s, x, y), sbCopy' = [sbCopy EXCEPT ![s] = c],
           c \in Configs \/ y \notin {"adopting", "list"}
    PROVE  /\ sbStep' \in [SbSession -> SbSteps] /\ sbCopy' \in [SbSession -> SbCopies]
           /\ \A t \in SbSession :
                sbStep'[t] \in {"adopting", "list"} => sbCopy'[t] \in Configs
BY DEF SbTypes, SbGo

LEMMA SbSaves ==
    ASSUME SbTypes, NEW c \in Configs, Saves(c)
    PROVE  sbBackend' \in BOOLEAN /\ sbManaged' \in BOOLEAN /\ sbExcused' \in BOOLEAN
BY SbLoads DEF SbTypes, Saves

\* Every step keeps the type, sandboxes being made only below the bound.
LEMMA SbTypeStep == SbTypes /\ [SbNext]_sbVars => SbTypes'
<1> SUFFICES ASSUME SbTypes, [SbNext]_sbVars
             PROVE  SbTypes'
    OBVIOUS
<1>a. /\ {"idle", "approve", "admit", "verify", "status", "remove"} \subseteq SbSteps \ {"adopting", "list"}
      /\ {"create", "policy", "record", "run", "running", "stale"} \subseteq SbSteps \ {"adopting", "list"}
      /\ {"adopt"} \subseteq SbSteps \ {"adopting", "list"}
      /\ {"adopting", "list"} \subseteq SbSteps
    BY DEF SbSteps
<1> USE <1>a, SbOver, SbGoes, SbNumbers, SbBoxes DEF SbTypes, SbKeep, sbReading, sbStore, sbRest
<1>1. ASSUME NEW s \in SbSession, Route(s) PROVE SbTypes'
    <2>1. PICK to \in {"admit", "approve"} : sbStep' = [sbStep EXCEPT ![s] = to]
        BY <1>1, RouteGoes
    <2>2. PICK dry \in BOOLEAN : sbDry' = [sbDry EXCEPT ![s] = dry]
        BY <1>1, RouteGoes
    <2>3. UNCHANGED <<sbOwn, sbIn, sbRetry, sbCopy, sbBox, sbStore, sbExcused, sbRest>>
        BY <1>1, RouteGoes
    <2>4. sbStep' \in [SbSession -> SbSteps]
          /\ \A t \in SbSession : sbStep'[t] \in {"adopting", "list"} => sbCopy'[t] \in Configs
        BY <2>1, <2>3
    <2>5. sbDry' \in SbFlags
        BY <2>2 DEF SbFlags
    <2> QED
        BY <2>3, <2>4, <2>5
<1>2. ASSUME NEW s \in SbSession, ApproveRoute(s) PROVE SbTypes'
    <2>1. CASE SbGo(s, "approve", "admit") /\ SbKeep /\ sbApproved' = (sbApproved \/ ~sbDry[s])
        BY <1>2, <2>1 DEF ApproveRoute, SbFlags
    <2>2. CASE Over(s) /\ UNCHANGED sbApproved
        BY <1>2, <2>2 DEF ApproveRoute
    <2> QED
        BY <1>2, <2>1, <2>2 DEF ApproveRoute
<1>3. ASSUME NEW s \in SbSession, Admit(s) PROVE SbTypes'
    <2>1. CASE LoadHealthyBackend(s) /\ SbKeep
        <3>1. PICK y \in {"verify", "adopt"} : SbGo(s, "admit", y)
            BY <2>1 DEF LoadHealthyBackend
        <3> QED
            BY <1>3, <2>1, <3>1 DEF Admit
    <2>2. CASE Over(s)
        BY <1>3, <2>2 DEF Admit
    <2> QED
        BY <1>3, <2>1, <2>2 DEF Admit
<1>4. ASSUME NEW s \in SbSession, AdoptLoads(s) PROVE SbTypes'
    <2>1. CASE /\ SbGo(s, "adopt", "adopting")
               /\ sbCopy' = [sbCopy EXCEPT ![s] = [Loaded EXCEPT !.backend = TRUE]]
               /\ UNCHANGED <<sbOwn, sbIn, sbRetry, sbDry>>
        <3>1. PICK c \in Configs : sbCopy' = [sbCopy EXCEPT ![s] = c]
            BY <2>1, SbLoads
        <3>2. /\ sbStep' \in [SbSession -> SbSteps] /\ sbCopy' \in [SbSession -> SbCopies]
              /\ \A t \in SbSession :
                   sbStep'[t] \in {"adopting", "list"} => sbCopy'[t] \in Configs
            BY <2>1, <3>1, SbLoads, SbGoesWith
        <3> QED
            BY <1>4, <2>1, <3>2 DEF AdoptLoads
    <2>2. CASE Over(s)
        BY <1>4, <2>2 DEF AdoptLoads
    <2> QED
        BY <1>4, <2>1, <2>2 DEF AdoptLoads
<1>5. ASSUME NEW s \in SbSession, AdoptSaves(s) PROVE SbTypes'
    <2>1. sbCopy[s] \in Configs /\ Saves(sbCopy[s])
        BY <1>5 DEF AdoptSaves, SbGo
    <2>2. sbBackend' \in BOOLEAN /\ sbManaged' \in BOOLEAN /\ sbExcused' \in BOOLEAN
        BY <2>1, SbSaves
    <2>3. /\ sbStep' \in [SbSession -> SbSteps] /\ sbCopy' \in [SbSession -> SbCopies]
          /\ \A t \in SbSession :
               sbStep'[t] \in {"adopting", "list"} => sbCopy'[t] \in Configs
        <3>1. SbGo(s, "adopting", "verify") /\ sbCopy' = [sbCopy EXCEPT ![s] = NoCopy]
            BY <1>5 DEF AdoptSaves
        <3> QED
            BY <3>1, SbLoads, SbGoesWith
    <2> QED
        BY <1>5, <2>2, <2>3 DEF AdoptSaves
<1>6. ASSUME NEW s \in SbSession, VerifyApproval(s) PROVE SbTypes'
    <2>1. CASE SbGo(s, "verify", "status") /\ SbKeep /\ sbApproved' = (sbApproved \/ ~sbDry[s])
        BY <1>6, <2>1 DEF VerifyApproval, SbFlags
    <2>2. CASE Over(s) /\ UNCHANGED sbApproved
        BY <1>6, <2>2 DEF VerifyApproval
    <2> QED
        BY <1>6, <2>1, <2>2 DEF VerifyApproval
<1>7. ASSUME NEW s \in SbSession, Status(s) PROVE SbTypes'
    <2>1. CASE /\ SbGo(s, "status", IF sbBox.n # 0 /\ ~sbBox.up THEN "remove"
                                    ELSE IF sbBox.n # 0 THEN "policy" ELSE "create")
               /\ SbKeep
        <3>1. PICK y \in {"remove", "policy", "create"} : SbGo(s, "status", y)
            BY <2>1
        <3> QED
            BY <1>7, <2>1, <3>1 DEF Status
    <2>2. CASE Over(s)
        BY <1>7, <2>2 DEF Status
    <2> QED
        BY <1>7, <2>1, <2>2 DEF Status
<1>8. ASSUME NEW s \in SbSession, RemoveStopped(s) PROVE SbTypes'
    <2>1. CASE SbGo(s, "remove", "create") /\ SbKeep /\ sbBox' = NoBox /\ sbExcused' = FALSE
        BY <1>8, <2>1 DEF RemoveStopped
    <2>2. CASE Over(s) /\ UNCHANGED <<sbBox, sbExcused>>
        BY <1>8, <2>2 DEF RemoveStopped
    <2> QED
        BY <1>8, <2>1, <2>2 DEF RemoveStopped
<1>9. ASSUME NEW s \in SbSession, Create(s) PROVE SbTypes'
    <2>1. CASE /\ SbGo(s, "create", "policy") /\ sbCount' = sbCount + 1
               /\ \E up \in BOOLEAN :
                    sbBox' = [n |-> sbCount + 1, up |-> up, policy |-> FALSE]
               /\ SbKeep /\ sbExcused' = FALSE
        <3>1. sbCount + 1 \in BoxNo
            BY <1>9 DEF Create
        <3>2. sbBox' \in Boxes
            BY <2>1, <3>1
        <3> QED
            BY <1>9, <2>1, <3>1, <3>2 DEF Create
    <2>2. CASE Over(s) /\ UNCHANGED <<sbBox, sbCount, sbExcused>>
        BY <1>9, <2>2 DEF Create
    <2> QED
        BY <1>9, <2>1, <2>2 DEF Create
<1>10. ASSUME NEW s \in SbSession, ApplyPolicy(s) PROVE SbTypes'
    <2>1. CASE sbBox.n # 0 /\ SbGo(s, "policy", "record")
                 /\ sbBox' = [sbBox EXCEPT !.policy = TRUE]
                 /\ sbOwn' = [sbOwn EXCEPT ![s] = sbBox.n]
                 /\ UNCHANGED <<sbIn, sbRetry, sbDry, sbCopy, sbExcused>>
        <3>1. sbOwn' \in [SbSession -> BoxNo]
            BY <2>1
        <3> QED
            BY <1>10, <2>1, <3>1 DEF ApplyPolicy
    <2>2. CASE Over(s) /\ UNCHANGED sbBox /\ sbExcused' = (sbExcused \/ Leaves(s))
        BY <1>10, <2>2 DEF ApplyPolicy, Leaves
    <2> QED
        BY <1>10, <2>1, <2>2 DEF ApplyPolicy
<1>11. ASSUME NEW s \in SbSession, RecordLoads(s) PROVE SbTypes'
    <2>1. CASE /\ SbGo(s, "record", "list") /\ UNCHANGED sbExcused
               /\ sbCopy' = [sbCopy EXCEPT ![s] = [Loaded EXCEPT !.managed = TRUE]]
               /\ UNCHANGED <<sbOwn, sbIn, sbRetry, sbDry>>
        <3>1. PICK c \in Configs : sbCopy' = [sbCopy EXCEPT ![s] = c]
            BY <2>1, SbLoads
        <3>2. /\ sbStep' \in [SbSession -> SbSteps] /\ sbCopy' \in [SbSession -> SbCopies]
              /\ \A t \in SbSession :
                   sbStep'[t] \in {"adopting", "list"} => sbCopy'[t] \in Configs
            BY <2>1, <3>1, SbLoads, SbGoesWith
        <3> QED
            BY <1>11, <2>1, <3>2 DEF RecordLoads
    <2>2. CASE Over(s) /\ sbExcused' = (sbExcused \/ Leaves(s))
        BY <1>11, <2>2 DEF RecordLoads, Leaves
    <2> QED
        BY <1>11, <2>1, <2>2 DEF RecordLoads
<1>12. ASSUME NEW s \in SbSession, RecordManaged(s) PROVE SbTypes'
    <2>1. CASE /\ SbGo(s, "list", "run") /\ Saves(sbCopy[s])
               /\ sbCopy' = [sbCopy EXCEPT ![s] = NoCopy]
               /\ UNCHANGED <<sbOwn, sbIn, sbRetry, sbDry>>
        <3>1. sbCopy[s] \in Configs /\ Saves(sbCopy[s])
            BY <2>1 DEF SbGo
        <3>2. sbBackend' \in BOOLEAN /\ sbManaged' \in BOOLEAN /\ sbExcused' \in BOOLEAN
            BY <3>1, SbSaves
        <3>3. /\ sbStep' \in [SbSession -> SbSteps] /\ sbCopy' \in [SbSession -> SbCopies]
              /\ \A t \in SbSession :
                   sbStep'[t] \in {"adopting", "list"} => sbCopy'[t] \in Configs
            BY <2>1, SbLoads, SbGoesWith
        <3> QED
            BY <1>12, <2>1, <3>2, <3>3 DEF RecordManaged
    <2>2. CASE Over(s) /\ UNCHANGED <<sbBackend, sbManaged>>
                 /\ sbExcused' = (sbExcused \/ Leaves(s))
        BY <1>12, <2>2 DEF RecordManaged, Leaves
    <2> QED
        BY <1>12, <2>1, <2>2 DEF RecordManaged
<1>13. ASSUME NEW s \in SbSession, Run(s) PROVE SbTypes'
    <2>1. CASE sbBox.n # 0 /\ SbGo(s, "run", "running")
                 /\ sbBox' = [sbBox EXCEPT !.up = TRUE]
                 /\ sbIn' = [sbIn EXCEPT ![s] = sbBox.n]
                 /\ UNCHANGED <<sbOwn, sbRetry, sbDry, sbCopy>>
        <3>1. sbIn' \in [SbSession -> BoxNo]
            BY <2>1
        <3> QED
            BY <1>13, <2>1, <3>1 DEF Run
    <2>2. CASE SbGo(s, "run", "stale") /\ SbKeep /\ UNCHANGED sbBox
        BY <1>13, <2>2 DEF Run
    <2>3. CASE Over(s) /\ UNCHANGED sbBox
        BY <1>13, <2>3 DEF Run
    <2> QED
        BY <1>13, <2>1, <2>2, <2>3 DEF Run
<1>14. ASSUME NEW s \in SbSession, RemoveStale(s) PROVE SbTypes'
    <2>1. CASE SbGo(s, "stale", "admit") /\ sbBox' = NoBox /\ sbExcused' = FALSE
                 /\ sbRetry' = [sbRetry EXCEPT ![s] = TRUE]
                 /\ UNCHANGED <<sbOwn, sbIn, sbDry, sbCopy>>
        <3>1. sbRetry' \in SbFlags
            BY <2>1 DEF SbFlags
        <3> QED
            BY <1>14, <2>1, <3>1 DEF RemoveStale
    <2>2. CASE Over(s) /\ UNCHANGED <<sbBox, sbExcused>>
        BY <1>14, <2>2 DEF RemoveStale
    <2> QED
        BY <1>14, <2>1, <2>2 DEF RemoveStale
<1>15. ASSUME NEW s \in SbSession, AgentExits(s) PROVE SbTypes'
    BY <1>15 DEF AgentExits
<1>16. CASE SetupLoads
    BY <1>16, SbLoads DEF SetupLoads, sbLaunches
<1>17. CASE OtherLoads
    BY <1>17, SbLoads DEF OtherLoads, sbLaunches
<1>18. CASE EditSaves
    <2>1. sbEdit \in Configs
        BY <1>18, SbLoads DEF EditSaves
    <2>2. sbBackend' \in BOOLEAN /\ sbManaged' \in BOOLEAN /\ sbExcused' \in BOOLEAN
        BY <1>18, <2>1, SbSaves DEF EditSaves
    <2> QED
        BY <1>18, <2>2, SbLoads DEF EditSaves, sbLaunches
<1>19. CASE ResetLoads
    BY <1>19 DEF ResetLoads, sbLaunches
<1>20. CASE ResetRemoves
    BY <1>20 DEF ResetRemoves, sbLaunches
<1>21. CASE ResetSaves
    BY <1>21 DEF ResetSaves, sbLaunches
<1>22. CASE UNCHANGED sbVars
    BY <1>22 DEF sbVars
<1> QED
    BY <1>1, <1>2, <1>3, <1>4, <1>5, <1>6, <1>7, <1>8, <1>9, <1>10, <1>11, <1>12, <1>13,
       <1>14, <1>15, <1>16, <1>17, <1>18, <1>19, <1>20, <1>21, <1>22 DEF SbNext

\* No sandbox is there that the configuration does not list.
LEMMA SbInvInit == SbInit => SbInv
BY DEF SbInit, SbInv, Ready, KnownToReset, NoBox, Past

\* The end of a launch takes nothing from what is known of the others.
LEMMA SbOverKeeps ==
    ASSUME SbTypes, SbInv, NEW s \in SbSession, Over(s), sbApproved => sbApproved'
    PROVE  /\ sbStep'[s] = "idle" /\ Ready'
           /\ \A t \in SbSession :
                /\ sbOwn'[t] = sbOwn[t] \/ sbOwn'[t] = 0
                /\ t # s => sbStep'[t] = sbStep[t]
<1>1. ASSUME NEW t \in SbSession, t # s
      PROVE  /\ sbStep'[t] = sbStep[t] /\ sbDry'[t] = sbDry[t] /\ sbCopy'[t] = sbCopy[t]
             /\ sbIn'[t] = sbIn[t] /\ sbOwn'[t] = sbOwn[t]
    BY <1>1 DEF SbTypes, SbFlags, Over
<1>2. sbStep'[s] = "idle" /\ sbIn'[s] = 0 /\ sbOwn'[s] = 0
    BY DEF SbTypes, Over
<1> QED
    BY <1>1, <1>2 DEF SbInv, Ready, Past

\* A launch that leaves an unlisted sandbox is excused.
LEMMA SbLeaves ==
    ASSUME SbTypes, SbInv, NEW s \in SbSession, Over(s), UNCHANGED <<sbBox, sbStore, sbRest>>,
           sbExcused' = (sbExcused \/ Leaves(s))
    PROVE  SbInv'
<1>1. KnownToReset'
    BY DEF KnownToReset, Leaves, sbStore
<1>2. /\ UNCHANGED <<sbBox, sbCount, sbReset, sbResetSaw, sbApproved>>
      /\ 0 <= sbCount
    BY SbNumbers DEF sbStore, sbRest, sbReading, SbTypes
<1>3. Ready' /\ \A t \in SbSession : sbOwn'[t] = sbOwn[t] \/ sbOwn'[t] = 0
    BY <1>2, SbOverKeeps
<1> QED
    BY <1>1, <1>2, <1>3 DEF SbInv

\* A step that loads or saves a copy, of a launch that is not running yet.
LEMMA SbCopyKeeps ==
    ASSUME SbTypes, SbInv, NEW s \in SbSession, NEW x, NEW y, NEW c \in SbCopies,
           SbGo(s, x, y), x # "running", sbCopy' = [sbCopy EXCEPT ![s] = c],
           UNCHANGED <<sbIn, sbDry, sbApproved>>,
           y \in Past => x \in Past, y = "list" => c.managed
    PROVE  Ready'
<1>1. sbStep'[s] = y /\ sbStep[s] = x /\ sbCopy'[s] = c
    BY DEF SbTypes, SbGo
<1>2. ASSUME NEW t \in SbSession, t # s
      PROVE  sbStep'[t] = sbStep[t] /\ sbCopy'[t] = sbCopy[t]
    BY <1>2 DEF SbTypes, SbGo
<1> QED
    BY <1>1, <1>2 DEF SbInv, Ready

\* A save that does not list the sandbox excuses the one that was listed.
LEMMA SbSavesKnown ==
    ASSUME SbTypes, SbInv, NEW c \in Configs, Saves(c), UNCHANGED sbBox,
           \A t \in SbSession :
              sbStep[t] \in {"policy", "record", "list"} => sbStep'[t] = sbStep[t]
    PROVE  KnownToReset'
BY SbLoads DEF SbTypes, SbInv, KnownToReset, Saves

\* A reset that overlaps a launch saves what it read only if that launch's
\* sandbox is younger than its reading.
LEMMA SbInvStep == SbTypes /\ SbInv /\ [SbNext]_sbVars => SbInv'
<1> SUFFICES ASSUME SbTypes, SbInv, [SbNext]_sbVars
             PROVE  SbInv'
    OBVIOUS
<1>a. ASSUME NEW s \in SbSession, AdoptSaves(s) PROVE Ready'
    <2>1. SbGo(s, "adopting", "verify") /\ sbCopy' = [sbCopy EXCEPT ![s] = NoCopy]
          /\ UNCHANGED <<sbIn, sbDry, sbApproved>>
        BY <1>a DEF AdoptSaves
    <2> QED
        BY <2>1, SbLoads, SbCopyKeeps DEF Past
<1>b. ASSUME NEW s \in SbSession, SbGo(s, "record", "list"),
             sbCopy' = [sbCopy EXCEPT ![s] = [Loaded EXCEPT !.managed = TRUE]],
             UNCHANGED <<sbIn, sbDry, sbApproved>>
      PROVE  Ready'
    <2>1. PICK c \in Configs : sbCopy' = [sbCopy EXCEPT ![s] = c] /\ c.managed = TRUE
        BY <1>b, SbLoads
    <2> QED
        BY <1>b, <2>1, SbLoads, SbCopyKeeps DEF Past
<1>c. ASSUME NEW s \in SbSession, SbGo(s, "list", "run"),
             sbCopy' = [sbCopy EXCEPT ![s] = NoCopy], UNCHANGED <<sbIn, sbDry, sbApproved>>
      PROVE  Ready'
    BY <1>c, SbLoads, SbCopyKeeps DEF Past
<1> USE SbNumbers, SbBoxes DEF SbTypes, SbGo, SbKeep, sbReading, sbStore, sbRest
<1>1. ASSUME NEW s \in SbSession, Route(s) PROVE SbInv'
    <2>1. PICK to \in {"admit", "approve"} : sbStep' = [sbStep EXCEPT ![s] = to]
        BY <1>1, RouteGoes
    <2>2. PICK dry \in BOOLEAN : sbDry' = [sbDry EXCEPT ![s] = dry]
        BY <1>1, RouteGoes
    <2>3. sbStep[s] = "idle"
          /\ UNCHANGED <<sbOwn, sbIn, sbRetry, sbCopy, sbBox, sbStore, sbExcused, sbRest>>
        BY <1>1, RouteGoes
    <2> QED
        BY <2>1, <2>2, <2>3 DEF SbInv, KnownToReset, Ready, Past, SbFlags
<1>2. ASSUME NEW s \in SbSession, ApproveRoute(s) PROVE SbInv'
    <2>1. CASE SbGo(s, "approve", "admit") /\ SbKeep /\ sbApproved' = (sbApproved \/ ~sbDry[s])
        BY <1>2, <2>1 DEF SbInv, KnownToReset, Ready, Past, ApproveRoute
    <2>2. CASE sbStep[s] = "approve" /\ Over(s) /\ UNCHANGED sbApproved
        BY <1>2, <2>2, SbOverKeeps DEF SbInv, KnownToReset, ApproveRoute
    <2> QED
        BY <1>2, <2>1, <2>2 DEF ApproveRoute
<1>3. ASSUME NEW s \in SbSession, Admit(s) PROVE SbInv'
    <2>1. CASE LoadHealthyBackend(s) /\ SbKeep
        BY <1>3, <2>1 DEF SbInv, KnownToReset, Ready, Past, Admit, LoadHealthyBackend
    <2>2. CASE sbStep[s] = "admit" /\ Over(s)
        BY <1>3, <2>2, SbOverKeeps DEF SbInv, KnownToReset, Admit
    <2> QED
        BY <1>3, <2>1, <2>2 DEF Admit
<1>4. ASSUME NEW s \in SbSession, AdoptLoads(s) PROVE SbInv'
    <2>1. CASE /\ SbGo(s, "adopt", "adopting")
               /\ sbCopy' = [sbCopy EXCEPT ![s] = [Loaded EXCEPT !.backend = TRUE]]
               /\ UNCHANGED <<sbOwn, sbIn, sbRetry, sbDry>>
        <3>1. PICK c \in Configs : sbCopy' = [sbCopy EXCEPT ![s] = c]
            BY <2>1, SbLoads
        <3> QED
            BY <1>4, <2>1, <3>1 DEF SbInv, KnownToReset, Ready, Past, AdoptLoads
    <2>2. CASE sbStep[s] = "adopt" /\ Over(s)
        BY <1>4, <2>2, SbOverKeeps DEF SbInv, KnownToReset, AdoptLoads
    <2> QED
        BY <1>4, <2>1, <2>2 DEF AdoptLoads
<1>5. ASSUME NEW s \in SbSession, AdoptSaves(s) PROVE SbInv'
    <2>1. sbCopy[s] \in Configs
        BY <1>5 DEF AdoptSaves
    <2>2. KnownToReset'
        BY <1>5, <2>1, SbSavesKnown DEF AdoptSaves
    <2>3. Ready'
        BY <1>5, <1>a
    <2>4. UNCHANGED <<sbOwn, sbBox, sbRest>>
        BY <1>5 DEF AdoptSaves
    <2> QED
        BY <2>2, <2>3, <2>4 DEF SbInv
<1>6. ASSUME NEW s \in SbSession, VerifyApproval(s) PROVE SbInv'
    <2>1. CASE SbGo(s, "verify", "status") /\ SbKeep /\ sbApproved' = (sbApproved \/ ~sbDry[s])
        BY <1>6, <2>1 DEF SbInv, KnownToReset, Ready, Past, VerifyApproval
    <2>2. CASE sbStep[s] = "verify" /\ Over(s) /\ UNCHANGED sbApproved
        BY <1>6, <2>2, SbOverKeeps DEF SbInv, KnownToReset, VerifyApproval
    <2> QED
        BY <1>6, <2>1, <2>2 DEF VerifyApproval
<1>7. ASSUME NEW s \in SbSession, Status(s) PROVE SbInv'
    <2>1. CASE /\ SbGo(s, "status", IF sbBox.n # 0 /\ ~sbBox.up THEN "remove"
                                    ELSE IF sbBox.n # 0 THEN "policy" ELSE "create")
               /\ SbKeep
        <3>1. PICK y \in {"remove", "policy", "create"} : SbGo(s, "status", y)
            BY <2>1
        <3> QED
            BY <1>7, <2>1, <3>1 DEF SbInv, KnownToReset, Ready, Past, Status
    <2>2. CASE sbStep[s] = "status" /\ Over(s)
        BY <1>7, <2>2, SbOverKeeps DEF SbInv, KnownToReset, Status
    <2> QED
        BY <1>7, <2>1, <2>2 DEF Status
<1>8. ASSUME NEW s \in SbSession, RemoveStopped(s) PROVE SbInv'
    <2>1. CASE SbGo(s, "remove", "create") /\ SbKeep /\ sbBox' = NoBox /\ sbExcused' = FALSE
        BY <1>8, <2>1 DEF SbInv, KnownToReset, Ready, Past, RemoveStopped
    <2>2. CASE sbStep[s] = "remove" /\ Over(s) /\ UNCHANGED <<sbBox, sbExcused>>
        BY <1>8, <2>2, SbOverKeeps DEF SbInv, KnownToReset, RemoveStopped
    <2> QED
        BY <1>8, <2>1, <2>2 DEF RemoveStopped
<1>9. ASSUME NEW s \in SbSession, Create(s) PROVE SbInv'
    <2>1. CASE /\ sbBox.n = 0 /\ SbGo(s, "create", "policy") /\ sbCount' = sbCount + 1
               /\ \E up \in BOOLEAN :
                    sbBox' = [n |-> sbCount + 1, up |-> up, policy |-> FALSE]
               /\ SbKeep /\ sbExcused' = FALSE
        <3>1. sbBox'.n = sbCount + 1 /\ sbCount \in Nat
            BY <1>9, <2>1 DEF Create
        <3>2. sbStep'[s] = "policy"
            BY <2>1
        <3>3. KnownToReset'
            BY <3>2 DEF KnownToReset
        <3>4. sbResetSaw \in Nat /\ sbResetSaw' = sbResetSaw /\ sbReset' = sbReset
            BY <1>9 DEF Create
        <3>5. ASSUME NEW t \in SbSession
              PROVE  sbOwn'[t] = sbOwn[t] /\ sbOwn[t] \in Nat
            BY <2>1
        <3>6. Ready'
            BY <1>9, <2>1 DEF SbInv, Ready, Past, Create
        <3> QED
            BY <2>1, <3>1, <3>3, <3>4, <3>5, <3>6 DEF SbInv
    <2>2. CASE sbStep[s] = "create" /\ Over(s) /\ UNCHANGED <<sbBox, sbCount, sbExcused>>
        BY <1>9, <2>2, SbOverKeeps DEF SbInv, KnownToReset, Create
    <2> QED
        BY <1>9, <2>1, <2>2 DEF Create
<1>10. ASSUME NEW s \in SbSession, ApplyPolicy(s) PROVE SbInv'
    <2>1. CASE sbBox.n # 0 /\ SbGo(s, "policy", "record")
                 /\ sbBox' = [sbBox EXCEPT !.policy = TRUE]
                 /\ sbOwn' = [sbOwn EXCEPT ![s] = sbBox.n]
                 /\ UNCHANGED <<sbIn, sbRetry, sbDry, sbCopy, sbExcused>>
        <3>1. sbStep'[s] = "record" /\ sbStep[s] = "policy" /\ sbOwn'[s] = sbBox.n
            BY <2>1
        <3>2. ASSUME NEW t \in SbSession, t # s
              PROVE  sbStep'[t] = sbStep[t] /\ sbOwn'[t] = sbOwn[t]
            BY <2>1, <3>2
        <3>3. sbBox'.n = sbBox.n /\ sbBox'.policy /\ UNCHANGED <<sbStore, sbRest>>
            BY <1>10, <2>1 DEF ApplyPolicy
        <3>4. KnownToReset'
            BY <3>1 DEF KnownToReset
        <3>5. Ready'
            BY <2>1, <3>1, <3>2, <3>3 DEF SbInv, Ready, Past
        <3>6. \A t \in SbSession : /\ sbOwn'[t] <= sbCount'
                                   /\ sbOwn'[t] # 0 /\ sbOwn'[t] = sbBox'.n => sbBox'.policy
            BY <3>1, <3>2, <3>3 DEF SbInv
        <3> QED
            BY <3>3, <3>4, <3>5, <3>6 DEF SbInv
    <2>2. CASE sbStep[s] = "policy" /\ Over(s) /\ UNCHANGED sbBox
                 /\ sbExcused' = (sbExcused \/ Leaves(s))
        <3>1. UNCHANGED <<sbBox, sbStore, sbRest>>
            BY <1>10, <2>2 DEF ApplyPolicy
        <3> QED
            BY <2>2, <3>1, SbLeaves
    <2> QED
        BY <1>10, <2>1, <2>2 DEF ApplyPolicy
<1>11. ASSUME NEW s \in SbSession, RecordLoads(s) PROVE SbInv'
    <2>1. CASE /\ SbGo(s, "record", "list") /\ UNCHANGED sbExcused
               /\ sbCopy' = [sbCopy EXCEPT ![s] = [Loaded EXCEPT !.managed = TRUE]]
               /\ UNCHANGED <<sbOwn, sbIn, sbRetry, sbDry>>
        <3>3. KnownToReset'
            BY <2>1 DEF KnownToReset
        <3>4. UNCHANGED <<sbOwn, sbBox, sbStore, sbRest>>
            BY <1>11, <2>1 DEF RecordLoads
        <3>5. Ready'
            BY <1>b, <2>1, <3>4
        <3> QED
            BY <3>3, <3>4, <3>5 DEF SbInv
    <2>2. CASE sbStep[s] = "record" /\ Over(s) /\ sbExcused' = (sbExcused \/ Leaves(s))
        <3>1. UNCHANGED <<sbBox, sbStore, sbRest>>
            BY <1>11, <2>2 DEF RecordLoads
        <3> QED
            BY <2>2, <3>1, SbLeaves
    <2> QED
        BY <1>11, <2>1, <2>2 DEF RecordLoads
<1>12. ASSUME NEW s \in SbSession, RecordManaged(s) PROVE SbInv'
    <2>1. CASE /\ SbGo(s, "list", "run") /\ Saves(sbCopy[s])
               /\ sbCopy' = [sbCopy EXCEPT ![s] = NoCopy]
               /\ UNCHANGED <<sbOwn, sbIn, sbRetry, sbDry>>
        <3>1. sbCopy[s] \in Configs /\ sbCopy[s].managed
            BY <2>1 DEF SbInv, Ready
        <3>2. KnownToReset'
            <4>1. sbManaged'
                BY <2>1, <3>1 DEF Saves
            <4> QED
                BY <4>1 DEF KnownToReset
        <3>3. UNCHANGED <<sbOwn, sbBox, sbApproved, sbRest>>
            BY <1>12, <2>1 DEF RecordManaged
        <3>4. Ready'
            BY <1>c, <2>1, <3>3
        <3> QED
            BY <3>2, <3>3, <3>4 DEF SbInv
    <2>2. CASE sbStep[s] = "list" /\ Over(s) /\ UNCHANGED <<sbBackend, sbManaged>>
                 /\ sbExcused' = (sbExcused \/ Leaves(s))
        <3>1. UNCHANGED <<sbBox, sbStore, sbRest>>
            BY <1>12, <2>2 DEF RecordManaged
        <3> QED
            BY <2>2, <3>1, SbLeaves
    <2> QED
        BY <1>12, <2>1, <2>2 DEF RecordManaged
<1>13. ASSUME NEW s \in SbSession, Run(s) PROVE SbInv'
    <2>1. CASE sbBox.n # 0 /\ SbGo(s, "run", "running")
                 /\ sbBox' = [sbBox EXCEPT !.up = TRUE]
                 /\ sbIn' = [sbIn EXCEPT ![s] = sbBox.n]
                 /\ UNCHANGED <<sbOwn, sbRetry, sbDry, sbCopy>>
        BY <1>13, <2>1 DEF SbInv, KnownToReset, Ready, Past, Run
    <2>2. CASE SbGo(s, "run", "stale") /\ SbKeep /\ UNCHANGED sbBox
        BY <1>13, <2>2 DEF SbInv, KnownToReset, Ready, Past, Run
    <2>3. CASE sbStep[s] = "run" /\ Over(s) /\ UNCHANGED sbBox
        BY <1>13, <2>3, SbOverKeeps DEF SbInv, KnownToReset, Run
    <2> QED
        BY <1>13, <2>1, <2>2, <2>3 DEF Run
<1>14. ASSUME NEW s \in SbSession, RemoveStale(s) PROVE SbInv'
    <2>1. CASE SbGo(s, "stale", "admit") /\ sbBox' = NoBox /\ sbExcused' = FALSE
                 /\ sbRetry' = [sbRetry EXCEPT ![s] = TRUE]
                 /\ UNCHANGED <<sbOwn, sbIn, sbDry, sbCopy>>
        BY <1>14, <2>1 DEF SbInv, KnownToReset, Ready, Past, RemoveStale
    <2>2. CASE sbStep[s] = "stale" /\ Over(s) /\ UNCHANGED <<sbBox, sbExcused>>
        BY <1>14, <2>2, SbOverKeeps DEF SbInv, KnownToReset, RemoveStale
    <2> QED
        BY <1>14, <2>1, <2>2 DEF RemoveStale
<1>15. ASSUME NEW s \in SbSession, AgentExits(s) PROVE SbInv'
    <2>1. sbBox'.n = sbBox.n /\ sbBox'.policy = sbBox.policy
        BY <1>15 DEF AgentExits
    <2>2. sbStep[s] = "running" /\ Over(s) /\ UNCHANGED <<sbStore, sbExcused, sbRest>>
        BY <1>15 DEF AgentExits
    <2> QED
        BY <2>1, <2>2, SbOverKeeps DEF SbInv, KnownToReset
<1>16. CASE SetupLoads
    BY <1>16 DEF SbInv, KnownToReset, Ready, Past, SetupLoads, sbLaunches
<1>17. CASE OtherLoads
    BY <1>17 DEF SbInv, KnownToReset, Ready, Past, OtherLoads, sbLaunches
<1>18. CASE EditSaves
    <2>1. sbEdit \in Configs
        BY <1>18, SbLoads DEF EditSaves
    <2>2. KnownToReset'
        <3>1. CASE Saves(sbEdit)
            BY <1>18, <2>1, <3>1, SbSavesKnown DEF EditSaves, sbLaunches
        <3>2. CASE UNCHANGED <<sbBackend, sbManaged, sbExcused>>
            BY <1>18, <3>2 DEF SbInv, KnownToReset, EditSaves, sbLaunches
        <3> QED
            BY <1>18, <3>1, <3>2 DEF EditSaves
    <2> QED
        BY <1>18, <2>2 DEF SbInv, Ready, Past, EditSaves, sbLaunches
<1>19. CASE ResetLoads
    BY <1>19 DEF SbInv, KnownToReset, Ready, Past, ResetLoads, sbLaunches
<1>20. CASE ResetRemoves
    BY <1>20 DEF SbInv, KnownToReset, Ready, Past, ResetRemoves, sbLaunches
<1>21. CASE ResetSaves
    BY <1>21 DEF SbInv, KnownToReset, Ready, Past, ResetSaves, sbLaunches
<1>22. CASE UNCHANGED sbVars
    BY <1>22 DEF SbInv, KnownToReset, Ready, Past, sbVars
<1> QED
    BY <1>1, <1>2, <1>3, <1>4, <1>5, <1>6, <1>7, <1>8, <1>9, <1>10, <1>11, <1>12, <1>13,
       <1>14, <1>15, <1>16, <1>17, <1>18, <1>19, <1>20, <1>21, <1>22 DEF SbNext

\* Sandboxes of sandbox.go and internal/runtime/docker: for any number of launches
\* that overlap with one another and with a reset.
THEOREM SandboxesAreKnown ==
    SbSpec => [](SbTypeOK /\ KnownToReset /\ PreparedRunsAreConfined)
<1>1. SbTypes /\ SbInv => SbTypeOK /\ KnownToReset /\ PreparedRunsAreConfined
    BY SbTypesAre DEF SbInv, Ready, SbTypes, PreparedRunsAreConfined, Past
<1> QED
    BY <1>1, SbTypeInit, SbTypeStep, SbInvInit, SbInvStep, PTL DEF SbSpec

----------------------------------------------------------------------------
(* LinuxLaunch.                                                            *)

\* Whether a process of the run enforces, or is there to have its result taken.
Enforces == IF AgentLane THEN llHelper = "run" ELSE llRunner = "waiting"

Launched == <<"planned", "launched">>

\* The agent is started by a process that has gone through all stages, which the
\* runner waits for; the phases in the metadata are those it has been through.
LlInv ==
    /\ LlTypeOK /\ AgentLane \in BOOLEAN
    /\ llRunner = "start" => /\ llHelper = "none" /\ llPos = 0 /\ llAgent = "none"
                             /\ llMeta = <<>> /\ llResult = "none"
    /\ llRunner # "ended" => llResult = "none"
    /\ ~AgentLane => llHelper = "none"
    /\ llHelper = "sudo" => llMeta = <<>> /\ llPos = 0 /\ llAgent = "none"
    /\ llHelper \in {"sudo", "run"} => llRunner = "waiting"
    /\ Enforces /\ llPos < 8 => llMeta = Launched
    /\ llMeta # <<>> /\ llMeta # Launched => llPos >= 8
    /\ llAgent # "none" => llPos = 9
    /\ llAgent = "running" => Enforces
    /\ llRunner = "ended" => llHelper \in {"none", "dead"} /\ llAgent # "running"
    /\ llResult = "exited" => llPos > 7

Phase == {"planned", "launched", "contained"}

\* A phase is appended to two.
LEMMA PairThenOne ==
    ASSUME NEW s \in Seq(Phase), NEW t \in Seq(Phase), Len(s) = 2, Len(t) = 1
    PROVE  /\ s \o t \in Seq(Phase) /\ Len(s \o t) = 3
           /\ (s \o t)[1] = s[1] /\ (s \o t)[2] = s[2] /\ (s \o t)[3] = t[1]
<1> DEFINE u == s \o t
<1>1. /\ u \in Seq(Phase) /\ Len(u) = Len(s) + Len(t)
      /\ \A i \in 1..(Len(s) + Len(t)) : u[i] = IF i <= Len(s) THEN s[i] ELSE t[i - Len(s)]
    BY ConcatProperties
<1> HIDE DEF u
<1>2. Len(u) = 3 /\ \A i \in 1..3 : u[i] = IF i <= 2 THEN s[i] ELSE t[i - 2]
    BY <1>1
<1>3. u[1] = s[1] /\ u[2] = s[2] /\ u[3] = t[1]
    BY <1>2
<1> QED
    BY <1>1, <1>2, <1>3 DEF u

\* The metadata after the last phase has been recorded.
LEMMA LaunchedThenContained ==
    Launched \o <<"contained">> = <<"planned", "launched", "contained">>
<1> DEFINE t == <<"contained">>
           u == <<"planned", "launched", "contained">>
           v == Launched \o t
<1>1. Launched \in Seq(Phase)
    BY DEF Launched, Phase
<1>2. Len(Launched) = 2
    BY DEF Launched
<1>3. Launched[1] = "planned" /\ Launched[2] = "launched"
    BY DEF Launched
<1>4. t \in Seq(Phase)
    BY DEF Phase
<1>5. Len(t) = 1
    OBVIOUS
<1>6. t[1] = "contained"
    OBVIOUS
<1>7. u \in Seq(Phase)
    BY DEF Phase
<1>8. Len(u) = 3
    OBVIOUS
<1>9. u[1] = "planned" /\ u[2] = "launched" /\ u[3] = "contained"
    OBVIOUS
<1>10. /\ v \in Seq(Phase) /\ Len(v) = 3
       /\ v[1] = Launched[1] /\ v[2] = Launched[2] /\ v[3] = t[1]
    <2> HIDE DEF t
    <2> QED
        BY <1>1, <1>2, <1>4, <1>5, PairThenOne
<1> HIDE DEF t, u, v
<1>11. v = u
    BY <1>3, <1>6, <1>7, <1>8, <1>9, <1>10, SeqEqual
<1> QED
    BY <1>11 DEF t, u, v

\* A run starts outside, with no phase recorded.
LEMMA LlInvInit == LlInit => LlInv
<1> SUFFICES ASSUME LlInit PROVE LlInv
    OBVIOUS
<1>1. Len(enforceSteps) = 7
    BY DEF enforceSteps
<1>2. llRun.lane \in Lanes
    BY DEF LlInit
<1>3. AgentLane \in BOOLEAN
    BY DEF AgentLane
<1>4. /\ llRunner = "start" /\ llHelper = "none" /\ llPos = 0 /\ llMeta = <<>>
      /\ llAgent = "none" /\ llCancelled = FALSE /\ llResult = "none"
    BY DEF LlInit
<1>5. LlTypeOK
    <2>1. llPos \in 0 .. Len(enforceSteps) + 2
        BY <1>1, <1>4
    <2>2. llMeta \in {<<>>, <<"planned", "launched">>, <<"planned", "launched", "contained">>}
        BY <1>4
    <2> QED
        BY <1>2, <1>4, <2>1, <2>2 DEF LlTypeOK
<1> QED
    BY <1>3, <1>4, <1>5 DEF LlInv, Enforces

\* Every step keeps it: the position only moves on, one stage after another.
LEMMA LlInvStep == LlInv /\ [LlNext]_llVars => LlInv'
<1> SUFFICES ASSUME LlInv, [LlNext]_llVars
             PROVE  LlInv'
    OBVIOUS
<1>a. /\ Len(enforceSteps) = 7 /\ DOMAIN enforceSteps = 1..7
    BY DEF enforceSteps
<1>b1. Launched \o <<"contained">> = <<"planned", "launched", "contained">>
    BY LaunchedThenContained
<1>b2. Launched # <<>>
    BY DEF Launched
<1>b3. <<"planned", "launched", "contained">> # Launched
    BY DEF Launched
<1> USE <1>a DEF LlInv, LlTypeOK, AgentLane, Enforces, EnforcingAt
<1>1. CASE Refuse
    BY <1>1 DEF Refuse
<1>2. CASE EndCancelledEarly
    BY <1>2 DEF EndCancelledEarly, writeTerminalResult
<1>3. CASE RunCurrentUser
    BY <1>3 DEF RunCurrentUser, Launched
<1>4. CASE RunAgentUser
    BY <1>4 DEF RunAgentUser
<1>5. CASE SudoRefuses
    BY <1>5 DEF SudoRefuses
<1>6. CASE RunAgentUserRootHelper
    BY <1>6 DEF RunAgentUserRootHelper, Launched
<1>7. CASE EnforceStage
    BY <1>7 DEF EnforceStage
<1>8. CASE StageFails
    BY <1>8 DEF StageFails, GiveUp, writeTerminalResult
<1>9. CASE RecordContained
    BY <1>9, <1>b1, <1>b2, <1>b3 DEF RecordContained
<1>10. CASE RecordRefused
    BY <1>10 DEF RecordRefused, ReturnUnrecorded
<1>11. CASE Exec
    BY <1>11 DEF Exec
<1>12. CASE ExecFails
    BY <1>12 DEF ExecFails, writeTerminalResult
<1>13. CASE AgentEnds
    BY <1>13 DEF AgentEnds
<1>14. CASE Cancel
    BY <1>14 DEF Cancel
<1>15. CASE Conclude
    BY <1>15, <1>b1, <1>b2, <1>b3 DEF Conclude, CommandReturned, writeTerminalResult, validateRunMetadata
<1>16. CASE UNCHANGED llVars
    BY <1>16 DEF llVars
<1> QED
    BY <1>1, <1>2, <1>3, <1>4, <1>5, <1>6, <1>7, <1>8, <1>9, <1>10, <1>11, <1>12, <1>13,
       <1>14, <1>15, <1>16 DEF LlNext

\* The result of internal/runtime/linux: on either lane, "exited" means enforced.
THEOREM LinuxResultIsTruthful == LlSpec => [](LlTypeOK /\ ResultIsTruthful)
<1>0. Len(enforceSteps) = 7
    BY DEF enforceSteps
<1>1. LlInv => LlTypeOK /\ ResultIsTruthful
    BY <1>0 DEF LlInv, LlTypeOK, ResultIsTruthful
<1> QED
    BY <1>1, LlInvInit, LlInvStep, PTL DEF LlSpec

----------------------------------------------------------------------------
(* Transcripts.                                                            *)

TrFiles == [kind : {"missing", "symlink", "other", "file"}, recs : SUBSET Nat,
            at : Nat, whole : BOOLEAN]
TrHomes == [Transcript -> TrFiles]
TrEntries == [Transcript -> Nat]
TrIndexes == [host : TrEntries, agent : TrEntries, read : TrEntries, merged : TrEntries]
TrStages == [file : TrFiles, mention : Mention, side : Mention \cup {"absent"}, ready : BOOLEAN]
TrExports == {"idle", "copy", "sidecar", "normalise", "install", "clear", "bundle", "index"}

\* The shapes of the state, without their bounds.
TrShapes ==
    /\ trClock \in Nat /\ trCount \in Nat
    /\ trHost \in TrHomes /\ trAgent \in TrHomes /\ trSeen \in TrHomes /\ trStat \in TrFiles
    /\ trIndex \in TrIndexes /\ trStage \in TrStages
    /\ trTodo \subseteq Transcript /\ trHand \in trTodo \cup {NoTranscript}
    /\ trWrite \in BOOLEAN /\ (trWrite => trHand # NoTranscript)
    /\ trExport \in TrExports /\ (trExport # "idle" => trPick \in Transcript)

\* What a file is.
LEMMA FilesAre ==
    ASSUME NEW f \in TrFiles
    PROVE  /\ f.kind \in {"missing", "symlink", "other", "file"} /\ f.recs \in SUBSET Nat
           /\ f.at \in Nat /\ f.whole \in BOOLEAN
BY DEF TrFiles

\* What is a file.
LEMMA FilesMade ==
    ASSUME NEW kind \in {"missing", "symlink", "other", "file"}, NEW recs \in SUBSET Nat,
           NEW at \in Nat, NEW whole \in BOOLEAN
    PROVE  [kind |-> kind, recs |-> recs, at |-> at, whole |-> whole] \in TrFiles
BY DEF TrFiles

\* A file with one of its fields changed.
LEMMA FilesChanged ==
    ASSUME NEW f \in TrFiles
    PROVE  /\ \A kind \in {"missing", "symlink", "other", "file"} :
                  /\ [f EXCEPT !.kind = kind] \in TrFiles
                  /\ [f EXCEPT !.kind = kind].recs = f.recs
                  /\ [f EXCEPT !.kind = kind].kind = kind
           /\ \A at \in Nat : /\ [f EXCEPT !.at = at] \in TrFiles
                              /\ [f EXCEPT !.at = at].recs = f.recs
                              /\ [f EXCEPT !.at = at].kind = f.kind
                              /\ [f EXCEPT !.at = at].at = at
           /\ /\ [f EXCEPT !.whole = TRUE] \in TrFiles
              /\ [f EXCEPT !.whole = TRUE].recs = f.recs
              /\ [f EXCEPT !.whole = TRUE].kind = f.kind
              /\ [f EXCEPT !.whole = TRUE].at = f.at
BY DEF TrFiles

\* A file with another time.
LEMMA FilesRetimed ==
    ASSUME NEW f \in TrFiles, NEW at \in Nat
    PROVE  /\ [f EXCEPT !.at = at] \in TrFiles
           /\ [f EXCEPT !.at = at].recs = f.recs /\ [f EXCEPT !.at = at].kind = f.kind
           /\ [f EXCEPT !.at = at].at = at
BY DEF TrFiles

\* A home with one of its transcripts changed.
LEMMA HomesChanged ==
    ASSUME NEW home \in TrHomes, NEW t \in Transcript, NEW f \in TrFiles
    PROVE  /\ [home EXCEPT ![t] = f] \in TrHomes
           /\ [home EXCEPT ![t] = f][t] = f
           /\ \A u \in Transcript \ {t} : [home EXCEPT ![t] = f][u] = home[u]
BY DEF TrHomes

\* What a home holds, and what an empty one does.
LEMMA HomesAre ==
    /\ \A home \in TrHomes, t \in Transcript : home[t] \in TrFiles
    /\ \A f \in TrFiles : [t \in Transcript |-> f] \in TrHomes
    /\ Absent \in TrFiles /\ Absent.recs = {} /\ Absent.kind = "missing"
BY DEF TrHomes, TrFiles, Absent

\* The index is four lists of entries.
LEMMA IndexesAre ==
    /\ \A i \in TrIndexes : /\ i.host \in TrEntries /\ i.agent \in TrEntries
                            /\ i.read \in TrEntries /\ i.merged \in TrEntries
    /\ \A i \in TrIndexes, e \in TrEntries : [i EXCEPT !.host = e] \in TrIndexes
    /\ \A i \in TrIndexes, e \in TrEntries : [i EXCEPT !.agent = e] \in TrIndexes
    /\ NoEntries \in TrEntries
    /\ \A e \in TrEntries, t \in Transcript, n \in Nat : [e EXCEPT ![t] = n] \in TrEntries
BY DEF TrIndexes, TrEntries, NoEntries

\* An entry of the host's or of the agent's index changed.
LEMMA IndexesChanged ==
    ASSUME NEW i \in TrIndexes, NEW t \in Transcript, NEW n \in Nat
    PROVE  /\ [i EXCEPT !.host[t] = n] \in TrIndexes
           /\ [i EXCEPT !.agent[t] = n] \in TrIndexes
<1>1. /\ [i.host EXCEPT ![t] = n] \in TrEntries
      /\ [i.agent EXCEPT ![t] = n] \in TrEntries
    BY IndexesAre
<1> QED
    BY <1>1, IndexesAre

\* What the export stages.
LEMMA StagesAre ==
    /\ NoStage \in TrStages
    /\ \A st \in TrStages : st.file \in TrFiles /\ st.mention \in Mention
                            /\ st.side \in Mention \cup {"absent"}
BY HomesAre DEF TrStages, NoStage, Mention

\* A time without its fraction is a time.
LEMMA TruncatedIs == \A n \in Nat : Truncated(n) \in Nat
BY DEF Truncated

\* The homes have their shapes at first.
LEMMA TrShapesInit == TrInit => TrShapes
<1> SUFFICES ASSUME TrInit PROVE TrShapes
    OBVIOUS
<1>1. trAgent \in TrHomes
    <2>1. PICK kind \in {"missing", "symlink", "other"} :
              trAgent = [t \in Transcript |-> [Absent EXCEPT !.kind = kind]]
        BY DEF TrInit
    <2>2. [Absent EXCEPT !.kind = kind] \in TrFiles
        BY HomesAre, FilesChanged
    <2> QED
        BY <2>1, <2>2, HomesAre
<1>2. /\ trHost \in TrHomes /\ trSeen \in TrHomes /\ trStat \in TrFiles
      /\ trStage \in TrStages
    BY HomesAre, StagesAre DEF TrInit
<1>3. trIndex \in TrIndexes
    BY IndexesAre DEF TrInit, TrIndexes
<1> QED
    BY <1>1, <1>2, <1>3 DEF TrInit, TrShapes, TrExports

\* The actions of the harnesses, of the resume and of the export.
HarnessSteps == Tick \/ \E t \in Transcript : HostAppends(t) \/ AgentAppends(t) \/ AgentEndsLine(t)
ResumeSteps == ListHost \/ \E t \in Transcript : Inspect(t) \/ Decide(t) \/ Write(t)
ExportSteps ==
    \/ ExportSelects \/ StageTranscript \/ StageSidecar \/ Normalise \/ ExportFails
    \/ InstallTranscript \/ ClearSidecars \/ CopySidecars \/ UpsertIndex \/ ExportDies

\* A record appended to a file.
LEMMA AppendedIs ==
    ASSUME NEW f \in TrFiles, NEW whole \in BOOLEAN, trClock \in Nat, trCount \in Nat
    PROVE  /\ Appended(f, whole) \in TrFiles
           /\ Appended(f, whole).recs = f.recs \cup {trCount + 1}
           /\ Appended(f, whole).kind = "file" /\ Appended(f, whole).at = trClock
BY DEF Appended, TrFiles

\* The harnesses keep the shapes of the state.
LEMMA HarnessStepsShapes == TrShapes /\ HarnessSteps => TrShapes'
<1> SUFFICES ASSUME TrShapes, HarnessSteps PROVE TrShapes'
    OBVIOUS
<1> USE DEF TrShapes, trResume, trExporting
<1>1. CASE Tick
    BY <1>1 DEF Tick
<1>2. ASSUME NEW t \in Transcript, HostAppends(t) PROVE TrShapes'
    <2>1. Appended(trHost[t], TRUE) \in TrFiles
        BY AppendedIs, HomesAre
    <2>2. trHost' \in TrHomes
        BY <1>2, <2>1, HomesChanged DEF HostAppends
    <2>3. trIndex' \in TrIndexes
        <3>1. (IF trHarness = "codex" THEN trClock ELSE 0) \in Nat
            OBVIOUS
        <3> QED
            BY <1>2, <3>1, IndexesChanged DEF HostAppends
    <2> QED
        BY <1>2, <2>2, <2>3 DEF HostAppends
<1>3. ASSUME NEW t \in Transcript, AgentAppends(t) PROVE TrShapes'
    <2> PICK whole \in BOOLEAN :
            trAgent' = [trAgent EXCEPT ![t] = Appended(trAgent[t], whole)]
        BY <1>3 DEF AgentAppends
    <2>1. Appended(trAgent[t], whole) \in TrFiles
        BY AppendedIs, HomesAre
    <2>2. trAgent' \in TrHomes
        BY <2>1, HomesChanged
    <2>3. trIndex' \in TrIndexes
        <3>1. (IF trHarness = "codex" THEN trClock ELSE 0) \in Nat
            OBVIOUS
        <3> QED
            BY <1>3, <3>1, IndexesChanged DEF AgentAppends
    <2> QED
        BY <1>3, <2>2, <2>3 DEF AgentAppends
<1>4. ASSUME NEW t \in Transcript, AgentEndsLine(t) PROVE TrShapes'
    <2>1. trAgent' \in TrHomes
        BY <1>4, HomesAre, FilesChanged, HomesChanged DEF AgentEndsLine
    <2> QED
        BY <1>4, <2>1 DEF AgentEndsLine
<1> QED
    BY <1>1, <1>2, <1>3, <1>4 DEF HarnessSteps

\* So does a resume.
LEMMA ResumeStepsShapes == TrShapes /\ ResumeSteps => TrShapes'
<1> SUFFICES ASSUME TrShapes, ResumeSteps PROVE TrShapes'
    OBVIOUS
<1> USE DEF TrShapes, trExporting
<1>1. CASE ListHost
    <2>1. trTodo' \subseteq Transcript
        BY <1>1 DEF ListHost, Selected, Latest, Present
    <2> QED
        BY <1>1, <2>1 DEF ListHost
<1>0. TrForget /\ trTodo' \subseteq Transcript => trSeen' \in TrHomes
    BY HomesAre DEF TrForget
<1>2. ASSUME NEW t \in Transcript, Inspect(t) PROVE TrShapes'
    <2>1. trStat' \in TrFiles
        BY <1>2, HomesAre, FilesAre, TruncatedIs, FilesChanged DEF Inspect
    <2> QED
        BY <1>2, <2>1, TranscriptAssumption DEF Inspect
<1>3. ASSUME NEW t \in Transcript, Decide(t) PROVE TrShapes'
    <2>1. CASE trWrite' = TRUE /\ UNCHANGED <<trTodo, trHand, trStat>>
        BY <1>3, <1>0, <2>1, TranscriptAssumption DEF Decide
    <2>2. CASE /\ trTodo' \subseteq trTodo /\ UNCHANGED trWrite
               /\ trHand' = NoTranscript /\ trStat' = Absent
        BY <1>3, <1>0, <2>2, HomesAre DEF Decide
    <2> QED
        BY <1>3, <2>1, <2>2 DEF Decide
<1>4. ASSUME NEW t \in Transcript, Write(t) PROVE TrShapes'
    <2>1. File(trHost[t].recs, Truncated(trSeen[t].at)) \in TrFiles
        <3>1. trHost[t].recs \in SUBSET Nat /\ Truncated(trSeen[t].at) \in Nat
            BY HomesAre, FilesAre, TruncatedIs
        <3> QED
            BY <3>1, FilesMade DEF File
    <2>2. trAgent' \in TrHomes
        BY <1>4, <2>1, HomesChanged DEF Write
    <2> QED
        BY <1>4, <1>0, <2>2, HomesAre DEF Write
<1> QED
    BY <1>1, <1>2, <1>3, <1>4 DEF ResumeSteps

\* So does the merge of the index.
LEMMA IndexStepsShapes == TrShapes /\ (MergeIndex \/ WriteIndex) => TrShapes'
<1> SUFFICES ASSUME TrShapes, MergeIndex \/ WriteIndex PROVE TrShapes'
    OBVIOUS
<1>1. trIndex' \in TrIndexes
    <2>1. CASE MergeIndex
        BY <2>1 DEF MergeIndex, TrShapes, TrIndexes, TrEntries
    <2>2. CASE WriteIndex
        BY <2>2 DEF WriteIndex, TrShapes, TrIndexes, TrEntries, NoEntries
    <2> QED
        BY <2>1, <2>2
<1> QED
    BY <1>1 DEF TrShapes, MergeIndex, WriteIndex, trResume, trExporting

\* What is staged is the agent's transcript, with the time of the copying.
LEMMA StagedIs ==
    ASSUME TrShapes, StageTranscript
    PROVE  /\ trPick \in Transcript /\ trStage' \in TrStages
           /\ trStage'.file.recs = trAgent[trPick].recs
           /\ trStage'.file.kind = trAgent[trPick].kind /\ trStage'.file.at = trClock
<1>1. trPick \in Transcript /\ trClock \in Nat /\ trAgent[trPick] \in TrFiles
    BY HomesAre DEF StageTranscript, TrShapes
<1>2. PICK f \in TrFiles : /\ f = [trAgent[trPick] EXCEPT !.at = trClock]
                           /\ f.recs = trAgent[trPick].recs /\ f.kind = trAgent[trPick].kind
                           /\ f.at = trClock
    BY <1>1, FilesRetimed
<1>3. PICK m \in Mention : trStage' = [NoStage EXCEPT !.file = f, !.mention = m]
    BY <1>2 DEF StageTranscript
<1>4. trStage' \in TrStages /\ trStage'.file = f
    BY <1>3 DEF TrStages, NoStage
<1> QED
    BY <1>1, <1>2, <1>4

\* What is normalised holds the same records, at most with a later time.
LEMMA NormalisedIs ==
    ASSUME TrShapes, Normalise
    PROVE  /\ trStage' \in TrStages
           /\ trStage'.file.recs = trStage.file.recs /\ trStage'.file.kind = trStage.file.kind
           /\ trStage'.file.at = trStage.file.at \/ trStage'.file.at = trClock
           /\ trStage'.mention = Rewritten(trStage.mention)
           /\ trStage'.side = KeptSidecar(trStage.side)
<1> DEFINE when == IF trStage.mention = Rewritten(trStage.mention) THEN trStage.file.at
                   ELSE trClock
           file == [trStage.file EXCEPT !.at = when]
           mention == Rewritten(trStage.mention)
           side == KeptSidecar(trStage.side)
<1>1. trStage \in TrStages /\ trStage.file \in TrFiles /\ when \in Nat
    BY StagesAre, FilesAre DEF TrShapes
<1>2. mention \in Mention /\ side \in Mention \cup {"absent"}
    BY StagesAre DEF TrShapes, Rewritten, KeptSidecar, Mention
<1>3. trStage' = [[[[trStage EXCEPT !.file = file] EXCEPT !.mention = mention]
                      EXCEPT !.side = side] EXCEPT !.ready = TRUE]
    BY <1>1 DEF Normalise, TrStages
<1>4. when = trStage.file.at \/ when = trClock
    OBVIOUS
<1> HIDE DEF when, mention, side
<1>5. /\ file \in TrFiles /\ file.recs = trStage.file.recs /\ file.kind = trStage.file.kind
      /\ file.at = when
    BY <1>1, FilesRetimed
<1> HIDE DEF file
<1>6. /\ trStage' \in TrStages /\ trStage'.file = file
      /\ trStage'.mention = mention /\ trStage'.side = side
    BY <1>1, <1>2, <1>3, <1>5 DEF TrStages
<1> QED
    BY <1>4, <1>5, <1>6 DEF mention, side

\* So does an export.
LEMMA ExportStepsShapes == TrShapes /\ ExportSteps => TrShapes'
<1> SUFFICES ASSUME TrShapes, ExportSteps PROVE TrShapes'
    OBVIOUS
<1> USE DEF TrShapes, trResume, TrExports
<1>1. CASE ExportSelects
    BY <1>1, StagesAre DEF ExportSelects, Present
<1>2. CASE StageTranscript
    BY <1>2, StagedIs DEF StageTranscript, TrShapes
<1>3. CASE StageSidecar
    <2>1. trStage' \in TrStages
        BY <1>3 DEF StageSidecar, TrStages
    <2> QED
        BY <1>3, <2>1 DEF StageSidecar
<1>4. CASE Normalise
    BY <1>4, NormalisedIs DEF Normalise, TrShapes
<1>5. CASE ExportFails
    BY <1>5, StagesAre DEF ExportFails
<1>6. CASE InstallTranscript
    <2>1. File(trStage.file.recs, trStage.file.at) \in TrFiles
        <3>1. trStage.file.recs \in SUBSET Nat /\ trStage.file.at \in Nat
            BY StagesAre, FilesAre
        <3> QED
            BY <3>1, FilesMade DEF File
    <2>2. trHost' \in TrHomes
        BY <1>6, <2>1, HomesChanged DEF InstallTranscript
    <2> QED
        BY <1>6, <2>2 DEF InstallTranscript
<1>7. CASE ClearSidecars
    BY <1>7 DEF ClearSidecars
<1>8. CASE CopySidecars
    BY <1>8 DEF CopySidecars
<1>9. CASE UpsertIndex
    BY <1>9, StagesAre DEF UpsertIndex
<1>10. CASE ExportDies
    BY <1>10, StagesAre DEF ExportDies
<1> QED
    BY <1>1, <1>2, <1>3, <1>4, <1>5, <1>6, <1>7, <1>8, <1>9, <1>10 DEF ExportSteps

\* These are all the steps.
LEMMA TrStepsAre == TrNext <=> HarnessSteps \/ ResumeSteps \/ MergeIndex \/ WriteIndex \/ ExportSteps
BY DEF TrNext, HarnessSteps, ResumeSteps, ExportSteps

\* Every step keeps the shapes of the state.
LEMMA TrShapesStep == TrShapes /\ [TrNext]_trVars => TrShapes'
<1>1. TrShapes /\ UNCHANGED trVars => TrShapes'
    BY DEF TrShapes, trVars
<1> QED
    BY <1>1, TrStepsAre, HarnessStepsShapes, ResumeStepsShapes, IndexStepsShapes, ExportStepsShapes

\* Records are numbered as they are appended, and only a file has any.
Older(f) == f.recs \subseteq 1..trCount /\ (f.kind # "file" => f.recs = {})

TrOlder ==
    /\ \A t \in Transcript : Older(trHost[t]) /\ Older(trAgent[t]) /\ Older(trSeen[t])
    /\ Older(trStat) /\ Older(trStage.file)

\* What is older stays so.
LEMMA OlderGrows ==
    ASSUME trCount \in Nat, trCount' \in Nat, trCount <= trCount', NEW f, Older(f)
    PROVE  Older(f)'
BY DEF Older

\* What is not there has no records.
LEMMA AbsentIsOlder == Older(Absent)
BY DEF Older, Absent

\* Nothing is recorded at first.
LEMMA TrOlderInit == TrInit => TrOlder
<1> SUFFICES ASSUME TrInit PROVE TrOlder
    OBVIOUS
<1>1. \A t \in Transcript : trAgent[t].recs = {}
    <2>1. PICK kind \in {"missing", "symlink", "other"} :
              trAgent = [t \in Transcript |-> [Absent EXCEPT !.kind = kind]]
        BY DEF TrInit
    <2>2. [Absent EXCEPT !.kind = kind].recs = {}
        BY HomesAre, FilesChanged
    <2> QED
        BY <2>1, <2>2
<1> QED
    BY <1>1, AbsentIsOlder DEF TrInit, TrOlder, Older, NoStage

\* What a harness appends, and where.
LEMMA HostAppendsIs ==
    ASSUME TrShapes, NEW u \in Transcript, HostAppends(u)
    PROVE  /\ trHost'[u].recs = trHost[u].recs \cup {trCount + 1} /\ trHost'[u].kind = "file"
           /\ \A t \in Transcript \ {u} : trHost'[t] = trHost[t]
           /\ trCount' = trCount + 1
           /\ UNCHANGED <<trHarness, trAgent, trResume, trExporting, trSide>>
<1>1. PICK whole \in BOOLEAN : trHost' = [trHost EXCEPT ![u] = Appended(trHost[u], whole)]
    BY DEF HostAppends
<1>2. Appended(trHost[u], whole) \in TrFiles
    BY AppendedIs, HomesAre DEF TrShapes
<1>3. /\ trHost'[u] = Appended(trHost[u], whole)
      /\ \A t \in Transcript \ {u} : trHost'[t] = trHost[t]
    BY <1>1, <1>2, HomesChanged DEF TrShapes
<1>4. trHost'[u].recs = trHost[u].recs \cup {trCount + 1} /\ trHost'[u].kind = "file"
    BY <1>3 DEF Appended
<1> QED
    BY <1>3, <1>4 DEF HostAppends

\* What the harness of the agent appends.
LEMMA AgentAppendsIs ==
    ASSUME TrShapes, NEW u \in Transcript, AgentAppends(u)
    PROVE  /\ trAgent'[u].recs = trAgent[u].recs \cup {trCount + 1} /\ trAgent'[u].kind = "file"
           /\ \A t \in Transcript \ {u} : trAgent'[t] = trAgent[t]
           /\ trCount' = trCount + 1
           /\ UNCHANGED <<trHarness, trHost, trResume, trExporting, trSide>>
<1>1. PICK whole \in BOOLEAN : trAgent' = [trAgent EXCEPT ![u] = Appended(trAgent[u], whole)]
    BY DEF AgentAppends
<1>2. Appended(trAgent[u], whole) \in TrFiles
    BY AppendedIs, HomesAre DEF TrShapes
<1>3. /\ trAgent'[u] = Appended(trAgent[u], whole)
      /\ \A t \in Transcript \ {u} : trAgent'[t] = trAgent[t]
    BY <1>1, <1>2, HomesChanged DEF TrShapes
<1>4. trAgent'[u].recs = trAgent[u].recs \cup {trCount + 1} /\ trAgent'[u].kind = "file"
    BY <1>3 DEF Appended
<1> QED
    BY <1>3, <1>4 DEF AgentAppends

\* The end of a line changes no record.
LEMMA AgentEndsIs ==
    ASSUME TrShapes, NEW u \in Transcript, AgentEndsLine(u)
    PROVE  /\ \A t \in Transcript : /\ trAgent'[t].recs = trAgent[t].recs
                                    /\ trAgent'[t].kind = trAgent[t].kind
                                    /\ trAgent'[t].at = trAgent[t].at
           /\ UNCHANGED <<trHarness, trCount, trHost, trResume, trExporting, trSide>>
<1>1. trAgent' = [trAgent EXCEPT ![u] = [trAgent[u] EXCEPT !.whole = TRUE]]
    BY DEF AgentEndsLine
<1>2. trAgent[u] \in TrFiles
    BY HomesAre DEF TrShapes
<1>3. PICK f \in TrFiles : /\ f = [trAgent[u] EXCEPT !.whole = TRUE]
                           /\ f.recs = trAgent[u].recs /\ f.kind = trAgent[u].kind
                           /\ f.at = trAgent[u].at
    BY <1>2, FilesChanged
<1>4. trAgent'[u] = f /\ \A t \in Transcript \ {u} : trAgent'[t] = trAgent[t]
    <2>1. trAgent' = [trAgent EXCEPT ![u] = f]
        BY <1>1, <1>3, Zenon
    <2> QED
        BY <2>1, HomesChanged DEF TrShapes
<1> QED
    BY <1>3, <1>4 DEF AgentEndsLine

\* A resume looks at the agent's file before it decides.
LEMMA InspectIs ==
    ASSUME TrShapes, NEW u \in Transcript, Inspect(u)
    PROVE  /\ trStat'.recs = trAgent[u].recs /\ trStat'.kind = trAgent[u].kind
           /\ trStat'.at = Truncated(trAgent[u].at)
           /\ trHand = NoTranscript /\ trHand' = u /\ u \in trTodo
           /\ UNCHANGED <<trHarness, trCount, trHost, trAgent, trTodo, trSeen, trWrite,
                          trExporting, trSide>>
<1>1. trAgent[u] \in TrFiles /\ Truncated(trAgent[u].at) \in Nat
    BY HomesAre, FilesAre, TruncatedIs DEF TrShapes
<1> QED
    BY <1>1, FilesChanged DEF Inspect

\* It writes the host's records, with the time it had listed.
LEMMA WriteIs ==
    ASSUME TrShapes, NEW u \in Transcript, Write(u)
    PROVE  /\ trAgent'[u].recs = trHost[u].recs /\ trAgent'[u].kind = "file"
           /\ \A t \in Transcript \ {u} : trAgent'[t] = trAgent[t]
           /\ trHand = u /\ trHand' = NoTranscript /\ trTodo' = trTodo \ {u} /\ trWrite
           /\ trStat' = Absent
           /\ UNCHANGED <<trHarness, trCount, trHost, trExporting, trSide>>
<1>1. trHost[u].recs \in SUBSET Nat /\ Truncated(trSeen[u].at) \in Nat
    BY HomesAre, FilesAre, TruncatedIs DEF TrShapes
<1>2. File(trHost[u].recs, Truncated(trSeen[u].at)) \in TrFiles
    BY <1>1, FilesMade DEF File
<1>3. trAgent' = [trAgent EXCEPT ![u] = File(trHost[u].recs, Truncated(trSeen[u].at))]
    BY DEF Write
<1>4. /\ trAgent'[u] = File(trHost[u].recs, Truncated(trSeen[u].at))
      /\ \A t \in Transcript \ {u} : trAgent'[t] = trAgent[t]
    BY <1>2, <1>3, HomesChanged DEF TrShapes
<1> QED
    BY <1>4 DEF Write, File

\* An export installs what it staged.
LEMMA InstallIs ==
    ASSUME TrShapes, InstallTranscript
    PROVE  /\ trPick \in Transcript
           /\ trHost'[trPick].recs = trStage.file.recs /\ trHost'[trPick].kind = "file"
           /\ \A t \in Transcript \ {trPick} : trHost'[t] = trHost[t]
           /\ trExport = "install" /\ trExport' = "clear"
           /\ UNCHANGED <<trHarness, trCount, trAgent, trResume, trPick, trStage, trSide>>
<1>1. trPick \in Transcript
    BY DEF TrShapes, InstallTranscript
<1>2. trStage.file.recs \in SUBSET Nat /\ trStage.file.at \in Nat
    BY StagesAre, FilesAre DEF TrShapes
<1>3. File(trStage.file.recs, trStage.file.at) \in TrFiles
    BY <1>2, FilesMade DEF File
<1>4. trHost' = [trHost EXCEPT ![trPick] = File(trStage.file.recs, trStage.file.at)]
    BY DEF InstallTranscript
<1>5. /\ trHost'[trPick] = File(trStage.file.recs, trStage.file.at)
      /\ \A t \in Transcript \ {trPick} : trHost'[t] = trHost[t]
    BY <1>1, <1>3, <1>4, HomesChanged DEF TrShapes
<1> QED
    BY <1>1, <1>5 DEF InstallTranscript, File

SameRecords(f, g) == f.recs = g.recs /\ f.kind = g.kind

\* An export step other than the installing leaves everything but the export alone;
\* what it stages is the agent's transcript, and stays what was staged.
LEMMA ExportIs ==
    ASSUME TrShapes, ExportSteps, ~InstallTranscript
    PROVE  /\ UNCHANGED <<trHarness, trClock, trCount, trHost, trAgent, trResume, trIndex>>
           /\ \/ SameRecords(trStage'.file, trStage.file)
              \/ trStage' = NoStage
              \/ /\ trExport' = "sidecar" /\ trPick' = trPick /\ trPick \in Transcript
                 /\ SameRecords(trStage'.file, trAgent[trPick])
           /\ trExport' \in {"sidecar", "normalise", "install"} =>
                \/ /\ trExport' = "sidecar" /\ trPick' = trPick
                   /\ SameRecords(trStage'.file, trAgent[trPick])
                \/ /\ trExport \in {"sidecar", "normalise", "install"}
                   /\ trPick' = trPick /\ SameRecords(trStage'.file, trStage.file)
<1> USE DEF trResume, SameRecords
<1>1. CASE StageTranscript
    BY <1>1, StagedIs DEF StageTranscript
<1>2. CASE StageSidecar
    <2>1. trStage'.file = trStage.file
        BY <1>2 DEF StageSidecar, TrShapes, TrStages
    <2> QED
        BY <1>2, <2>1 DEF StageSidecar
<1>3. CASE Normalise
    BY <1>3, NormalisedIs DEF Normalise
<1>4. CASE ExportSelects \/ ExportFails \/ UpsertIndex \/ ExportDies
    BY <1>4 DEF ExportSelects, ExportFails, UpsertIndex, ExportDies
<1>5. CASE ClearSidecars \/ CopySidecars
    BY <1>5 DEF ClearSidecars, CopySidecars
<1> QED
    BY <1>1, <1>2, <1>3, <1>4, <1>5 DEF ExportSteps

\* A resume refreshes the file, or lets it be.
LEMMA DecideIs ==
    ASSUME TrShapes, NEW u \in Transcript, Decide(u)
    PROVE  /\ trHand = u /\ ~trWrite
           /\ UNCHANGED <<trHarness, trCount, trHost, trAgent, trExporting, trSide>>
           /\ \/ /\ ShouldRefresh(u) /\ trWrite'
                 /\ UNCHANGED <<trTodo, trHand, trStat, trSeen>>
              \/ /\ trTodo' \subseteq trTodo /\ trHand' = NoTranscript /\ trStat' = Absent
                 /\ ~trWrite'
<1>1. u \in trTodo \/ trHand # u
    BY TranscriptAssumption DEF TrShapes
<1> QED
    BY <1>1 DEF Decide, TrForget

\* Every step keeps it: records only move between files.
LEMMA TrOlderStep == TrShapes /\ TrOlder /\ [TrNext]_trVars => TrOlder'
<1> SUFFICES ASSUME TrShapes, TrOlder, [TrNext]_trVars PROVE TrOlder'
    OBVIOUS
<1> USE DEF trResume, trExporting
<1>0. TrShapes'
    BY TrShapesStep
<1>1. CASE UNCHANGED trVars
    BY <1>1 DEF trVars, TrOlder, Older
<1>2. CASE Tick \/ MergeIndex \/ WriteIndex
    BY <1>2 DEF Tick, MergeIndex, WriteIndex, TrOlder, Older
<1>3. ASSUME NEW u \in Transcript, HostAppends(u) PROVE TrOlder'
    BY <1>3, HostAppendsIs DEF TrOlder, Older, TrShapes
<1>4. ASSUME NEW u \in Transcript, AgentAppends(u) PROVE TrOlder'
    BY <1>4, AgentAppendsIs DEF TrOlder, Older, TrShapes
<1>5. ASSUME NEW u \in Transcript, AgentEndsLine(u) PROVE TrOlder'
    BY <1>5, AgentEndsIs DEF TrOlder, Older
<1>6. CASE ListHost
    BY <1>6 DEF ListHost, TrOlder, Older
<1>7. ASSUME NEW u \in Transcript, Inspect(u) PROVE TrOlder'
    BY <1>7, InspectIs DEF TrOlder, Older
<1>8. TrForget => \A t \in Transcript : trSeen'[t] = trSeen[t] \/ trSeen'[t] = Absent
    BY DEF TrForget
<1>9. ASSUME NEW u \in Transcript, Decide(u) PROVE TrOlder'
    <2>1. TrForget
        BY <1>9 DEF Decide
    <2>2. trStat' = trStat \/ trStat' = Absent
        BY <1>9, DecideIs
    <2> QED
        BY <1>8, <1>9, <2>1, <2>2, DecideIs, AbsentIsOlder DEF TrOlder, Older
<1>10. ASSUME NEW u \in Transcript, Write(u) PROVE TrOlder'
    <2>1. TrForget
        BY <1>10 DEF Write
    <2> QED
        BY <1>8, <1>10, <2>1, WriteIs, AbsentIsOlder DEF TrOlder, Older
<1>11. CASE InstallTranscript
    BY <1>11, InstallIs DEF TrOlder, Older
<1>12. CASE ExportSteps /\ ~InstallTranscript
    <2>1. NoStage.file = Absent
        BY DEF NoStage
    <2> QED
        BY <1>12, <2>1, ExportIs, AbsentIsOlder DEF TrOlder, Older, SameRecords
<1> QED
    BY <1>1, <1>2, <1>3, <1>4, <1>5, <1>6, <1>7, <1>9, <1>10, <1>11, <1>12, TrStepsAre
       DEF HarnessSteps, ResumeSteps

----------------------------------------------------------------------------
\* What is known of a transcript that a resume has listed. A staged copy was taken
\* from the agent since, or no export has replaced the host's file since; and
\* what is about to be overwritten is older, or is in what overwrites it.
ResumeStands(t) ==
    /\ Staged(t) => \/ trStage.file.recs \subseteq trAgent[t].recs
                    \/ trSeen[t].recs \subseteq trHost[t].recs
    /\ trHand = t =>
         /\ trStat.recs \subseteq trAgent[t].recs
         /\ trAgent[t].recs = trStat.recs => trStat.at = Truncated(trAgent[t].at)
         /\ Staged(t) => \/ trStage.file.recs \subseteq trStat.recs
                         \/ trStat.recs \subseteq trStage.file.recs
                         \/ trSeen[t].recs \subseteq trHost[t].recs
         /\ trWrite /\ trAgent[t].recs = trStat.recs =>
              \/ trStat.recs = {} \/ trSeen[t].at > trStat.at
              \/ /\ trSeen[t].recs \subseteq trHost[t].recs => trStat.recs \subseteq trHost[t].recs
                 /\ Staged(t) /\ trSeen[t].recs \subseteq trStage.file.recs =>
                      trStat.recs \subseteq trStage.file.recs

TrInv == TrShapes /\ TrOlder /\ \A t \in trTodo : ResumeStands(t)

\* A file with the size of one that holds it is that file.
LEMMA SameSizeSame ==
    ASSUME trCount \in Nat, NEW f, NEW g, Older(f), Older(g),
           f.recs \subseteq g.recs, Cardinality(f.recs) = Cardinality(g.recs)
    PROVE  f.recs = g.recs
<1>1. IsFiniteSet(1..trCount)
    <2>1. 1 \in Int /\ trCount \in Int
        OBVIOUS
    <2> QED
        BY <2>1, FS_Interval
<1>2. IsFiniteSet(g.recs)
    BY <1>1, FS_Subset DEF Older
<1> QED
    BY <1>2, FS_Subset

\* No resume is under way.
LEMMA TrInvInit == TrInit => TrInv
BY TrShapesInit, TrOlderInit DEF TrInit, TrInv

\* A step that moves neither the files nor the resume.
LEMMA ResumeStandsStill ==
    ASSUME NEW t \in Transcript, ResumeStands(t),
           trHost'[t].recs = trHost[t].recs, trAgent'[t].recs = trAgent[t].recs,
           trAgent'[t].at = trAgent[t].at, trSeen' = trSeen, trStat' = trStat,
           trHand' = trHand, trWrite' = trWrite, trHarness' = trHarness,
           Staged(t)' => Staged(t) /\ trStage'.file.recs = trStage.file.recs
    PROVE  ResumeStands(t)'
BY DEF ResumeStands, Truncated

\* What the host's harness appends meanwhile is in no file a resume has seen.
LEMMA HostAppendsStands ==
    ASSUME TrInv, NEW u \in Transcript, HostAppends(u), NEW t \in trTodo
    PROVE  ResumeStands(t)'
<1>1. /\ trHost'[u].recs = trHost[u].recs \cup {trCount + 1}
      /\ \A r \in Transcript \ {u} : trHost'[r] = trHost[r]
      /\ UNCHANGED <<trHarness, trAgent, trTodo, trSeen, trStat, trHand, trWrite,
                     trExport, trPick, trStage>>
    BY HostAppendsIs DEF TrInv, trResume, trExporting
<1>2. t \in Transcript /\ ResumeStands(t) /\ (Staged(t)' <=> Staged(t))
    BY <1>1 DEF TrInv, TrShapes, Staged
<1>3. CASE t # u
    BY <1>1, <1>2, <1>3, ResumeStandsStill
<1>4. CASE t = u
    <2>1. trCount + 1 \notin trSeen[t].recs
        BY <1>2 DEF TrInv, TrShapes, TrOlder, Older
    <2>2. trHost[t].recs \subseteq trHost'[t].recs
        BY <1>1, <1>4
    <2>3. trSeen[t].recs \subseteq trHost'[t].recs <=> trSeen[t].recs \subseteq trHost[t].recs
        BY <1>1, <1>4, <2>1
    <2> QED
        BY <1>1, <1>2, <2>2, <2>3 DEF ResumeStands, Truncated
<1> QED
    BY <1>3, <1>4

\* What the agent appends meanwhile makes its file differ from the one looked at.
LEMMA AgentAppendsStands ==
    ASSUME TrInv, NEW u \in Transcript, AgentAppends(u), NEW t \in trTodo
    PROVE  ResumeStands(t)'
<1>1. /\ trAgent'[u].recs = trAgent[u].recs \cup {trCount + 1}
      /\ \A r \in Transcript \ {u} : trAgent'[r] = trAgent[r]
      /\ UNCHANGED <<trHarness, trHost, trTodo, trSeen, trStat, trHand, trWrite,
                     trExport, trPick, trStage>>
    BY AgentAppendsIs DEF TrInv, trResume, trExporting
<1>2. t \in Transcript /\ ResumeStands(t) /\ (Staged(t)' <=> Staged(t))
    BY <1>1 DEF TrInv, TrShapes, Staged
<1>3. CASE t # u
    BY <1>1, <1>2, <1>3, ResumeStandsStill
<1>4. CASE t = u
    <2>1. trCount + 1 \notin trStat.recs
        BY <1>2 DEF TrInv, TrShapes, TrOlder, Older
    <2>2. trAgent[t].recs \subseteq trAgent'[t].recs /\ trAgent'[t].recs # trStat.recs
        BY <1>1, <1>4, <2>1
    <2> QED
        BY <1>1, <1>2, <2>2 DEF ResumeStands
<1> QED
    BY <1>3, <1>4

\* What has just been looked at is as it is.
LEMMA InspectStands ==
    ASSUME TrInv, NEW u \in Transcript, Inspect(u), NEW t \in trTodo
    PROVE  ResumeStands(t)'
<1>1. /\ trStat'.recs = trAgent[u].recs /\ trStat'.at = Truncated(trAgent[u].at)
      /\ trHand = NoTranscript /\ trHand' = u
      /\ UNCHANGED <<trHarness, trHost, trAgent, trTodo, trSeen, trWrite,
                     trExport, trPick, trStage>>
    BY InspectIs DEF TrInv, trExporting
<1>2. t \in Transcript /\ ResumeStands(t) /\ (Staged(t)' <=> Staged(t)) /\ ~trWrite
    BY <1>1 DEF TrInv, TrShapes, Staged
<1>3. CASE t # u
    BY <1>1, <1>2, <1>3 DEF ResumeStands
<1>4. CASE t = u
    BY <1>1, <1>2, <1>4 DEF ResumeStands, Truncated
<1> QED
    BY <1>3, <1>4

\* The decision compares what it looked at with what it listed.
LEMMA DecideStands ==
    ASSUME TrInv, NEW u \in Transcript, Decide(u), NEW t \in trTodo'
    PROVE  ResumeStands(t)'
<1>1. /\ trHand = u /\ ~trWrite
      /\ UNCHANGED <<trHarness, trHost, trAgent, trExport, trPick, trStage>>
    BY DecideIs DEF TrInv, trExporting
<1>2. t \in trTodo /\ t \in Transcript /\ ResumeStands(t) /\ (Staged(t)' <=> Staged(t))
      /\ trSeen' = trSeen
    <2>1. t \in trTodo /\ t \in Transcript
        BY DecideIs DEF TrInv, TrShapes
    <2>2. trSeen' = trSeen
        BY DEF Decide, TrForget
    <2> QED
        BY <1>1, <2>1, <2>2 DEF TrInv, Staged
<1>3. CASE ShouldRefresh(u) /\ trWrite' /\ UNCHANGED <<trTodo, trHand, trStat>>
    <2>1. CASE t # u
        BY <1>1, <1>2, <1>3, <2>1 DEF ResumeStands
    <2>2. CASE t = u
        <3>1. ASSUME trAgent[t].recs = trStat.recs
              PROVE  \/ trStat.recs = {} \/ trSeen[t].at > trStat.at
                     \/ /\ trSeen[t].recs \subseteq trHost[t].recs =>
                             trStat.recs \subseteq trHost[t].recs
                        /\ Staged(t) /\ trSeen[t].recs \subseteq trStage.file.recs =>
                             trStat.recs \subseteq trStage.file.recs
            <4>1. CASE trStat.kind \in {"missing", "symlink"}
                BY <4>1 DEF TrInv, TrOlder, Older
            <4>2. CASE trSeen[t].at > trStat.at
                BY <4>2
            <4>3. CASE SameContents(t)
                <5>1. trHost[t].recs = trStat.recs
                      /\ Cardinality(trSeen[t].recs) = Cardinality(trStat.recs)
                    BY <3>1, <4>3 DEF SameContents
                <5>2. trSeen[t].recs \subseteq trStat.recs => trSeen[t].recs = trStat.recs
                    BY <1>2, <5>1, SameSizeSame DEF TrInv, TrOlder, TrShapes
                <5> QED
                    BY <1>1, <1>2, <2>2, <5>1, <5>2 DEF ResumeStands
            <4> QED
                BY <1>3, <2>2, <4>1, <4>2, <4>3 DEF ShouldRefresh
        <3> QED
            BY <1>1, <1>2, <1>3, <2>2, <3>1 DEF ResumeStands, Truncated
    <2> QED
        BY <2>1, <2>2
<1>4. CASE trHand' = NoTranscript
    <2>1. t # trHand'
        BY <1>2, <1>4, TranscriptAssumption
    <2> QED
        BY <1>1, <1>2, <2>1 DEF ResumeStands
<1> QED
    BY <1>3, <1>4, DecideIs DEF TrInv

\* What is written has been dealt with.
LEMMA WriteStands ==
    ASSUME TrInv, NEW u \in Transcript, Write(u), NEW t \in trTodo'
    PROVE  ResumeStands(t)'
<1>1. /\ \A r \in Transcript \ {u} : trAgent'[r] = trAgent[r]
      /\ trHand' = NoTranscript /\ trTodo' = trTodo \ {u}
      /\ UNCHANGED <<trHarness, trHost, trExport, trPick, trStage>>
    BY WriteIs DEF TrInv, trExporting
<1>2. t \in trTodo /\ t \in Transcript /\ t # u /\ trSeen' = trSeen
    BY <1>1 DEF TrInv, TrShapes, Write, TrForget
<1>3. ResumeStands(t) /\ (Staged(t)' <=> Staged(t)) /\ t # NoTranscript
    BY <1>1, <1>2, TranscriptAssumption DEF TrInv, Staged
<1> QED
    BY <1>1, <1>2, <1>3 DEF ResumeStands

\* What has just been listed is as it is.
LEMMA ListStands ==
    ASSUME TrInv, ListHost, NEW t \in trTodo'
    PROVE  ResumeStands(t)'
<1>1. trHand' = NoTranscript /\ trSeen' = trHost /\ trHost' = trHost
    <2>1. trHand \in trTodo \cup {NoTranscript}
        BY DEF TrInv, TrShapes
    <2>2. trTodo = {} /\ trHand' = trHand /\ trSeen' = trHost /\ trHost' = trHost
        BY DEF ListHost
    <2> QED
        BY <2>1, <2>2
<1>2. t \in Transcript /\ t # NoTranscript
    <2>1. TrShapes'
        BY ResumeStepsShapes DEF TrInv, ResumeSteps
    <2> QED
        BY <2>1, TranscriptAssumption DEF TrShapes
<1> QED
    BY <1>1, <1>2 DEF ResumeStands

\* The export installs a copy of the agent's file, which holds what was looked at.
LEMMA InstallStands ==
    ASSUME TrInv, InstallTranscript, NEW t \in trTodo
    PROVE  ResumeStands(t)'
<1>1. /\ trHost'[trPick].recs = trStage.file.recs
      /\ \A r \in Transcript \ {trPick} : trHost'[r] = trHost[r]
      /\ trExport = "install" /\ trExport' = "clear"
      /\ UNCHANGED <<trHarness, trAgent, trTodo, trSeen, trStat, trHand, trWrite, trPick, trStage>>
    BY InstallIs DEF TrInv, trResume
<1>2. t \in Transcript /\ ResumeStands(t) /\ ~Staged(t)'
    BY <1>1 DEF TrInv, TrShapes, Staged
<1>3. CASE t # trPick
    BY <1>1, <1>2, <1>3, ResumeStandsStill
<1>4. CASE t = trPick
    <2>1. Staged(t)
        BY <1>1, <1>4 DEF Staged
    <2> QED
        BY <1>1, <1>2, <1>4, <2>1 DEF ResumeStands, Truncated
<1> QED
    BY <1>3, <1>4

\* The other steps of the export move no file.
LEMMA ExportStands ==
    ASSUME TrInv, ExportSteps, ~InstallTranscript, NEW t \in trTodo
    PROVE  ResumeStands(t)'
<1>1. /\ UNCHANGED <<trHarness, trHost, trAgent, trTodo, trSeen, trStat, trHand, trWrite>>
      /\ Staged(t)' => \/ trStage'.file.recs = trAgent[t].recs
                       \/ Staged(t) /\ trStage'.file.recs = trStage.file.recs
    BY ExportIs DEF TrInv, Staged, trResume, SameRecords
<1>2. t \in Transcript /\ ResumeStands(t)
    BY DEF TrInv, TrShapes
<1>3. CASE Staged(t)' => Staged(t) /\ trStage'.file.recs = trStage.file.recs
    BY <1>1, <1>2, <1>3, ResumeStandsStill
<1>4. CASE trStage'.file.recs = trAgent[t].recs
    BY <1>1, <1>2, <1>4 DEF ResumeStands, Truncated
<1> QED
    BY <1>1, <1>3, <1>4

\* Every step keeps it, resume and export racing or not.
LEMMA TrInvStep == TrInv /\ [TrNext]_trVars => TrInv'
<1> SUFFICES ASSUME TrInv, [TrNext]_trVars PROVE TrInv'
    OBVIOUS
<1>1. TrShapes' /\ TrOlder'
    BY TrShapesStep, TrOlderStep DEF TrInv
<1>2. ASSUME NEW t \in trTodo' PROVE ResumeStands(t)'
    <2>0. trTodo \subseteq Transcript
        BY DEF TrInv, TrShapes
    <2>1. CASE UNCHANGED trVars \/ Tick \/ MergeIndex \/ WriteIndex
        <3>1. /\ UNCHANGED <<trHarness, trHost, trAgent, trTodo, trSeen, trStat, trHand,
                             trWrite, trExport, trPick, trStage>>
            BY <2>1 DEF trVars, Tick, MergeIndex, WriteIndex, trResume, trExporting
        <3>2. Staged(t)' => Staged(t)
            BY <3>1 DEF Staged
        <3> QED
            BY <2>0, <3>1, <3>2, ResumeStandsStill DEF TrInv
    <2>2. ASSUME NEW u \in Transcript, AgentEndsLine(u) PROVE ResumeStands(t)'
        <3>1. /\ \A r \in Transcript : /\ trAgent'[r].recs = trAgent[r].recs
                                       /\ trAgent'[r].at = trAgent[r].at
              /\ UNCHANGED <<trHarness, trHost, trTodo, trSeen, trStat, trHand,
                             trWrite, trExport, trPick, trStage>>
            BY <2>2, AgentEndsIs DEF TrInv, trResume, trExporting
        <3>2. Staged(t)' => Staged(t)
            BY <3>1 DEF Staged
        <3> QED
            BY <2>0, <3>1, <3>2, ResumeStandsStill DEF TrInv
    <2>3. ASSUME NEW u \in Transcript, HostAppends(u) \/ AgentAppends(u) \/ Inspect(u)
          PROVE  ResumeStands(t)'
        <3>1. trTodo' = trTodo
            BY <2>3 DEF HostAppends, AgentAppends, Inspect, trResume
        <3> QED
            BY <2>3, <3>1, HostAppendsStands, AgentAppendsStands, InspectStands
    <2>4. ASSUME NEW u \in Transcript, Decide(u) \/ Write(u) PROVE ResumeStands(t)'
        BY <2>4, DecideStands, WriteStands
    <2>5. CASE ListHost
        BY <2>5, ListStands
    <2>6. CASE ExportSteps
        <3>1. trTodo' = trTodo
            BY <2>6, ExportIs, InstallIs DEF TrInv, trResume
        <3> QED
            BY <2>6, <3>1, InstallStands, ExportStands
    <2> QED
        BY <2>1, <2>2, <2>3, <2>4, <2>5, <2>6, TrStepsAre DEF HarnessSteps, ResumeSteps
<1> QED
    BY <1>1, <1>2 DEF TrInv

\* What the export has normalised, and what the merge of the index has kept.
ExportClean ==
    /\ trSide \in {"absent", "old", "none"}
    /\ trExport \in {"install", "clear", "bundle", "index"} =>
         trStage.mention = "none" /\ trStage.side \in {"none", "absent"}

MergeKeeps ==
    trIndex.merged # NoEntries =>
        \A t \in Transcript : trIndex.merged[t] >= trIndex.read[t]

\* Only what has been normalised is installed.
LEMMA ExportCleanStep == TrShapes /\ ExportClean /\ [TrNext]_trVars => ExportClean'
<1> SUFFICES ASSUME TrShapes, ExportClean, [TrNext]_trVars PROVE ExportClean'
    OBVIOUS
<1>1. CASE \/ UNCHANGED trVars \/ MergeIndex \/ WriteIndex \/ HarnessSteps \/ ResumeSteps
    <2>1. UNCHANGED <<trSide, trExport, trStage>>
        BY <1>1 DEF trVars, trExporting, MergeIndex, WriteIndex, HarnessSteps, ResumeSteps, Tick,
           HostAppends, AgentAppends, AgentEndsLine, ListHost, Inspect, Decide, Write
    <2> QED
        BY <2>1 DEF ExportClean
<1>2. CASE Normalise
    <2>2. trStage'.mention = Rewritten(trStage.mention) /\ trStage'.side = KeptSidecar(trStage.side)
        BY <1>2, NormalisedIs
    <2>3. trStage.mention \in Mention /\ trStage.side \in Mention \cup {"absent"}
        BY StagesAre DEF TrShapes
    <2>4. Rewritten(trStage.mention) = "none" /\ KeptSidecar(trStage.side) \in {"none", "absent"}
        BY <1>2, <2>3 DEF Normalise, Rewritten, KeptSidecar, Mention
    <2> QED
        BY <1>2, <2>2, <2>4 DEF Normalise, ExportClean
<1>3. CASE ExportSteps /\ ~Normalise
    BY <1>3 DEF ExportSteps, ExportSelects, StageTranscript, StageSidecar, ExportFails,
       InstallTranscript, ClearSidecars, CopySidecars, UpsertIndex, ExportDies, ExportClean
<1> QED
    BY <1>1, <1>2, <1>3, TrStepsAre

\* The merge takes the later of the two times.
LEMMA MergeKeepsStep == TrShapes /\ MergeKeeps /\ [TrNext]_trVars => MergeKeeps'
<1> SUFFICES ASSUME TrShapes, MergeKeeps, [TrNext]_trVars PROVE MergeKeeps'
    OBVIOUS
<1>1. CASE MergeIndex
    <2>1. /\ trIndex'.read = trIndex.agent
          /\ trIndex'.merged = [t \in Transcript |->
                IF trIndex.host[t] > trIndex.agent[t] THEN trIndex.host[t] ELSE trIndex.agent[t]]
        BY <1>1 DEF MergeIndex, TrShapes, TrIndexes
    <2>2. \A t \in Transcript : trIndex.host[t] \in Nat /\ trIndex.agent[t] \in Nat
        BY DEF TrShapes, TrIndexes, TrEntries
    <2> QED
        BY <2>1, <2>2 DEF MergeKeeps
<1>2. CASE WriteIndex
    BY <1>2 DEF WriteIndex, MergeKeeps, TrShapes, TrIndexes
<1>3. CASE UNCHANGED trVars \/ HarnessSteps \/ ResumeSteps \/ ExportSteps
    <2>1. trIndex'.merged = trIndex.merged /\ trIndex'.read = trIndex.read
        <3>1. ASSUME NEW u \in Transcript, HostAppends(u) \/ AgentAppends(u)
              PROVE  trIndex'.merged = trIndex.merged /\ trIndex'.read = trIndex.read
            BY <3>1 DEF HostAppends, AgentAppends, TrShapes, TrIndexes
        <3>2. CASE UNCHANGED trVars \/ ResumeSteps \/ ExportSteps \/ Tick
            BY <3>2 DEF trVars, ResumeSteps, ExportSteps, Tick, ListHost, Inspect, Decide, Write,
               ExportSelects, StageTranscript, StageSidecar, Normalise, ExportFails,
               InstallTranscript, ClearSidecars, CopySidecars, UpsertIndex, ExportDies
        <3>3. ASSUME NEW u \in Transcript, AgentEndsLine(u) PROVE trIndex' = trIndex
            BY <3>3 DEF AgentEndsLine
        <3> QED
            BY <1>3, <3>1, <3>2, <3>3 DEF HarnessSteps
    <2> QED
        BY <2>1 DEF MergeKeeps
<1> QED
    BY <1>1, <1>2, <1>3, TrStepsAre

\* Only a write ends the writing.
LEMMA WritingEnds ==
    ASSUME TrInv, TrNext, NEW t \in Transcript, trWrite, trHand = t, ~trWrite'
    PROVE  Write(t)
<1>1. \A u \in Transcript : Write(u) => u = t
    BY DEF Write
<1>2. ASSUME NEW u \in Transcript PROVE ~Decide(u)
    BY DecideIs DEF TrInv
<1> QED
    BY <1>1, <1>2, TrStepsAre DEF HarnessSteps, ResumeSteps, Tick, HostAppends, AgentAppends,
       AgentEndsLine, ListHost, Inspect, trResume, MergeIndex, WriteIndex, ExportSteps,
       ExportSelects, StageTranscript, StageSidecar, Normalise, ExportFails,
       InstallTranscript, ClearSidecars, CopySidecars, UpsertIndex, ExportDies

\* The two promises of NewerContinuationKept, of one step.
LEMMA WriteLosesNothing ==
    ASSUME TrInv, TrNext, NEW t \in Transcript, trWrite, trHand = t, ~trWrite',
           trAgent'[t] # trAgent[t],
           trAgent[t].recs = trStat.recs, trSeen[t].recs \subseteq trHost[t].recs,
           Truncated(trAgent[t].at) > trSeen[t].at
    PROVE  trAgent[t].recs \subseteq trAgent'[t].recs
<1>1. Write(t)
    BY WritingEnds
<1>2. trAgent'[t].recs = trHost[t].recs
    BY <1>1, WriteIs DEF TrInv
<1>3. t \in trTodo /\ ResumeStands(t)
    BY TranscriptAssumption DEF TrInv, TrShapes
<1>4. trStat.at \in Nat /\ trSeen[t].at \in Nat
    BY HomesAre, FilesAre DEF TrInv, TrShapes
<1> QED
    BY <1>2, <1>3, <1>4 DEF ResumeStands

\* The index that is written ages no entry the merge has read.
LEMMA MergeAgesNothing ==
    ASSUME TrShapes, MergeKeeps, TrNext, trIndex.merged # NoEntries,
           trIndex'.merged = NoEntries, trIndex.agent = trIndex.read
    PROVE  \A t \in Transcript : trIndex'.agent[t] >= trIndex.agent[t]
<1>1. WriteIndex
    <2>1. ASSUME NEW u \in Transcript PROVE ~HostAppends(u) /\ ~AgentAppends(u)
        BY DEF HostAppends, AgentAppends, TrShapes, TrIndexes
    <2>2. ~MergeIndex
        BY DEF MergeIndex
    <2> QED
        BY <2>1, <2>2, TrStepsAre DEF HarnessSteps, ResumeSteps, Tick,
           AgentEndsLine, ListHost, Inspect, Decide, Write, ExportSteps,
           ExportSelects, StageTranscript, StageSidecar, Normalise, ExportFails,
           InstallTranscript, ClearSidecars, CopySidecars, UpsertIndex, ExportDies
<1>2. trIndex'.agent = trIndex.merged
    BY <1>1 DEF WriteIndex, TrShapes, TrIndexes
<1> QED
    BY <1>2 DEF MergeKeeps

\* The agent has carried on the transcript that the host has.
CarriedOn(t) == trHost[t].recs \subseteq trAgent[t].recs /\ trHost[t].recs # trAgent[t].recs

\* Times tell which of the two is later, but for what an export was overtaken by;
\* and an export that was not has the agent's transcript, or an earlier one.
TimesTell ==
    /\ trStage.file.at <= trClock /\ \A t \in Transcript : trHost[t].at <= trClock
    /\ \A t \in Transcript : CarriedOn(t) => trHost[t].at <= trAgent[t].at \/ t \in trRaced
    /\ \A t \in Transcript : Staged(t) /\ ~trRacing =>
         \/ trAgent[t].recs = trStage.file.recs
         \/ trExport = "install" /\ trStage.file.at <= trAgent[t].at

\* Nothing is there to be carried on at first.
LEMMA TimesTellInit == TrInit => TimesTell
<1> SUFFICES ASSUME TrInit PROVE TimesTell
    OBVIOUS
<1>1. Absent.at = 0 /\ Absent.recs = {} /\ NoStage.file = Absent
    BY DEF Absent, NoStage
<1>2. PICK kind \in {"missing", "symlink", "other"} :
          trAgent = [t \in Transcript |-> [Absent EXCEPT !.kind = kind]]
    BY DEF TrInit
<1>3. [Absent EXCEPT !.kind = kind].recs = {}
    BY HomesAre, FilesChanged
<1>4. \A t \in Transcript : trAgent[t].recs = {} /\ trHost[t] = Absent
    <2>1. \A t \in Transcript : trAgent[t] = [Absent EXCEPT !.kind = kind]
        BY <1>2
    <2>2. trHost = [t \in Transcript |-> Absent]
        BY DEF TrInit
    <2> QED
        BY <1>3, <2>1, <2>2
<1>5. trStage.file.at = 0 /\ trClock = 1 /\ trExport = "idle"
    BY <1>1 DEF TrInit
<1>6. \A t \in Transcript : ~CarriedOn(t) /\ trHost[t].at = 0 /\ ~Staged(t)
    BY <1>1, <1>4, <1>5 DEF CarriedOn, Staged
<1> QED
    BY <1>5, <1>6 DEF TimesTell

\* A step that moves neither the files nor the export, but perhaps the clock.
LEMMA TimesTellStill ==
    ASSUME TrShapes, TimesTell, UNCHANGED <<trExport, trPick, trStage, trRacing, trRaced>>,
           trClock' \in Nat, trClock <= trClock', trHost' = trHost,
           \A t \in Transcript : trAgent'[t].recs = trAgent[t].recs
                                 /\ trAgent'[t].at = trAgent[t].at
    PROVE  TimesTell'
<1>1. /\ trStage.file.at \in Nat /\ trClock \in Nat
      /\ \A t \in Transcript : trHost[t].at \in Nat
    BY StagesAre, HomesAre, FilesAre DEF TrShapes
<1> QED
    BY <1>1 DEF TimesTell, CarriedOn, Staged

\* What the host's harness appends the agent does not have.
LEMMA TimesTellHostAppends ==
    ASSUME TrInv, TimesTell, NEW u \in Transcript, HostAppends(u)
    PROVE  TimesTell'
<1>1. /\ trHost'[u].recs = trHost[u].recs \cup {trCount + 1}
      /\ \A t \in Transcript \ {u} : trHost'[t] = trHost[t]
      /\ UNCHANGED <<trAgent, trExport, trPick, trStage>>
    BY HostAppendsIs DEF TrInv, trExporting
<1>2. trHost'[u].at = trClock /\ trClock \in Nat
    <2>1. trClock \in Nat /\ trCount \in Nat /\ trHost \in TrHomes /\ trHost[u] \in TrFiles
        BY HomesAre DEF TrInv, TrShapes
    <2> DEFINE f == Appended(trHost[u], TRUE)
    <2>2. f \in TrFiles /\ f.at = trClock
        BY <2>1, AppendedIs
    <2>3. trHost' = [trHost EXCEPT ![u] = f]
        BY DEF HostAppends
    <2> HIDE DEF f
    <2> QED
        BY <2>1, <2>2, <2>3, HomesChanged
<1>3. trRaced' = trRaced \ {u} /\ UNCHANGED <<trClock, trRacing>>
    BY DEF HostAppends
<1>4. ~CarriedOn(u)'
    BY <1>1 DEF CarriedOn, TrInv, TrShapes, TrOlder, Older
<1>5. \A t \in Transcript \ {u} : CarriedOn(t)' <=> CarriedOn(t)
    BY <1>1 DEF CarriedOn
<1> QED
    BY <1>1, <1>2, <1>3, <1>4, <1>5 DEF TimesTell, Staged

\* What the agent's harness appends is as late as anything.
LEMMA TimesTellAgentAppends ==
    ASSUME TrInv, TimesTell, NEW u \in Transcript, AgentAppends(u)
    PROVE  TimesTell'
<1>1. /\ \A t \in Transcript \ {u} : trAgent'[t] = trAgent[t]
      /\ UNCHANGED <<trHost, trExport, trPick, trStage>>
    BY AgentAppendsIs DEF TrInv, trExporting
<1>2. trAgent'[u].at = trClock
    <2>1. trClock \in Nat /\ trCount \in Nat /\ trAgent \in TrHomes /\ trAgent[u] \in TrFiles
        BY HomesAre DEF TrInv, TrShapes
    <2>2. PICK whole \in BOOLEAN : trAgent' = [trAgent EXCEPT ![u] = Appended(trAgent[u], whole)]
        BY DEF AgentAppends
    <2>3. Appended(trAgent[u], whole) \in TrFiles /\ Appended(trAgent[u], whole).at = trClock
        BY <2>1, AppendedIs
    <2> QED
        BY <2>1, <2>2, <2>3, HomesChanged
<1>3. /\ trRaced' = trRaced \ {u} /\ UNCHANGED trClock
      /\ trRacing' = (trRacing \/ (Staged(u) /\ trExport # "install"))
    BY DEF AgentAppends
<1>4. \A t \in Transcript \ {u} : CarriedOn(t)' <=> CarriedOn(t)
    BY <1>1 DEF CarriedOn
<1> QED
    BY <1>1, <1>2, <1>3, <1>4 DEF TimesTell, Staged

\* What a resume writes is the host's.
LEMMA TimesTellWrite ==
    ASSUME TrInv, TimesTell, NEW u \in Transcript, Write(u)
    PROVE  TimesTell'
<1>1. /\ trAgent'[u].recs = trHost[u].recs
      /\ \A t \in Transcript \ {u} : trAgent'[t] = trAgent[t]
      /\ UNCHANGED <<trHost, trExport, trPick, trStage>>
    BY WriteIs DEF TrInv, trExporting
<1>2. trRacing' = (trRacing \/ Staged(u)) /\ UNCHANGED <<trClock, trRaced>>
    BY DEF Write
<1>3. ~CarriedOn(u)' /\ \A t \in Transcript \ {u} : CarriedOn(t)' <=> CarriedOn(t)
    BY <1>1 DEF CarriedOn
<1> QED
    BY <1>1, <1>2, <1>3 DEF TimesTell, Staged

\* What an export installs is the agent's, or earlier, or was overtaken.
LEMMA TimesTellInstall ==
    ASSUME TrInv, TimesTell, InstallTranscript
    PROVE  TimesTell'
<1>1. /\ trPick \in Transcript /\ trHost'[trPick].recs = trStage.file.recs
      /\ \A t \in Transcript \ {trPick} : trHost'[t] = trHost[t]
      /\ trExport = "install" /\ trExport' = "clear"
      /\ UNCHANGED <<trAgent, trPick, trStage>>
    BY InstallIs DEF TrInv
<1>2. trHost'[trPick].at = trStage.file.at
    <2>1. trStage.file.recs \in SUBSET Nat /\ trStage.file.at \in Nat
        BY StagesAre, FilesAre DEF TrInv, TrShapes
    <2> DEFINE f == File(trStage.file.recs, trStage.file.at)
    <2>2. f \in TrFiles /\ f.at = trStage.file.at
        BY <2>1, FilesMade DEF File
    <2>3. trHost' = [trHost EXCEPT ![trPick] = f]
        BY DEF InstallTranscript
    <2> HIDE DEF f
    <2> QED
        BY <1>1, <2>2, <2>3, HomesChanged DEF TrInv, TrShapes
<1>3. /\ trRaced' = IF trRacing THEN trRaced \cup {trPick} ELSE trRaced \ {trPick}
      /\ UNCHANGED trClock
    BY DEF InstallTranscript
<1>4. Staged(trPick) /\ \A t \in Transcript : ~Staged(t)'
    BY <1>1 DEF Staged
<1>5. \A t \in Transcript \ {trPick} : CarriedOn(t)' <=> CarriedOn(t)
    BY <1>1 DEF CarriedOn
<1>6. CarriedOn(trPick)' =>
          trHost'[trPick].at <= trAgent'[trPick].at \/ trPick \in trRaced'
    BY <1>1, <1>2, <1>3, <1>4 DEF CarriedOn, TimesTell
<1> QED
    BY <1>1, <1>2, <1>3, <1>4, <1>5, <1>6 DEF TimesTell

\* The other steps of the export.
LEMMA TimesTellExport ==
    ASSUME TrInv, TimesTell, ExportSteps, ~InstallTranscript
    PROVE  TimesTell'
<1>1. UNCHANGED <<trClock, trHost, trAgent, trRaced>>
    BY DEF ExportSteps, ExportSelects, StageTranscript, StageSidecar, Normalise, ExportFails,
       ClearSidecars, CopySidecars, UpsertIndex, ExportDies, trRaces
<1>2. \A t \in Transcript : CarriedOn(t)' <=> CarriedOn(t)
    BY <1>1 DEF CarriedOn
<1>3. trClock \in Nat /\ NoStage.file.at = 0 /\ TrShapes
    BY DEF TrInv, TrShapes, NoStage, Absent
<1>4. SUFFICES /\ trStage'.file.at <= trClock'
               /\ \A t \in Transcript : Staged(t)' /\ ~trRacing' =>
                     \/ trAgent'[t].recs = trStage'.file.recs
                     \/ trExport' = "install" /\ trStage'.file.at <= trAgent'[t].at
    BY <1>1, <1>2 DEF TimesTell
<1>5. CASE ExportSelects \/ ExportFails \/ UpsertIndex \/ ExportDies
    BY <1>1, <1>3, <1>5 DEF ExportSelects, ExportFails, UpsertIndex, ExportDies, Staged
<1>6. CASE StageTranscript
    <2>1. /\ trStage'.file.recs = trAgent[trPick].recs /\ trStage'.file.at = trClock
          /\ trPick' = trPick
        BY <1>3, <1>6, StagedIs DEF StageTranscript
    <2> QED
        BY <1>1, <1>3, <2>1 DEF Staged
<1>7. CASE StageSidecar
    <2>1. trStage'.file = trStage.file
        BY <1>3, <1>7 DEF StageSidecar, TrShapes, TrStages
    <2> QED
        BY <1>1, <1>7, <2>1 DEF StageSidecar, Staged, TimesTell, trRaces
<1>8. CASE Normalise
    BY <1>1, <1>3, <1>8, NormalisedIs DEF Normalise, Staged, TimesTell, trRaces
<1>9. CASE ClearSidecars \/ CopySidecars
    BY <1>1, <1>9 DEF ClearSidecars, CopySidecars, Staged, TimesTell
<1> QED
    BY <1>5, <1>6, <1>7, <1>8, <1>9 DEF ExportSteps

\* Every step keeps it.
LEMMA TimesTellStep == TrInv /\ TimesTell /\ [TrNext]_trVars => TimesTell'
<1> SUFFICES ASSUME TrInv, TimesTell, [TrNext]_trVars PROVE TimesTell'
    OBVIOUS
<1>0. TrShapes /\ trClock \in Nat
    BY DEF TrInv, TrShapes
<1>1. CASE UNCHANGED trVars \/ MergeIndex \/ WriteIndex \/ Tick \/ ListHost
    <2>1. /\ UNCHANGED <<trExport, trPick, trStage, trRacing, trRaced, trHost, trAgent>>
          /\ trClock' = trClock \/ trClock' = trClock + 1
        BY <1>1 DEF trVars, MergeIndex, WriteIndex, Tick, ListHost, trExporting, trRaces
    <2> QED
        BY <1>0, <2>1, TimesTellStill
<1>2. ASSUME NEW u \in Transcript, AgentEndsLine(u) \/ Inspect(u) \/ Decide(u)
      PROVE  TimesTell'
    <2>1. UNCHANGED <<trExport, trPick, trStage, trRacing, trRaced, trHost, trClock>>
        BY <1>2 DEF AgentEndsLine, Inspect, Decide, trExporting, trRaces
    <2>2. \A t \in Transcript : /\ trAgent'[t].recs = trAgent[t].recs
                                /\ trAgent'[t].at = trAgent[t].at
        BY <1>0, <1>2, AgentEndsIs DEF Inspect, Decide
    <2> QED
        BY <1>0, <2>1, <2>2, TimesTellStill
<1>3. ASSUME NEW u \in Transcript, HostAppends(u) \/ AgentAppends(u) \/ Write(u)
      PROVE  TimesTell'
    BY <1>3, TimesTellHostAppends, TimesTellAgentAppends, TimesTellWrite
<1>4. CASE ExportSteps
    BY <1>4, TimesTellInstall, TimesTellExport
<1> QED
    BY <1>1, <1>2, <1>3, <1>4, TrStepsAre DEF HarnessSteps, ResumeSteps

\* The promise of ContinuationKept, of one step.
LEMMA WriteKeepsContinuation ==
    ASSUME TrInv, TimesTell, trHarness \in {"claude", "codex"}, TrNext, NEW t \in Transcript,
           trWrite, trHand = t, ~trWrite',
           trAgent[t].recs = trStat.recs, trSeen[t] = trHost[t],
           trHost[t].recs \subseteq trAgent[t].recs, trAgent'[t].recs # trAgent[t].recs
    PROVE  t \in trRaced \/ trAgent[t].at \div 2 = trHost[t].at \div 2
<1>1. Write(t)
    BY WritingEnds
<1>2. CarriedOn(t)
    BY <1>1, WriteIs DEF TrInv, CarriedOn
<1>3. t \in trTodo /\ ResumeStands(t)
    BY TranscriptAssumption DEF TrInv, TrShapes
<1>4. trStat.at = Truncated(trAgent[t].at) /\ trHost[t].at > trStat.at
    BY <1>2, <1>3 DEF ResumeStands, CarriedOn
<1>5. trAgent[t].at \in Nat /\ trHost[t].at \in Nat
    BY HomesAre, FilesAre DEF TrInv, TrShapes
<1>6. t \in trRaced \/ trHost[t].at <= trAgent[t].at
    BY <1>2 DEF TimesTell
<1>7. ASSUME NEW a \in Nat, NEW h \in Nat, h <= a, h > (a \div 2) * 2
      PROVE  a \div 2 = h \div 2
    BY <1>7
<1> QED
    BY <1>4, <1>5, <1>6, <1>7 DEF Truncated

\* Resume and export of resume.go, resume_harnesses.go and export.go: for any
\* number of transcripts, records and interleavings of the two harnesses with them,
\* no export mentions a path of the agent, a continuation with a newer file is not
\* overwritten, nor is one of the host's transcript that was not written during its
\* export or in the same second, and no entry of the index ages.
THEOREM ResumeAndExportKeep == TrSpec => TranscriptsKept
<1>1. TrInit => ExportClean /\ MergeKeeps
    BY DEF TrInit, ExportClean, MergeKeeps
<1> DEFINE Known == trHarness \in {"claude", "codex"}
<1>0. (TrInit => Known) /\ (Known /\ [TrNext]_trVars => Known')
    <2>1. ASSUME [TrNext]_trVars PROVE trHarness' = trHarness
        BY <2>1 DEF trVars, TrNext, Tick, HostAppends, AgentAppends,
           AgentEndsLine, ListHost, Inspect, Decide, Write, MergeIndex, WriteIndex,
           ExportSelects, StageTranscript, StageSidecar, Normalise, ExportFails,
           InstallTranscript, ClearSidecars, CopySidecars, UpsertIndex, ExportDies
    <2> QED
        BY <2>1 DEF TrInit
<1>2. TrSpec => [](TrInv /\ ExportClean /\ MergeKeeps /\ TimesTell /\ Known)
    <2>1. TrInv => TrShapes
        BY DEF TrInv
    <2> QED
        BY <1>0, <1>1, <2>1, TrInvInit, TrInvStep, ExportCleanStep, MergeKeepsStep,
           TimesTellInit, TimesTellStep, PTL DEF TrSpec
<1>3. ExportClean => ExportMentionsNoAgentPath
    BY DEF ExportClean, ExportMentionsNoAgentPath
<1>4. TrInv /\ MergeKeeps /\ [TrNext]_trVars =>
        [/\ \A t \in Transcript :
            /\ trWrite /\ trHand = t /\ trAgent'[t] # trAgent[t] /\ ~trWrite'
            /\ trAgent[t].recs = trStat.recs /\ trSeen[t].recs \subseteq trHost[t].recs
            /\ Truncated(trAgent[t].at) > trSeen[t].at
            => trAgent[t].recs \subseteq trAgent'[t].recs
         /\ trIndex.merged # NoEntries /\ trIndex'.merged = NoEntries /\ trIndex.agent = trIndex.read
            => \A t \in Transcript : trIndex'.agent[t] >= trIndex.agent[t]]_trVars
    BY WriteLosesNothing, MergeAgesNothing DEF TrInv
<1>5. TrInv /\ TimesTell /\ Known /\ [TrNext]_trVars =>
        [\A t \in Transcript :
            /\ trWrite /\ trHand = t /\ ~trWrite'
            /\ trAgent[t].recs = trStat.recs /\ trSeen[t] = trHost[t]
            /\ trHost[t].recs \subseteq trAgent[t].recs /\ trAgent'[t].recs # trAgent[t].recs
            => t \in trRaced \/ trAgent[t].at \div 2 = trHost[t].at \div 2]_trVars
    BY WriteKeepsContinuation
<1>6. TrSpec => NewerContinuationKept
    BY <1>2, <1>4, PTL DEF TrSpec, NewerContinuationKept
<1>7. TrSpec => ContinuationKept
    BY <1>2, <1>5, PTL DEF TrSpec, ContinuationKept
<1> QED
    BY <1>2, <1>3, <1>6, <1>7, PTL DEF TranscriptsKept

\* The clock and the records stop at their bounds, and no file is of a later time.
TrTimely ==
    /\ trHarness \in {"claude", "codex"} /\ trClock \in 1..MaxTime /\ trCount \in 0..MaxRecords
    /\ \A t \in Transcript : /\ trHost[t].at <= MaxTime /\ trAgent[t].at <= MaxTime
                             /\ trSeen[t].at <= MaxTime
    /\ trStat.at <= MaxTime /\ trStage.file.at <= MaxTime
    /\ trExport = "idle" => trPick = NoTranscript
    /\ trIndexed \subseteq Transcript /\ trRacing \in BOOLEAN /\ trRaced \subseteq Transcript

LEMMA TruncatedIsEarlier == \A n \in Nat : Truncated(n) <= n
BY DEF Truncated

LEMMA TrTimelyInit == TrInit => TrTimely
<1> SUFFICES ASSUME TrInit PROVE TrTimely
    OBVIOUS
<1>1. 1 \in 1..MaxTime /\ 0 \in 0..MaxRecords /\ 0 <= MaxTime
    BY TranscriptAssumption
<1>2. PICK kind \in {"missing", "symlink", "other"} :
          trAgent = [t \in Transcript |-> [Absent EXCEPT !.kind = kind]]
    BY DEF TrInit
<1>3. \A t \in Transcript : trAgent[t].at = 0
    BY <1>2 DEF Absent
<1>4. Absent.at = 0 /\ NoStage.file.at = 0
    BY DEF Absent, NoStage
<1> QED
    BY <1>1, <1>3, <1>4 DEF TrInit, TrTimely

LEMMA TrTimelyHarness == TrShapes /\ TrTimely /\ HarnessSteps => TrTimely'
<1> SUFFICES ASSUME TrShapes, TrTimely, HarnessSteps PROVE TrTimely'
    OBVIOUS
<1>1. MaxTime \in Nat /\ MaxRecords \in Nat /\ trClock <= MaxTime /\ trClock \in Nat /\ trCount \in Nat
    BY TranscriptAssumption DEF TrTimely
<1>2. CASE Tick
    <2>1. trClock' \in 1..MaxTime
        BY <1>1, <1>2 DEF Tick, TrTimely
    <2> QED
        BY <1>2, <2>1 DEF Tick, TrTimely, trResume, trExporting, trRaces
<1>3. ASSUME trCount < MaxRecords, trCount' = trCount + 1
      PROVE  trCount' \in 0..MaxRecords
    BY <1>1, <1>3
<1>4. ASSUME NEW t \in Transcript, HostAppends(t) PROVE TrTimely'
    <2>1. trHost[t] \in TrFiles
        BY HomesAre DEF TrShapes
    <2>2. Appended(trHost[t], TRUE) \in TrFiles /\ Appended(trHost[t], TRUE).at = trClock
        BY <1>1, <2>1, AppendedIs
    <2> DEFINE f == Appended(trHost[t], TRUE)
    <2>3. f \in TrFiles /\ f.at = trClock /\ trHost' = [trHost EXCEPT ![t] = f]
        BY <1>4, <2>2 DEF HostAppends
    <2> HIDE DEF f
    <2>4. trHost'[t].at = trClock /\ \A u \in Transcript \ {t} : trHost'[u] = trHost[u]
        BY <2>3, HomesChanged DEF TrShapes
    <2>5. \A u \in Transcript : trHost'[u].at <= MaxTime
        BY <1>1, <2>4 DEF TrTimely
    <2> QED
        BY <1>3, <1>4, <2>5 DEF HostAppends, TrTimely, trResume, trExporting, trRaces
<1>5. ASSUME NEW t \in Transcript, AgentAppends(t) PROVE TrTimely'
    <2>1. trAgent[t] \in TrFiles
        BY HomesAre DEF TrShapes
    <2>2. PICK whole \in BOOLEAN : trAgent' = [trAgent EXCEPT ![t] = Appended(trAgent[t], whole)]
        BY <1>5 DEF AgentAppends
    <2>3. Appended(trAgent[t], whole) \in TrFiles /\ Appended(trAgent[t], whole).at = trClock
        BY <1>1, <2>1, AppendedIs
    <2>4. trAgent'[t].at = trClock /\ \A u \in Transcript \ {t} : trAgent'[u] = trAgent[u]
        BY <2>2, <2>3, HomesChanged DEF TrShapes
    <2>5. \A u \in Transcript : trAgent'[u].at <= MaxTime
        BY <1>1, <2>4 DEF TrTimely
    <2> QED
        BY <1>3, <1>5, <2>5 DEF AgentAppends, TrTimely, trResume, trExporting, trRaces
<1>6. ASSUME NEW t \in Transcript, AgentEndsLine(t) PROVE TrTimely'
    <2>1. trAgent[t] \in TrFiles
        BY HomesAre DEF TrShapes
    <2>2. trAgent' = [trAgent EXCEPT ![t] = [trAgent[t] EXCEPT !.whole = TRUE]]
        BY <1>6 DEF AgentEndsLine
    <2>3. /\ [trAgent[t] EXCEPT !.whole = TRUE] \in TrFiles
          /\ [trAgent[t] EXCEPT !.whole = TRUE].at = trAgent[t].at
        BY <2>1, FilesChanged
    <2>4. trAgent'[t].at = trAgent[t].at /\ \A u \in Transcript \ {t} : trAgent'[u] = trAgent[u]
        BY <2>2, <2>3, HomesChanged DEF TrShapes
    <2>5. \A u \in Transcript : trAgent'[u].at <= MaxTime
        BY <2>4 DEF TrTimely
    <2> QED
        BY <1>6, <2>5 DEF AgentEndsLine, TrTimely, trResume, trExporting, trRaces
<1> QED
    BY <1>2, <1>4, <1>5, <1>6 DEF HarnessSteps

LEMMA TrTimelyResume == TrShapes /\ TrTimely /\ ResumeSteps => TrTimely'
<1> SUFFICES ASSUME TrShapes, TrTimely, ResumeSteps PROVE TrTimely'
    OBVIOUS
<1>1. /\ MaxTime \in Nat /\ Absent.at <= MaxTime
      /\ \A t \in Transcript : trAgent[t] \in TrFiles /\ trSeen[t] \in TrFiles /\ trHost[t] \in TrFiles
    BY TranscriptAssumption, HomesAre DEF TrShapes, Absent
<1>2. CASE ListHost
    BY <1>2 DEF ListHost, TrTimely, trExporting, trRaces
<1>3. ASSUME NEW t \in Transcript, Inspect(t) PROVE TrTimely'
    <2>1. trAgent[t].at \in Nat /\ Truncated(trAgent[t].at) \in Nat /\ Truncated(trAgent[t].at) <= trAgent[t].at
        BY <1>1, FilesAre, TruncatedIs, TruncatedIsEarlier
    <2>2. trStat'.at = Truncated(trAgent[t].at)
        BY <1>1, <1>3, <2>1, FilesChanged DEF Inspect
    <2>3. trStat'.at <= MaxTime
        BY <1>1, <2>1, <2>2 DEF TrTimely
    <2> QED
        BY <1>3, <2>3 DEF Inspect, TrTimely, trExporting, trRaces
<1>4. ASSUME TrForget
      PROVE  \A t \in Transcript : trSeen'[t].at <= MaxTime
    BY <1>1, <1>4 DEF TrForget, TrTimely
<1>5. ASSUME NEW t \in Transcript, Decide(t) PROVE TrTimely'
    <2>1. \A u \in Transcript : trSeen'[u].at <= MaxTime
        BY <1>4, <1>5 DEF Decide
    <2>2. trStat' = trStat \/ trStat' = Absent
        BY <1>5 DEF Decide
    <2>3. trStat'.at <= MaxTime
        BY <1>1, <2>2 DEF TrTimely
    <2> QED
        BY <1>5, <2>1, <2>3 DEF Decide, TrTimely, trExporting, trRaces
<1>6. ASSUME NEW t \in Transcript, Write(t) PROVE TrTimely'
    <2> DEFINE f == File(trHost[t].recs, Truncated(trSeen[t].at))
    <2>1. trSeen[t].at \in Nat /\ Truncated(trSeen[t].at) \in Nat /\ Truncated(trSeen[t].at) <= trSeen[t].at
        BY <1>1, FilesAre, TruncatedIs, TruncatedIsEarlier
    <2>2. trHost[t].recs \in SUBSET Nat
        BY <1>1, FilesAre
    <2>3. f \in TrFiles /\ f.at = Truncated(trSeen[t].at)
        BY <2>1, <2>2, FilesMade DEF File
    <2>4. trAgent' = [trAgent EXCEPT ![t] = f]
        BY <1>6 DEF Write
    <2> HIDE DEF f
    <2>5. trAgent'[t].at = f.at /\ \A u \in Transcript \ {t} : trAgent'[u] = trAgent[u]
        BY <2>3, <2>4, HomesChanged DEF TrShapes
    <2>6. trSeen[t].at <= MaxTime
        BY DEF TrTimely
    <2>7. \A u \in Transcript : trAgent'[u].at <= MaxTime
        BY <1>1, <2>1, <2>3, <2>5, <2>6 DEF TrTimely
    <2>8. \A u \in Transcript : trSeen'[u].at <= MaxTime
        BY <1>4, <1>6 DEF Write
    <2>9. trStat'.at <= MaxTime
        BY <1>1, <1>6 DEF Write
    <2> QED
        BY <1>6, <2>7, <2>8, <2>9 DEF Write, TrTimely, trExporting, trRaces
<1> QED
    BY <1>2, <1>3, <1>5, <1>6 DEF ResumeSteps

LEMMA TrTimelyExport == TrShapes /\ TrTimely /\ ExportSteps => TrTimely'
<1> SUFFICES ASSUME TrShapes, TrTimely, ExportSteps PROVE TrTimely'
    OBVIOUS
<1>1. /\ MaxTime \in Nat /\ NoStage.file.at <= MaxTime /\ trStage \in TrStages /\ trStage.file \in TrFiles
      /\ \A t \in Transcript : trAgent[t] \in TrFiles /\ trAgent[t].at <= MaxTime
    BY TranscriptAssumption, HomesAre, StagesAre DEF TrShapes, TrTimely, NoStage, Absent
<1>2. trExport # "idle" => trPick \in Transcript
    BY DEF TrShapes
<1>3. CASE ExportSelects \/ ExportFails \/ ExportDies
    BY <1>1, <1>3 DEF ExportSelects, ExportFails, ExportDies, TrTimely, trResume, trRaces
<1>4. CASE StageTranscript
    <2>4. trStage'.file.at <= MaxTime
        BY <1>1, <1>4, StagedIs DEF TrTimely
    <2> QED
        BY <1>4, <2>4 DEF StageTranscript, TrTimely, trResume, trRaces
<1>5. CASE StageSidecar \/ Normalise
    <2>1. CASE StageSidecar
        <3>1. trStage'.file = trStage.file
            BY <1>1, <2>1 DEF StageSidecar, TrStages
        <3> QED
            BY <2>1, <3>1 DEF StageSidecar, TrTimely, trResume, trRaces
    <2>2. CASE Normalise
        <3>1. trStage'.file.at <= MaxTime
            BY <1>1, <2>2, NormalisedIs DEF TrTimely
        <3> QED
            BY <2>2, <3>1 DEF Normalise, TrTimely, trResume, trRaces
    <2> QED
        BY <1>5, <2>1, <2>2
<1>6. CASE InstallTranscript
    <2> DEFINE f == File(trStage.file.recs, trStage.file.at)
    <2>1. trStage.file.recs \in SUBSET Nat /\ trStage.file.at \in Nat
        BY <1>1, FilesAre
    <2>2. f \in TrFiles /\ f.at = trStage.file.at
        BY <2>1, FilesMade DEF File
    <2>3. trPick \in Transcript /\ trHost' = [trHost EXCEPT ![trPick] = f]
        BY <1>2, <1>6 DEF InstallTranscript
    <2> HIDE DEF f
    <2>4. trHost'[trPick] = f /\ \A u \in Transcript \ {trPick} : trHost'[u] = trHost[u]
        BY <2>2, <2>3, HomesChanged DEF TrShapes
    <2>5. \A u \in Transcript : trHost'[u].at <= MaxTime
        BY <2>2, <2>4 DEF TrTimely
    <2>6. trRaced' \subseteq Transcript /\ trRacing' \in BOOLEAN
        BY <1>6, <2>3 DEF InstallTranscript, TrTimely
    <2> QED
        BY <1>6, <2>5, <2>6 DEF InstallTranscript, TrTimely, trResume
<1>7. CASE ClearSidecars \/ CopySidecars
    BY <1>7 DEF ClearSidecars, CopySidecars, TrTimely, trResume, trRaces
<1>8. CASE UpsertIndex
    BY <1>1, <1>2, <1>8 DEF UpsertIndex, TrTimely, trResume, trRaces
<1> QED
    BY <1>3, <1>4, <1>5, <1>6, <1>7, <1>8 DEF ExportSteps

LEMMA TrTimelyStep == TrShapes /\ TrTimely /\ [TrNext]_trVars => TrTimely'
<1>1. TrTimely /\ UNCHANGED trVars => TrTimely'
    BY DEF TrTimely, trVars
<1>2. TrTimely /\ (MergeIndex \/ WriteIndex) => TrTimely'
    BY DEF TrTimely, MergeIndex, WriteIndex, trResume, trExporting, trRaces
<1> QED
    BY <1>1, <1>2, TrTimelyHarness, TrTimelyResume, TrTimelyExport
    DEF TrNext, HarnessSteps, ResumeSteps, ExportSteps

LEMMA TrTypesAre == TrShapes /\ TrOlder /\ TrTimely => TrTypeOK
<1> SUFFICES ASSUME TrShapes, TrOlder, TrTimely PROVE TrTypeOK
    OBVIOUS
<1>1. ASSUME NEW f \in TrFiles, Older(f), f.at <= MaxTime
      PROVE  f \in FileType
    <2>1. trCount \in 0..MaxRecords /\ MaxTime \in Nat /\ MaxRecords \in Nat
        BY TranscriptAssumption DEF TrTimely
    <2>2. f.recs \subseteq 1..MaxRecords
        BY <1>1, <2>1 DEF Older
    <2>3. f.at \in 0..MaxTime
        BY <1>1, <2>1, FilesAre
    <2> QED
        BY <2>2, <2>3 DEF TrFiles, FileType
<1>2. ASSUME NEW home \in TrHomes, \A t \in Transcript : Older(home[t]) /\ home[t].at <= MaxTime
      PROVE  home \in [Transcript -> FileType]
    <2>1. \A t \in Transcript : home[t] \in FileType
        BY <1>1, <1>2, HomesAre
    <2> QED
        BY <2>1 DEF TrHomes
<1>3. /\ trHost \in [Transcript -> FileType] /\ trAgent \in [Transcript -> FileType]
      /\ trSeen \in [Transcript -> FileType]
    BY <1>2 DEF TrShapes, TrOlder, TrTimely
<1>4. trStat \in FileType
    BY <1>1 DEF TrShapes, TrOlder, TrTimely
<1>5. trPick \in IF trExport = "idle" THEN {NoTranscript} ELSE Transcript
    BY DEF TrShapes, TrTimely
<1> QED
    BY <1>3, <1>4, <1>5 DEF TrShapes, TrTimely, TrTypeOK, TrExports

LEMMA TranscriptTypes == TrSpec => []TrTypeOK
<1>1. TrInv => TrShapes /\ TrOlder
    BY DEF TrInv
<1> QED
    BY <1>1, TrInvInit, TrInvStep, TrTimelyInit, TrTimelyStep, TrTypesAre, PTL DEF TrSpec

----------------------------------------------------------------------------
(* CredentialSync.                                                         *)

CsMaterials == Material \cup {NoMaterial}
CsSteps == {"idle", "launch", "exit", "deliver", "harvest", "running", "clear"}

\* What a sync has looked at, or will have before it writes.
Looked(at) == IF at \in {"launch", "deliver"} THEN Ends \ CsSink ELSE Ends

\* What is at e is no fresher than the chosen value.
NotFresher(e) ==
    csAt[e] # NoMaterial => csBest # NoMaterial /\ ~credentialSyncNewer(csAt[e], csBest)

\* The best of what has been read is no older than anything that has; and what
\* has been written holds it, but for what others changed.
CsInv ==
    /\ CsTypeOK
    /\ csStep \in {"launch", "exit", "deliver", "harvest", "clear"} =>
         \A e \in Looked(csStep) \ csMoved :
            (csStep \in {"launch", "exit"} => e \notin csTodo) => NotFresher(e)
    /\ csStep \in {"deliver", "harvest"} => csBest # NoMaterial
    /\ csStep \in {"deliver", "running"} /\ csBest # NoMaterial =>
         \A e \in Ends \ csMoved : csAt[e] = csBest \/ (csStep = "deliver" /\ e \in csTodo)
    /\ csStep \in {"harvest", "clear"} /\ csBest # NoMaterial =>
         \A e \in (Ends \ CsSink) \ csMoved :
            csAt[e] = csBest \/ (csStep = "harvest" /\ e \in csTodo)

\* Freshness is an order.
LEMMA FreshnessIsAnOrder ==
    /\ \A a \in Material : ~credentialSyncNewer(a, a)
    /\ \A a, b, c \in Material :
         (~credentialSyncNewer(a, b) /\ credentialSyncNewer(c, b)) => ~credentialSyncNewer(a, c)
<1>1. \A a \in Material : a.generation \in Nat /\ a.updatedAt \in Nat
    BY CredentialSyncAssumption DEF Material
<1> QED
    BY <1>1 DEF credentialSyncNewer

\* Who is next is one that is due.
LEMMA TurnIsDue == \A todo : Turn(todo) \subseteq todo
BY DEF Turn

\* The store and the sinks are ends of a sync.
LEMMA EndsAreEnds == Ends \subseteq CsEnd /\ "store" \in Ends \ CsSink /\ CsSink \subseteq Ends
BY CredentialSyncAssumption DEF Ends, CsEnd

\* Nothing has been read at first.
LEMMA CsInvInit == CsInit => CsInv
BY DEF CsInit, CsInv, CsTypeOK

\* Reading an end keeps the fresher of what it holds and what was best.
LEMMA CsReadKeeps == ASSUME CsInv, syncReadEndpoints PROVE CsInv'
<1>1. PICK e \in csTodo : Read(e)
    BY TurnIsDue DEF syncReadEndpoints
<1>2. csStep \in {"launch", "exit"} /\ e \in Ends
    BY DEF syncReadEndpoints, CsInv, CsTypeOK
<1>3. UNCHANGED <<csSupport, csCached, csAt, csMoved>> /\ Ends' = Ends
    BY <1>1 DEF Read, Ends
<1>4. csAt[e] \in CsMaterials /\ csBest \in CsMaterials
    BY <1>2, EndsAreEnds DEF CsInv, CsTypeOK, CsMaterials
<1>5. csBest' = IF Better(csAt[e]) THEN csAt[e] ELSE csBest
    BY <1>1 DEF Read
<1>6. csBest' \in CsMaterials
    BY <1>4, <1>5
<1>7. NotFresher(e)'
    BY <1>3, <1>4, <1>5, FreshnessIsAnOrder DEF NotFresher, Better, CsMaterials
<1>8. ASSUME NEW d \in Ends, NotFresher(d) PROVE NotFresher(d)'
    <2>1. csAt[d] \in CsMaterials
        BY <1>8, EndsAreEnds DEF CsInv, CsTypeOK, CsMaterials
    <2> QED
        BY <1>3, <1>4, <1>5, <1>8, <2>1, FreshnessIsAnOrder DEF NotFresher, Better, CsMaterials
<1>9. CASE csTodo = {e}
    <2>1. /\ csStep' = AfterReading(csBest')
          /\ csTodo' = IF csBest' = NoMaterial THEN {} ELSE Targets(csStep')
        BY <1>1, <1>5, <1>9 DEF Read
    <2>2. \A d \in Looked(csStep) \ csMoved : NotFresher(d)'
        BY <1>2, <1>7, <1>8, <1>9 DEF CsInv, Looked
    <2>3. /\ csStep = "launch" => csStep' \in {"deliver", "running"}
          /\ csStep = "exit" => csStep' \in {"harvest", "clear"}
          /\ csBest' # NoMaterial => csStep' \in {"deliver", "harvest"}
          /\ csBest' = NoMaterial => csStep' \in {"running", "clear"}
        BY <1>2, <2>1 DEF AfterReading
    <2>4. \A d \in Looked(csStep)' \ csMoved' : csStep' # "running" => NotFresher(d)'
        BY <1>2, <1>3, <2>2, <2>3 DEF Looked
    <2>5. csTodo' = IF csBest' = NoMaterial THEN {}
                    ELSE IF csStep' = "deliver" THEN Ends ELSE Ends \ CsSink
        BY <2>1 DEF Targets
    <2>6. CsTypeOK'
        BY <1>2, <1>3, <1>6, <2>3, <2>5 DEF CsInv, CsTypeOK, CsMaterials
    <2> QED
        BY <1>2, <1>3, <2>3, <2>4, <2>5, <2>6 DEF CsInv
<1>10. CASE csTodo # {e}
    <2>1. csTodo' = csTodo \ {e} /\ csStep' = csStep
        BY <1>1, <1>10 DEF Read
    <2>2. CsTypeOK'
        BY <1>3, <1>6, <2>1 DEF CsInv, CsTypeOK, CsMaterials
    <2>3. \A d \in Looked(csStep)' \ csMoved' : d \notin csTodo' => NotFresher(d)'
        BY <1>2, <1>3, <1>7, <1>8, <2>1 DEF CsInv, Looked
    <2> QED
        BY <1>2, <1>3, <2>1, <2>2, <2>3 DEF CsInv
<1> QED
    BY <1>9, <1>10

\* Writing an end leaves the best value there, or it is fresher already.
LEMMA CsWriteKeeps ==
    ASSUME CsInv, WriteValue
    PROVE  /\ CsInv'
           /\ \A e \in Ends : csAt'[e] # csAt[e] /\ csAt[e] # NoMaterial =>
                \/ e \in csMoved
                \/ e \in CsSink /\ csStep = "deliver"
                \/ csAt'[e] # NoMaterial /\ ~credentialSyncNewer(csAt[e], csAt'[e])
<1>1. PICK e \in csTodo : /\ csAt' = [csAt EXCEPT ![e] = csBest]
                          /\ csTodo' = csTodo \ {e} /\ csMoved' = csMoved \ {e}
    BY TurnIsDue DEF WriteValue
<1>2. /\ csStep \in {"deliver", "harvest"} /\ csBest' = csBest
      /\ UNCHANGED <<csSupport, csCached>> /\ Ends' = Ends
      /\ csStep' = IF csTodo' # {} THEN csStep
                   ELSE IF csStep = "deliver" THEN "running" ELSE "clear"
    BY DEF WriteValue, Ends
<1>3. e \in Ends /\ csBest \in CsMaterials /\ csBest # NoMaterial
    BY <1>2 DEF CsInv, CsTypeOK, CsMaterials
<1>4. csAt'[e] = csBest /\ \A d \in Ends : d # e => csAt'[d] = csAt[d]
    BY <1>1, <1>3, EndsAreEnds DEF CsInv, CsTypeOK
<1>5. ~credentialSyncNewer(csBest, csBest)
    BY <1>3, FreshnessIsAnOrder DEF CsMaterials
<1>6. \A d \in Ends : d # e /\ NotFresher(d) => NotFresher(d)'
    BY <1>2, <1>4 DEF NotFresher
<1>7. NotFresher(e)'
    BY <1>2, <1>3, <1>4, <1>5 DEF NotFresher
<1>8. \A d \in Looked(csStep) \ csMoved : NotFresher(d)
    BY <1>2 DEF CsInv
<1>9. Looked(csStep)' \subseteq Looked(csStep) \/ csStep' = "running"
    BY <1>2 DEF Looked
<1>10. CsTypeOK'
    <2>1. csAt' \in [CsEnd -> CsMaterials]
        BY <1>1, <1>3 DEF CsInv, CsTypeOK, CsMaterials
    <2> QED
        BY <1>1, <1>2, <1>3, <2>1 DEF CsInv, CsTypeOK, CsMaterials
<1>11. csStep' # "running" => \A d \in Looked(csStep)' \ csMoved' : NotFresher(d)'
    <2>1. Looked(csStep) \subseteq Ends
        BY DEF Looked
    <2> QED
        BY <1>1, <1>6, <1>7, <1>8, <1>9, <2>1
<1>12. CsInv'
    <2>1. csStep' \in {"deliver", "harvest"} => csBest' # NoMaterial
        BY <1>2, <1>3
    <2>2. csStep' \in {"deliver", "running"} =>
             \A d \in Ends \ csMoved' : csAt'[d] = csBest \/ (csStep' = "deliver" /\ d \in csTodo')
        BY <1>1, <1>2, <1>3, <1>4 DEF CsInv
    <2>3. csStep' \in {"harvest", "clear"} =>
             \A d \in (Ends \ CsSink) \ csMoved' :
                csAt'[d] = csBest \/ (csStep' = "harvest" /\ d \in csTodo')
        BY <1>1, <1>2, <1>3, <1>4 DEF CsInv
    <2> QED
        BY <1>2, <1>10, <1>11, <2>1, <2>2, <2>3 DEF CsInv
<1>13. ASSUME NEW d \in Ends, csAt'[d] # csAt[d], csAt[d] # NoMaterial
       PROVE  \/ d \in csMoved
              \/ d \in CsSink /\ csStep = "deliver"
              \/ csAt'[d] # NoMaterial /\ ~credentialSyncNewer(csAt[d], csAt'[d])
    <2>1. d = e
        BY <1>4, <1>13
    <2>2. d \in Looked(csStep) \/ (d \in CsSink /\ csStep = "deliver")
        BY <1>2 DEF Looked
    <2> QED
        BY <1>3, <1>4, <1>8, <1>13, <2>1, <2>2 DEF NotFresher
<1> QED
    BY <1>12, <1>13

\* Clearing the sinks after the session leaves the store as it is.
LEMMA CsClearKeeps ==
    ASSUME CsInv, clearCredentialSyncAgentSinks
    PROVE  /\ CsInv'
           /\ \A e \in Ends : csAt'[e] # csAt[e] /\ csAt[e] # NoMaterial =>
                \/ e \in csMoved
                \/ csAt'[e] = NoMaterial /\ csBest # NoMaterial
                     /\ ~credentialSyncNewer(csAt[e], csBest)
<1>1. PICK cleared \in SUBSET CsSink :
         /\ csAt' = [e \in CsEnd |-> IF e \in cleared THEN NoMaterial ELSE csAt[e]]
         /\ csMoved' = csMoved \ cleared
    BY DEF clearCredentialSyncAgentSinks
<1>2. /\ csStep = "clear" /\ csStep' = "idle"
      /\ UNCHANGED <<csSupport, csCached, csTodo, csBest>> /\ Ends' = Ends
    BY DEF clearCredentialSyncAgentSinks, Ends
<1>3. csAt' \in [CsEnd -> CsMaterials]
    BY <1>1 DEF CsInv, CsTypeOK, CsMaterials
<1>4. CsTypeOK'
    BY <1>1, <1>2, <1>3 DEF CsInv, CsTypeOK, CsMaterials
<1>5. CsInv'
    BY <1>2, <1>4 DEF CsInv
<1>6. ASSUME NEW e \in Ends, csAt'[e] # csAt[e], csAt[e] # NoMaterial
      PROVE  \/ e \in csMoved
             \/ csAt'[e] = NoMaterial /\ csBest # NoMaterial
                  /\ ~credentialSyncNewer(csAt[e], csBest)
    <2>1. csAt'[e] = NoMaterial
        BY <1>1, <1>6, EndsAreEnds
    <2>2. e \notin csMoved => NotFresher(e)
        BY <1>2 DEF CsInv, Looked
    <2> QED
        BY <1>6, <2>1, <2>2 DEF NotFresher
<1> QED
    BY <1>5, <1>6

\* Others change an end, and it is no longer the sync's to answer for.
LEMMA CsOthersKeep ==
    ASSUME CsInv, BeginSync \/ SyncFails \/ Rotates \/ UNCHANGED csVars
    PROVE  CsInv' /\ \A e \in Ends : csAt'[e] = csAt[e] \/ e \in csMoved'
<1>1. CASE BeginSync
    <2>1. /\ csStep' \in {"launch", "exit"} /\ csTodo' = Sources(csStep')
          /\ csBest' = NoMaterial /\ csMoved' = {}
          /\ UNCHANGED <<csSupport, csCached, csAt>> /\ Ends' = Ends
        BY <1>1 DEF BeginSync, Ends
    <2>2. csTodo' = Looked(csStep)'
        BY <2>1 DEF Sources, Looked
    <2>3. CsTypeOK'
        BY <2>1, <2>2 DEF CsInv, CsTypeOK, Looked
    <2> QED
        BY <2>1, <2>2, <2>3 DEF CsInv
<1>2. CASE SyncFails
    <2>1. /\ csStep' = "idle" /\ csTodo' = {} /\ Ends' = Ends
          /\ UNCHANGED <<csSupport, csCached, csAt, csBest, csMoved>>
        BY <1>2 DEF SyncFails, Ends
    <2>2. CsTypeOK'
        BY <2>1 DEF CsInv, CsTypeOK
    <2> QED
        BY <2>1, <2>2 DEF CsInv
<1>3. CASE Rotates
    <2>1. PICK e \in CsEnd, m \in CsMaterials :
             csAt' = [csAt EXCEPT ![e] = m] /\ csMoved' = csMoved \cup {e}
        BY <1>3 DEF Rotates, CsEnd, CsMaterials
    <2>2. UNCHANGED <<csSupport, csCached, csStep, csTodo, csBest>> /\ Ends' = Ends
        BY <1>3 DEF Rotates, Ends
    <2>3. \A d \in Ends : d # e => csAt'[d] = csAt[d]
        BY <2>1, EndsAreEnds DEF CsInv, CsTypeOK
    <2>4. csAt' \in [CsEnd -> CsMaterials]
        BY <2>1 DEF CsInv, CsTypeOK, CsMaterials
    <2>5. CsTypeOK'
        BY <2>1, <2>2, <2>4 DEF CsInv, CsTypeOK, CsMaterials
    <2>6. Looked(csStep)' = Looked(csStep) /\ Looked(csStep) \subseteq Ends
        BY <2>2 DEF Looked
    <2>7. \A d \in Ends \ csMoved' : NotFresher(d) => NotFresher(d)'
        BY <2>1, <2>2, <2>3 DEF NotFresher
    <2> QED
        BY <2>1, <2>2, <2>3, <2>5, <2>6, <2>7 DEF CsInv
<1>4. CASE UNCHANGED csVars
    <2>1. UNCHANGED <<csSupport, csCached, csAt, csStep, csTodo, csBest, csMoved>> /\ Ends' = Ends
        BY <1>4 DEF csVars, Ends
    <2>2. Looked(csStep)' = Looked(csStep) /\ \A e : NotFresher(e)' = NotFresher(e)
        BY <2>1 DEF Looked, NotFresher
    <2> QED
        BY <2>1, <2>2 DEF CsInv, CsTypeOK
<1> QED
    BY <1>1, <1>2, <1>3, <1>4

\* The two-phase sync of credential_sync.go, for any number of sinks and values,
\* and however the others change the ends meanwhile.
THEOREM SyncKeepsTheFreshest == CsSpec => [](CsTypeOK /\ SyncAgrees) /\ FresherValuesKept
<1>1. CsInv => CsTypeOK /\ SyncAgrees
    BY DEF CsInv, SyncAgrees
<1>2. CsInv /\ [CsNext]_csVars => CsInv'
    BY CsReadKeeps, CsWriteKeeps, CsClearKeeps, CsOthersKeep DEF CsNext
<1>3. CsInv /\ [CsNext]_csVars =>
        [\A e \in Ends : csAt'[e] # csAt[e] /\ csAt[e] # NoMaterial =>
           \/ e \in csMoved \cup csMoved'
           \/ e \in CsSink /\ csStep = "deliver"
           \/ csAt'[e] # NoMaterial /\ ~credentialSyncNewer(csAt[e], csAt'[e])
           \/ csAt'[e] = NoMaterial /\ csBest # NoMaterial
                /\ ~credentialSyncNewer(csAt[e], csBest)]_csVars
    <2> SUFFICES ASSUME CsInv, CsNext, NEW e \in Ends, csAt'[e] # csAt[e], csAt[e] # NoMaterial
                 PROVE  \/ e \in csMoved \cup csMoved'
                        \/ e \in CsSink /\ csStep = "deliver"
                        \/ csAt'[e] # NoMaterial /\ ~credentialSyncNewer(csAt[e], csAt'[e])
                        \/ csAt'[e] = NoMaterial /\ csBest # NoMaterial
                             /\ ~credentialSyncNewer(csAt[e], csBest)
        OBVIOUS
    <2>1. ~syncReadEndpoints
        BY DEF syncReadEndpoints, Read
    <2> QED
        BY <2>1, CsWriteKeeps, CsClearKeeps, CsOthersKeep DEF CsNext
<1>4. CsSpec => []CsInv
    BY <1>2, CsInvInit, PTL DEF CsSpec
<1> QED
    BY <1>1, <1>3, <1>4, PTL DEF CsSpec, FresherValuesKept

----------------------------------------------------------------------------
(* AclRepair.                                                              *)

AclRows == {"absent", "none", "plain", "inherit"}
AclAll == AclPath \cup {AclRoot}

\* The repair knows of p, or has nothing to do there.
KnownOf(p) ==
    \/ ACLSatisfied(p) \/ p \in aclSince \/ p \in aclTodo
    \/ \E d \in AclAbove[p] : d \in aclQueue

\* What is in reach of a repair that has met neither a failure nor its bound is
\* known to it, or below a directory it has still to read.
AclInv ==
    /\ aclHas \in [AclAll -> AclRows]
    /\ aclTodo \subseteq AclPath /\ aclQueue \subseteq AclDir
    /\ aclFailed \in BOOLEAN /\ aclTruncated \in BOOLEAN
    /\ \A p \in AclPath : AclPresent(p) => \A d \in AclAbove[p] : AclPresent(d)
    /\ AclPresent(AclRoot)
    /\ aclStep \in {"collect", "root", "paths", "done"} /\ ~aclFailed /\ ~aclTruncated =>
         \A p \in AclPath : AclPresent(p) /\ InReach(p) => KnownOf(p)
    /\ aclStep \in {"root", "paths", "done"} => aclQueue = {}
    /\ aclStep \in {"paths", "done"} /\ ~aclFailed =>
         ACLSatisfied(AclRoot) \/ AclRoot \in aclSince
    /\ aclStep = "done" => ~aclFailed /\ aclTodo = {}

\* A tree: what is above a path is its directory, and what is above that.
LEMMA AclTree ==
    ASSUME NEW p \in AclPath
    PROVE  /\ AclAbove[p] \subseteq AclDir /\ AclRoot \in AclAbove[p]
           /\ AclParent[p] \in AclAbove[p]
           /\ \A d \in AclAbove[p] : d = AclParent[p] \/
                (AclParent[p] \in AclPath /\ d \in AclAbove[AclParent[p]])
           /\ \A d \in AclAbove[p] : d = AclParent[p] \/
                \E c \in AclAbove[p] \cap AclPath : AclParent[c] = d
BY AclTreeAssumption DEF AclDir

\* A grant satisfies, and so does what is inherited.
LEMMA GrantsSatisfy == \A p : Granted(p) \in Wanted(p) /\ Granted(p) \in AclRows
                              /\ Wanted(p) \subseteq AclRows /\ "absent" \notin Wanted(p)
BY DEF Granted, Wanted, AclRows

\* No repair has begun.
LEMMA AclInvInit == AclInit => AclInv
BY DEF AclInit, AclInv, AclAll, AclRows, AclPresent

\* What a step does that changes no file: it may know of less only where it was
\* not to look.
LEMMA JobSteps ==
    ASSUME AclInv, UNCHANGED <<aclHas, aclSince>>
    PROVE  /\ \A p : AclPresent(p)' = AclPresent(p) /\ ACLSatisfied(p)' = ACLSatisfied(p)
           /\ aclMode' = aclMode => \A p : InReach(p)' = InReach(p)
BY DEF AclPresent, ACLSatisfied, InReach, Collected, Shallow, Entered

\* A repair begins at the root, below which everything is.
LEMMA BeginKeeps ==
    ASSUME AclInv, NEW mode, AclBegin(mode)
    PROVE  AclInv'
<1>1. /\ UNCHANGED aclHas /\ aclStep' = "collect" /\ aclQueue' = {AclRoot} /\ aclTodo' = {}
      /\ aclFailed' = FALSE /\ aclTruncated' = FALSE
    BY DEF AclBegin
<1>2. \A p \in AclPath : KnownOf(p)'
    BY <1>1, AclTree DEF KnownOf
<1> QED
    BY <1>1, <1>2 DEF AclInv, AclPresent, AclDir

\* Reading a directory finds what is in it, or says it could not.
LEMMA ScanKeeps ==
    ASSUME AclInv, NEW d \in AclDir, Scan(d)
    PROVE  AclInv'
<1>1. /\ aclStep = "collect" /\ d \in aclQueue
      /\ UNCHANGED <<aclHas, aclMode, aclStep, aclSince>>
    BY DEF Scan
<1>2. \A p : /\ AclPresent(p)' = AclPresent(p) /\ ACLSatisfied(p)' = ACLSatisfied(p)
             /\ InReach(p)' = InReach(p)
    BY <1>1, JobSteps
<1>3. aclFailed' \in BOOLEAN /\ aclTruncated' \in BOOLEAN
    BY DEF Scan, AclInv
<1>4. aclTodo' \subseteq AclPath /\ aclQueue' \subseteq AclDir
    BY DEF Scan, Entries, AclInv
<1>5. ASSUME ~aclFailed', ~aclTruncated', NEW p \in AclPath, AclPresent(p), InReach(p)
      PROVE  KnownOf(p)'
    <2>0. /\ aclFailed' = aclFailed \/ aclFailed' = TRUE
          /\ aclTruncated' = aclTruncated \/ aclTruncated' = TRUE
          /\ aclTodo \subseteq aclTodo'
        BY DEF Scan
    <2>1. ~aclFailed /\ ~aclTruncated /\ aclTodo \subseteq aclTodo'
        BY <1>5, <2>0
    <2>2. KnownOf(p)
        BY <1>1, <1>5, <2>1 DEF AclInv
    <2>3. CASE ACLSatisfied(p) \/ p \in aclSince \/ p \in aclTodo
        BY <1>1, <1>2, <2>1, <2>3 DEF KnownOf
    <2>4. CASE \E a \in AclAbove[p] : a \in aclQueue /\ a # d
        <3>1. aclQueue \ {d} \subseteq aclQueue'
            BY <1>5 DEF Scan
        <3> QED
            BY <2>4, <3>1 DEF KnownOf
    <2>5. CASE d \in AclAbove[p]
        <3>1. Shallow(d) /\ Collected(p)
            BY <1>5, <2>5 DEF InReach
        <3>2. /\ aclTodo' = aclTodo \cup {q \in Entries(d) : Collected(q)}
              /\ aclQueue' = (aclQueue \ {d}) \cup {q \in Entries(d) \cap AclDir : Entered(q)}
            BY <1>5, <2>1, <3>1 DEF Scan
        <3>3. CASE d = AclParent[p]
            <4>1. p \in Entries(d)
                BY <1>5, <3>3 DEF Entries
            <4> QED
                BY <3>1, <3>2, <4>1 DEF KnownOf
        <3>4. CASE d # AclParent[p]
            <4>1. PICK c \in AclAbove[p] \cap AclPath : AclParent[c] = d
                BY <2>5, <3>4, AclTree
            <4>2. AclPresent(c) /\ c \in AclDir /\ c # AclRoot
                BY <1>5, <4>1, AclTree, AclTreeAssumption DEF AclInv
            <4>3. Entered(c)
                BY <1>5, <4>1, <4>2 DEF InReach
            <4>4. c \in aclQueue'
                BY <3>2, <4>1, <4>2, <4>3 DEF Entries
            <4> QED
                BY <4>1, <4>4 DEF KnownOf
        <3> QED
            BY <3>3, <3>4
    <2> QED
        BY <2>2, <2>3, <2>4, <2>5 DEF KnownOf
<1> QED
    BY <1>1, <1>2, <1>3, <1>4, <1>5 DEF AclInv, AclAll, AclRows

\* The steps that only move a repair on, or end it.
LEMMA MovesKeep ==
    ASSUME AclInv, PlanIsMade \/ RepairEnds \/ RepairDies
    PROVE  AclInv'
<1>1. /\ UNCHANGED <<aclHas, aclMode, aclSince, aclFailed, aclTruncated>>
      /\ aclStep \in {"collect", "root", "paths"}
      /\ aclStep' \in {"root", "paths", "done"} =>
            aclQueue = {} /\ UNCHANGED <<aclQueue, aclTodo>>
      /\ aclStep' \in {"root", "done", "failed"} /\ (aclStep' = "root" => aclStep = "collect")
      /\ aclStep' = "done" => aclStep = "paths" /\ aclTodo = {} /\ ~aclFailed
      /\ aclTodo' \subseteq aclTodo /\ aclQueue' \subseteq aclQueue
    <2>1. CASE PlanIsMade
        BY <2>1 DEF PlanIsMade
    <2>2. CASE RepairEnds
        <3>1. aclQueue = {}
            BY <2>2 DEF RepairEnds, AclInv
        <3>2. aclFailed \in BOOLEAN
            BY DEF AclInv
        <3>3. /\ aclStep = "paths" /\ aclTodo = {} /\ UNCHANGED <<aclTodo, aclQueue>>
              /\ aclStep' = "failed" \/ (aclStep' = "done" /\ ~aclFailed)
            BY <2>2, <3>2 DEF RepairEnds
        <3> QED
            BY <2>2, <3>1, <3>3 DEF RepairEnds
    <2>3. CASE RepairDies
        BY <2>3 DEF RepairDies
    <2> QED
        BY <2>1, <2>2, <2>3
<1>2. \A p : /\ AclPresent(p)' = AclPresent(p) /\ ACLSatisfied(p)' = ACLSatisfied(p)
             /\ InReach(p)' = InReach(p)
    BY <1>1, JobSteps
<1>3. aclStep' \in {"root", "done"} => \A p : KnownOf(p)' = KnownOf(p)
    BY <1>1, <1>2 DEF KnownOf
<1> QED
    BY <1>1, <1>2, <1>3 DEF AclInv

\* A grant that does not fail satisfies; and no grant is taken away by one.
LEMMA GrantKeeps ==
    ASSUME AclInv, NEW g \in AclAll, ensureProjectACL(g)
    PROVE  /\ aclFailed' \in BOOLEAN /\ aclHas' \in [AclAll -> AclRows]
           /\ ~aclFailed' => ~aclFailed /\ ACLSatisfied(g)'
           /\ \A p \in AclAll : /\ AclPresent(p)' = AclPresent(p)
                                /\ ACLSatisfied(p) => ACLSatisfied(p)'
<1>1. CASE ACLSatisfied(g) /\ UNCHANGED <<aclHas, aclFailed>>
    BY <1>1 DEF AclInv, ACLSatisfied, AclPresent
<1>2. CASE ~ACLSatisfied(g) /\ aclFailed' = TRUE /\ UNCHANGED aclHas
    BY <1>2 DEF AclInv, ACLSatisfied, AclPresent
<1>3. CASE /\ AclPresent(g) /\ ~ACLSatisfied(g) /\ UNCHANGED aclFailed
           /\ aclHas' = [aclHas EXCEPT ![g] = Granted(g)]
    <2>1. Granted(g) \in Wanted(g) /\ Granted(g) \in AclRows /\ Granted(g) # "absent"
        BY GrantsSatisfy
    <2>2. aclHas'[g] = Granted(g) /\ \A p \in AclAll : p # g => aclHas'[p] = aclHas[p]
        BY <1>3 DEF AclInv
    <2> QED
        BY <1>3, <2>1, <2>2 DEF AclInv, ACLSatisfied, AclPresent
<1> QED
    BY <1>1, <1>2, <1>3 DEF ensureProjectACL

\* What is granted is satisfied; below a directory it is inherited.
LEMMA GrantsKeep ==
    ASSUME AclInv, GrantRoot \/ GrantPath
    PROVE  AclInv'
<1>1. UNCHANGED <<aclMode, aclQueue, aclTruncated, aclSince>>
      /\ aclStep \in {"root", "paths"} /\ aclStep' = "paths"
    BY DEF GrantRoot, GrantPath
<1>2. PICK g \in AclAll :
         /\ ensureProjectACL(g) /\ aclTodo' = aclTodo \ {g}
         /\ aclStep = "root" => g = AclRoot
    <2>1. CASE GrantRoot
        BY <2>1, AclTreeAssumption DEF GrantRoot, AclInv, AclAll
    <2>2. CASE GrantPath
        BY <2>2 DEF GrantPath, Due, AclInv, AclAll
    <2> QED
        BY <2>1, <2>2
<1>3. /\ aclFailed' \in BOOLEAN /\ aclHas' \in [AclAll -> AclRows]
      /\ ~aclFailed' => ~aclFailed /\ ACLSatisfied(g)'
      /\ \A p \in AclAll : /\ AclPresent(p)' = AclPresent(p)
                           /\ ACLSatisfied(p) => ACLSatisfied(p)'
    BY <1>2, GrantKeeps
<1>4. \A p \in AclPath : InReach(p)' = InReach(p)
    BY <1>1 DEF InReach, Collected, Shallow, Entered
<1>5. ~aclFailed' => \A p \in AclPath : KnownOf(p) => KnownOf(p)'
    BY <1>1, <1>2, <1>3 DEF KnownOf, AclAll
<1>6. ~aclFailed' => ACLSatisfied(AclRoot)' \/ AclRoot \in aclSince'
    BY <1>1, <1>2, <1>3 DEF AclInv, AclAll
<1>7. \A p \in AclPath : AclPresent(p)' => \A d \in AclAbove[p] : AclPresent(d)'
    <2>1. \A p \in AclPath : AclAbove[p] \subseteq AclAll
        BY AclTree DEF AclAll, AclDir
    <2> QED
        BY <1>3, <2>1 DEF AclInv, AclAll
<1> QED
    BY <1>1, <1>2, <1>3, <1>4, <1>5, <1>6, <1>7 DEF AclInv, AclAll

\* What others do is known of: it has a grant, or it is noted.
LEMMA OthersKeep ==
    ASSUME AclInv, NEW g \in AclAll,
           (g \in AclPath /\ (CreatePath(g) \/ RemovePath(g))) \/ StripPath(g)
    PROVE  AclInv'
<1>1. UNCHANGED <<aclMode, aclStep, aclQueue, aclTodo, aclFailed, aclTruncated>>
    BY DEF CreatePath, RemovePath, StripPath, Others, aclJob
<1>2. /\ aclSince \subseteq aclSince' /\ aclHas' \in [AclAll -> AclRows]
      /\ \A p \in AclAll : p # g => aclHas'[p] = aclHas[p]
    BY DEF CreatePath, RemovePath, StripPath, Inherits, Granted, AclInv, AclAll, AclRows
<1>3. \A p \in AclAll : p # g => /\ AclPresent(p)' = AclPresent(p)
                                 /\ ACLSatisfied(p)' = ACLSatisfied(p)
    BY <1>2 DEF AclPresent, ACLSatisfied
<1>4. \A p \in AclPath : InReach(p)' = InReach(p)
    BY <1>1 DEF InReach, Collected, Shallow, Entered
<1>5. \/ AclPresent(g)' => ACLSatisfied(g)' \/ g \in aclSince'
    <2>1. CASE CreatePath(g) /\ g \in AclPath
        <3>1. aclHas'[g] = Inherits(g)
            BY <2>1 DEF CreatePath, AclInv, AclAll
        <3> QED
            BY <2>1, <3>1, GrantsSatisfy DEF CreatePath, Inherits, ACLSatisfied
    <2>2. CASE RemovePath(g)
        BY <2>2 DEF RemovePath, AclInv, AclAll, AclPresent
    <2>3. CASE StripPath(g)
        BY <2>3 DEF StripPath
    <2> QED
        BY <2>1, <2>2, <2>3
<1>6. \A p \in AclPath : AclPresent(p)' /\ InReach(p) /\ (AclPresent(p) => KnownOf(p))
                            => KnownOf(p)'
    BY <1>1, <1>2, <1>3, <1>5 DEF KnownOf, AclAll
<1>7. AclPresent(AclRoot)'
    BY <1>2, AclTreeAssumption DEF CreatePath, RemovePath, StripPath, AclInv, AclAll, AclPresent
<1>8. ASSUME NEW p \in AclPath, AclPresent(p)', NEW d \in AclAbove[p]
      PROVE  AclPresent(d)'
    <2>1. d \in AclAll
        BY AclTree DEF AclAll, AclDir
    <2>2. CASE d # g /\ p # g
        BY <1>3, <1>8, <2>1, <2>2 DEF AclInv, AclAll
    <2>3. CASE p = g /\ d # g
        <3>1. AclPresent(g) \/ AclPresent(AclParent[g])
            BY <1>2, <1>8, <2>3 DEF CreatePath, RemovePath, StripPath, AclPresent, AclInv, AclAll
        <3>2. AclPresent(d)
            BY <2>3, <3>1, AclTree DEF AclInv
        <3> QED
            BY <1>3, <2>1, <2>3, <3>2
    <2>4. CASE d = g /\ p # g
        <3>1. AclPresent(p) /\ AclPresent(g)
            BY <1>3, <1>8, <2>4 DEF AclInv, AclAll
        <3>2. ~RemovePath(g) \/ g \notin AclPath
            <4>1. SUFFICES ASSUME RemovePath(g), g \in AclPath PROVE FALSE
                OBVIOUS
            <4>2. CASE g = AclParent[p]
                BY <3>1, <4>1, <4>2 DEF RemovePath
            <4>3. CASE g # AclParent[p]
                <5>1. PICK c \in AclAbove[p] \cap AclPath : AclParent[c] = g
                    BY <2>4, <4>3, AclTree
                <5> QED
                    BY <3>1, <4>1, <5>1 DEF RemovePath, AclInv
            <4> QED
                BY <4>2, <4>3
        <3> QED
            BY <1>2, <2>4, <3>1, <3>2 DEF CreatePath, StripPath, AclPresent, AclInv, AclAll
    <2>5. CASE d = g /\ p = g
        BY <1>8, <2>5
    <2> QED
        BY <2>2, <2>3, <2>4, <2>5
<1>9. ACLSatisfied(AclRoot) \/ AclRoot \in aclSince
        => ACLSatisfied(AclRoot)' \/ AclRoot \in aclSince'
    BY <1>2, <1>3, <1>5, <1>7 DEF AclAll
<1> QED
    BY <1>1, <1>2, <1>4, <1>6, <1>7, <1>8, <1>9 DEF AclInv

\* Every step keeps it, whoever takes it.
LEMMA AclInvStep == AclInv /\ [AclNext]_aclVars => AclInv'
<1>1. ASSUME AclInv, UNCHANGED aclVars PROVE AclInv'
    <2>1. UNCHANGED <<aclHas, aclMode, aclStep, aclQueue, aclTodo, aclFailed, aclTruncated,
                      aclSince>>
        BY <1>1 DEF aclVars
    <2>2. \A p : /\ AclPresent(p)' = AclPresent(p) /\ ACLSatisfied(p)' = ACLSatisfied(p)
                 /\ InReach(p)' = InReach(p)
        BY <1>1, <2>1, JobSteps
    <2>3. \A p : KnownOf(p)' = KnownOf(p)
        BY <2>1, <2>2 DEF KnownOf
    <2> QED
        BY <1>1, <2>1, <2>2, <2>3 DEF AclInv
<1> QED
    BY <1>1, BeginKeeps, ScanKeeps, MovesKeep, GrantsKeep, OthersKeep
       DEF AclNext, ensureProjectWritable, runProjectACLBackfillCommand, AclAll

\* ensureProjectWritable and the backfill of workspace_acl.go and repair.go,
\* whatever the tree, and however often the others change it meanwhile.
THEOREM RepairReachesAll == AclSpec => []RepairReachesReported
<1>1. AclInv => RepairReachesReported
    BY DEF AclInv, KnownOf, RepairReachesReported
<1> QED
    BY <1>1, AclInvInit, AclInvStep, PTL DEF AclSpec

\* Who owns and changed what, and where the repair is.
AclMarks ==
    /\ aclMine \subseteq AclPath \cup {AclRoot} /\ aclSince \subseteq AclPath \cup {AclRoot}
    /\ aclMode \in {"startup", "backfill"}
    /\ aclStep \in {"idle", "collect", "root", "paths", "done", "failed"}

LEMMA AclMarksInit == AclInit => AclMarks
BY DEF AclInit, AclMarks

LEMMA AclMarksStep == AclMarks /\ [AclNext]_aclVars => AclMarks'
<1> SUFFICES ASSUME AclMarks, [AclNext]_aclVars
             PROVE  AclMarks'
    OBVIOUS
<1>1. CASE ensureProjectWritable \/ runProjectACLBackfillCommand
    BY <1>1 DEF AclMarks, ensureProjectWritable, runProjectACLBackfillCommand, AclBegin
<1>2. ASSUME NEW d \in AclDir, Scan(d)
      PROVE  AclMarks'
    BY <1>2 DEF AclMarks, Scan
<1>3. CASE PlanIsMade \/ GrantRoot \/ GrantPath \/ RepairEnds \/ RepairDies
    BY <1>3 DEF AclMarks, PlanIsMade, GrantRoot, GrantPath, RepairEnds, RepairDies
<1>4. ASSUME NEW p \in AclPath, CreatePath(p)
      PROVE  AclMarks'
    BY <1>4 DEF AclMarks, CreatePath, Others, aclJob
<1>5. ASSUME NEW p \in AclPath \cup {AclRoot}, RemovePath(p) \/ StripPath(p)
      PROVE  AclMarks'
    BY <1>5 DEF AclMarks, RemovePath, StripPath, Others, aclJob
<1>6. CASE UNCHANGED aclVars
    BY <1>6 DEF AclMarks, aclVars
<1> QED
    BY <1>1, <1>2, <1>3, <1>4, <1>5, <1>6 DEF AclNext

LEMMA RepairTypes == AclSpec => []AclTypeOK
<1>1. AclInv /\ AclMarks => AclTypeOK
    BY DEF AclInv, AclMarks, AclTypeOK, AclAll, AclRows
<1> QED
    BY <1>1, AclInvInit, AclInvStep, AclMarksInit, AclMarksStep, PTL DEF AclSpec

----------------------------------------------------------------------------
(* GitTrust.                                                               *)

GtSteps == DOMAIN Otherwise \cup {"idle", "append", "running", "failed"}

\* What hazmat would write for the directories it may be given are lines.
LEMMA ManagedAreLines ==
    \A dirs \in SUBSET GtRoots : /\ ManagedLines(dirs) \subseteq GtLine
                                 /\ \A l \in ManagedLines(dirs) : l.managed
                                 /\ dirs = {} => ManagedLines(dirs) = {}
BY GitTrustAssumption DEF ManagedLines, GtLine, GtEntry

\* And so is what others write there.
LEMMA ForeignAreLines ==
    \A l \in [entry : GtForeign, managed : {FALSE}] : l \in GtLine /\ ~l.managed
BY GitTrustAssumption DEF GtLine

\* The steps of a preparation.
LEMMA GtStepNames ==
    /\ DOMAIN Otherwise = {"plan", "ensure", "verify"}
    /\ "idle" \in GtSteps /\ "plan" \in GtSteps /\ "append" \in GtSteps
    /\ "verify" \in GtSteps /\ "running" \in GtSteps /\ "failed" \in GtSteps
    /\ \A x \in DOMAIN Otherwise : Otherwise[x] \in GtSteps /\ Otherwise[x] # "running"
BY DEF GtSteps, Otherwise

\* A rewrite keeps the lines of others; with nothing wanted it keeps only them.
LEMMA RewriteKeepsOthers ==
    ASSUME NEW lines \in SUBSET GtLine, NEW dirs \in SUBSET GtRoots
    PROVE  /\ rewriteHazmatSafeDirectoryConfig(lines, dirs) \subseteq GtLine
           /\ \A l \in lines : l.managed \/ l \in rewriteHazmatSafeDirectoryConfig(lines, dirs)
           /\ dirs = {} => \A l \in rewriteHazmatSafeDirectoryConfig(lines, dirs) : ~l.managed
BY ManagedAreLines DEF rewriteHazmatSafeDirectoryConfig

GtInv ==
    /\ GtTypeOK
    /\ SessionTrustsRepo
    /\ gtSetup # "idle" => \A l \in gtSystem : l.managed \/ l \in gtWrites \cup gtNewer
    /\ gtSetup = "rollback" => \A l \in gtWrites : ~l.managed

\* What the check reads as a cover, git trusts.
LEMMA CoversIsTrust ==
    ASSUME NEW repo
    PROVE  /\ safeDirectoryCovers(EntriesOf(gtSystem), repo) => GitTrusts(gtSystem, gtAgent, repo)
           /\ safeDirectoryCovers(gtAgent, repo) => GitTrusts(gtSystem, gtAgent, repo)
BY DEF safeDirectoryCovers, GitTrusts

\* The trusted directories of others are there before hazmat writes.
LEMMA GtInvInit == GtInit => GtInv
<1> SUFFICES ASSUME GtInit PROVE GtInv
    OBVIOUS
<1>1. gtSystem \subseteq GtLine
    BY ForeignAreLines DEF GtInit
<1>2. gtStep \in [GtSession -> GtSteps] /\ \A s \in GtSession : gtStep[s] = "idle"
    BY GtStepNames DEF GtInit
<1>3. GtTypeOK
    BY <1>1, <1>2 DEF GtInit, GtTypeOK, GtSteps
<1> QED
    BY <1>2, <1>3 DEF GtInit, GtInv, SessionTrustsRepo

\* Setup and rollback.
LEMMA HostWritesKeep ==
    GtInv /\ (SetupGitSafeDirectory \/ RollbackGitSafeDirectory \/ WriteConfig \/ HostEdits)
        => GtInv'
<1>1. ASSUME GtInv, NEW job \in {"setup", "rollback"}, ReadConfig(job) PROVE GtInv'
    <2> DEFINE dirs == IF job = "setup" THEN gtReadDirs ELSE {}
    <2>1. gtSystem \in SUBSET GtLine /\ dirs \in SUBSET GtRoots
        BY <1>1 DEF GtInv, GtTypeOK
    <2>2. gtWrites' = rewriteHazmatSafeDirectoryConfig(gtSystem, dirs)
        BY <1>1 DEF ReadConfig
    <2>3. /\ gtWrites' \subseteq GtLine
          /\ \A l \in gtSystem : l.managed \/ l \in gtWrites'
          /\ dirs = {} => \A l \in gtWrites' : ~l.managed
        BY <2>1, <2>2, RewriteKeepsOthers
    <2>4. job = "rollback" => dirs = {}
        OBVIOUS
    <2>5. /\ UNCHANGED <<gtSystem, gtAgent, gtReadDirs, gtStep, gtHalf, gtRepo, gtTaken>>
          /\ gtSetup' = job /\ gtNewer' = {}
        BY <1>1 DEF ReadConfig, gtSess
    <2> HIDE DEF dirs
    <2>6. GtTypeOK'
        BY <1>1, <2>3, <2>5 DEF GtInv, GtTypeOK
    <2>7. SessionTrustsRepo'
        BY <1>1, <2>5 DEF GtInv, SessionTrustsRepo
    <2> QED
        BY <2>3, <2>4, <2>5, <2>6, <2>7 DEF GtInv
<1>2. ASSUME GtInv, Noting, UNCHANGED <<gtStep, gtHalf, gtRepo>>
      PROVE  SessionTrustsRepo' /\ gtTaken' \subseteq GtSession
    BY <1>2 DEF GtInv, GtTypeOK, SessionTrustsRepo, Noting
<1>3. ASSUME GtInv, WriteConfig PROVE GtInv'
    <2>1. gtSystem' \subseteq GtLine
        BY <1>3 DEF GtInv, GtTypeOK, WriteConfig
    <2>2. SessionTrustsRepo' /\ gtTaken' \subseteq GtSession
        BY <1>2, <1>3 DEF WriteConfig, gtSess
    <2>3. /\ UNCHANGED <<gtAgent, gtReadDirs, gtStep, gtHalf, gtRepo>>
          /\ gtSetup' = "idle" /\ gtNewer' = {} /\ gtWrites' = {}
        BY <1>3 DEF WriteConfig, gtSess
    <2>4. GtTypeOK'
        BY <1>3, <2>1, <2>2, <2>3 DEF GtInv, GtTypeOK
    <2> QED
        BY <2>2, <2>3, <2>4 DEF GtInv
<1>4. ASSUME GtInv, HostEdits PROVE GtInv'
    <2>1. SessionTrustsRepo' /\ gtTaken' \subseteq GtSession
        BY <1>2, <1>4 DEF HostEdits, gtSess
    <2>2. UNCHANGED <<gtAgent, gtSetup, gtWrites, gtStep, gtHalf, gtRepo>>
        BY <1>4 DEF HostEdits, gtSess
    <2>3. CASE gtReadDirs' \in SUBSET GtRoots /\ UNCHANGED <<gtSystem, gtNewer>>
        <3>1. GtTypeOK'
            BY <1>4, <2>1, <2>2, <2>3 DEF GtInv, GtTypeOK
        <3> QED
            BY <1>4, <2>1, <2>2, <2>3, <3>1 DEF GtInv
    <2>4. ASSUME NEW l \in [entry : GtForeign, managed : {FALSE}],
                 gtSystem' = IF l \in gtSystem THEN gtSystem \ {l} ELSE gtSystem \cup {l},
                 gtNewer' = IF l \in gtSystem \/ gtSetup = "idle" THEN gtNewer \ {l}
                            ELSE gtNewer \cup {l},
                 UNCHANGED gtReadDirs
          PROVE  GtInv'
        <3>1. gtSystem' \subseteq GtLine /\ gtNewer' \subseteq GtLine
            <4>1. l \in GtLine
                BY ForeignAreLines
            <4>2. gtSystem \subseteq GtLine /\ gtNewer \subseteq GtLine
                BY <1>4 DEF GtInv, GtTypeOK
            <4> QED
                BY <2>4, <4>1, <4>2
        <3>2. GtTypeOK'
            BY <1>4, <2>1, <2>2, <2>4, <3>1 DEF GtInv, GtTypeOK
        <3>3. gtSetup # "idle" => \A m \in gtSystem' : m.managed \/ m \in gtWrites \cup gtNewer'
            BY <1>4, <2>4 DEF GtInv
        <3> QED
            BY <1>4, <2>1, <2>2, <3>2, <3>3 DEF GtInv
    <2> QED
        BY <1>4, <2>3, <2>4 DEF HostEdits
<1> QED
    BY <1>1, <1>3, <1>4 DEF SetupGitSafeDirectory, RollbackGitSafeDirectory

\* A session and what the agent does.
LEMMA SessionStepsKeep ==
    ASSUME GtInv, NEW s \in GtSession,
           GtBegin(s) \/ CheckTrust(s) \/ appendAgentGlobalSafeDirectoryEntry(s)
    PROVE  GtInv'
<1> USE GtStepNames
<1>1. CASE GtBegin(s)
    <2>1. /\ gtStep' = [gtStep EXCEPT ![s] = "plan"] /\ gtTaken' = gtTaken \ {s}
          /\ gtHalf' = [gtHalf EXCEPT ![s] = "system"]
          /\ \E repo \in GtDir : gtRepo' = [gtRepo EXCEPT ![s] = repo]
          /\ UNCHANGED <<gtSystem, gtAgent, gtReadDirs, gtSetup, gtWrites, gtNewer>>
        BY <1>1 DEF GtBegin, gtHost
    <2>2. GtTypeOK'
        BY <2>1 DEF GtInv, GtTypeOK, GtSteps
    <2>3. \A t \in GtSession : t # s => gtStep'[t] = gtStep[t] /\ gtRepo'[t] = gtRepo[t]
        BY <2>1 DEF GtInv, GtTypeOK
    <2>4. gtStep'[s] = "plan"
        BY <2>1 DEF GtInv, GtTypeOK
    <2> QED
        BY <2>1, <2>2, <2>3, <2>4 DEF GtInv, SessionTrustsRepo
<1>2. CASE CheckTrust(s)
    <2>1. UNCHANGED <<gtSystem, gtAgent, gtReadDirs, gtSetup, gtWrites, gtNewer, gtRepo, gtTaken>>
        BY <1>2 DEF CheckTrust, gtHost
    <2>2. gtStep[s] \in DOMAIN Otherwise
        BY <1>2 DEF CheckTrust
    <2>3. \/ /\ gtStep' = [gtStep EXCEPT ![s] = "running"]
             /\ GitTrusts(gtSystem, gtAgent, gtRepo[s])
          \/ gtStep' = [gtStep EXCEPT ![s] = Otherwise[gtStep[s]]]
          \/ gtStep' = gtStep
        BY <1>2, CoversIsTrust DEF CheckTrust, Judge
    <2>4. \E h \in {"system", "agent"} : gtHalf' = [gtHalf EXCEPT ![s] = h]
        BY <1>2 DEF CheckTrust, Judge
    <2>5. gtStep' \in [GtSession -> GtSteps]
        BY <2>2, <2>3 DEF GtInv, GtTypeOK, GtSteps
    <2>6. GtTypeOK'
        BY <2>1, <2>4, <2>5, ZenonT(40) DEF GtInv, GtTypeOK, GtSteps
    <2>7. \A t \in GtSession : gtStep'[t] = "running" =>
             gtStep[t] = "running" \/ (t = s /\ GitTrusts(gtSystem, gtAgent, gtRepo[s]))
        BY <2>2, <2>3 DEF GtInv, GtTypeOK
    <2> QED
        BY <2>1, <2>6, <2>7 DEF GtInv, SessionTrustsRepo
<1>3. CASE appendAgentGlobalSafeDirectoryEntry(s)
    <2>1. UNCHANGED <<gtSystem, gtReadDirs, gtSetup, gtWrites, gtNewer, gtHalf, gtRepo, gtTaken>>
        BY <1>3 DEF appendAgentGlobalSafeDirectoryEntry, gtHost
    <2>2. gtAgent \subseteq gtAgent' /\ gtAgent' \subseteq GtEntry
        <3>1. gtAgent \subseteq GtEntry
            BY DEF GtInv, GtTypeOK
        <3>2. [dir |-> gtRepo[s], below |-> FALSE] \in GtEntry
            BY DEF GtInv, GtTypeOK, GtEntry
        <3> QED
            BY <1>3, <3>1, <3>2 DEF appendAgentGlobalSafeDirectoryEntry
    <2>3. \E x \in {"verify", "failed"} : gtStep' = [gtStep EXCEPT ![s] = x]
        BY <1>3 DEF appendAgentGlobalSafeDirectoryEntry
    <2>4. gtStep' \in [GtSession -> GtSteps]
        BY <2>3 DEF GtInv, GtTypeOK, GtSteps
    <2>5. GtTypeOK'
        BY <2>1, <2>2, <2>4 DEF GtInv, GtTypeOK, GtSteps
    <2>6. \A t \in GtSession : gtStep'[t] = "running" => gtStep[t] = "running"
        BY <2>3 DEF GtInv, GtTypeOK
    <2>7. \A r : GitTrusts(gtSystem, gtAgent, r) => GitTrusts(gtSystem, gtAgent', r)
        BY <2>2 DEF GitTrusts
    <2> QED
        BY <2>1, <2>5, <2>6, <2>7 DEF GtInv, SessionTrustsRepo
<1> QED
    BY <1>1, <1>2, <1>3

\* The agent's own configuration is read by git before the system's.
LEMMA AgentEditsKeep == GtInv /\ AgentEdits => GtInv'
<1> SUFFICES ASSUME GtInv, AgentEdits PROVE GtInv'
    OBVIOUS
<1>1. UNCHANGED <<gtSystem, gtReadDirs, gtSetup, gtWrites, gtNewer, gtStep, gtHalf, gtRepo>>
    BY DEF AgentEdits, gtHost, gtSess
<1>2. PICK d \in GtDir, below \in BOOLEAN :
         gtAgent' \in {gtAgent \cup {[dir |-> d, below |-> below]},
                       gtAgent \ {[dir |-> d, below |-> below]}}
    BY DEF AgentEdits
<1>3. [dir |-> d, below |-> below] \in GtEntry
    BY DEF GtEntry
<1>4. gtAgent' \subseteq GtEntry
    BY <1>2, <1>3 DEF GtInv, GtTypeOK
<1>5. SessionTrustsRepo' /\ gtTaken' \subseteq GtSession
    BY <1>1 DEF GtInv, GtTypeOK, SessionTrustsRepo, AgentEdits, Noting
<1>6. GtTypeOK'
    BY <1>1, <1>4, <1>5 DEF GtInv, GtTypeOK
<1> QED
    BY <1>1, <1>5, <1>6 DEF GtInv

\* Every step keeps it, the writers of /etc/gitconfig racing or not.
LEMMA GtInvStep == GtInv /\ [GtNext]_gtVars => GtInv'
<1> SUFFICES ASSUME GtInv, [GtNext]_gtVars PROVE GtInv'
    OBVIOUS
<1>1. CASE UNCHANGED gtVars
    <2>1. UNCHANGED <<gtSystem, gtAgent, gtReadDirs, gtSetup, gtWrites, gtNewer, gtStep, gtHalf,
                      gtRepo, gtTaken>>
        BY <1>1 DEF gtVars, gtHost, gtSess
    <2> QED
        BY <2>1 DEF GtInv, GtTypeOK, SessionTrustsRepo, GitTrusts, EntriesOf
<1> QED
    BY <1>1, HostWritesKeep, SessionStepsKeep, AgentEditsKeep DEF GtNext

\* No step of hazmat's takes away what others had put there before it looked.
LEMMA GtStepKeepsForeign ==
    GtInv /\ [GtNext]_gtVars =>
      [gtSetup # "idle" /\ gtSetup' = "idle" =>
         /\ \A l \in gtSystem \ gtSystem' : l.managed \/ l \in gtNewer
         /\ gtSetup = "rollback" /\ gtSystem' # gtSystem =>
              \A l \in gtSystem' : ~l.managed]_gtVars
<1> SUFFICES ASSUME GtInv, GtNext, gtSetup # "idle", gtSetup' = "idle"
             PROVE  /\ \A l \in gtSystem \ gtSystem' : l.managed \/ l \in gtNewer
                    /\ gtSetup = "rollback" /\ gtSystem' # gtSystem =>
                         \A l \in gtSystem' : ~l.managed
    OBVIOUS
<1>1. WriteConfig
    <2>1. \A s : gtHost' = gtHost => gtSetup' = gtSetup
        BY DEF gtHost
    <2> QED
        BY <2>1 DEF GtNext, SetupGitSafeDirectory, RollbackGitSafeDirectory, ReadConfig,
                    GtBegin, CheckTrust, appendAgentGlobalSafeDirectoryEntry, HostEdits, AgentEdits
<1> QED
    BY <1>1 DEF WriteConfig, GtInv

\* The safe directories of git_safe_directory.go, for any directories, sessions
\* and lines of others.
THEOREM TrustIsKept == GtSpec => [](GtTypeOK /\ SessionTrustsRepo) /\ ForeignTrustKept
<1>1. GtInv => GtTypeOK /\ SessionTrustsRepo
    BY DEF GtInv
<1>2. GtSpec => []GtInv
    BY GtInvInit, GtInvStep, PTL DEF GtSpec
<1> QED
    BY <1>1, <1>2, GtStepKeepsForeign, PTL DEF GtSpec, ForeignTrustKept

----------------------------------------------------------------------------
(* LaunchHelper.                                                           *)

\* What is still to be read of the argument list, from each of its parts on.
FromTerminator(r) == <<"--">> \o r.args

FromPair(r, n) == EnvWords(SubSeq(r.env, n + 1, Len(r.env))) \o FromTerminator(r)

FromDirectory(r) == <<"--hazmat-working-dir", "dir">> \o FromPair(r, 0)

FromCommand(r) == IF r.direct THEN <<"--hazmat-direct-exec">> \o FromDirectory(r) ELSE Meant(r)

FromTemp(r) ==
    IF r.temp THEN <<"--hazmat-session-temp", "tmp">> \o FromCommand(r) ELSE FromCommand(r)

FromMetadata(r) ==
    IF r.metadata THEN <<"--hazmat-metadata-json", "{}">> \o FromTemp(r) ELSE FromTemp(r)

FromPolicy(r) == <<"policy">> \o FromMetadata(r)

FromCurrent(r) == IF r.current THEN <<"--hazmat-current-user">> \o FromPolicy(r) ELSE FromPolicy(r)

FromProfile(r) ==
    IF r.profile THEN <<"--hazmat-launch-profile">> \o FromCurrent(r) ELSE FromCurrent(r)

LhRequest == [profile : BOOLEAN, current : BOOLEAN, metadata : BOOLEAN, temp : BOOLEAN,
              direct : BOOLEAN, env : EnvLists, args : CommandLines]

\* What the helper has understood, before the command.
Understood(profile, current, metadata, scratch, direct, dir, env, command) ==
    [profile |-> profile, current |-> current, metadata |-> metadata, temp |-> scratch,
     direct |-> direct, dir |-> dir, env |-> env, command |-> command]

\* The parts of the list up to the policy, and behind it.
ReadsModes(r) ==
    \/ lhWords = FromProfile(r)
       /\ lhParsed = Understood(FALSE, FALSE, FALSE, FALSE, FALSE, FALSE, <<>>, <<>>)
    \/ lhWords = FromCurrent(r)
       /\ lhParsed = Understood(r.profile, FALSE, FALSE, FALSE, FALSE, FALSE, <<>>, <<>>)
    \/ lhWords = FromPolicy(r)
       /\ lhParsed = Understood(r.profile, r.current, FALSE, FALSE, FALSE, FALSE, <<>>, <<>>)

AtMetadata(r) ==
    /\ lhWords = FromMetadata(r)
    /\ lhParsed = Understood(r.profile, r.current, FALSE, FALSE, FALSE, FALSE, <<>>, <<>>)

AtTemp(r) ==
    /\ lhWords = FromTemp(r)
    /\ lhParsed = Understood(r.profile, r.current, r.metadata, FALSE, FALSE, FALSE, <<>>, <<>>)

AtCommand(r) ==
    /\ lhWords = FromCommand(r)
    /\ lhParsed = Understood(r.profile, r.current, r.metadata, r.temp, FALSE, FALSE, <<>>, <<>>)

AtDirectory(r) ==
    /\ r.direct /\ lhWords = FromDirectory(r)
    /\ lhParsed = Understood(r.profile, r.current, r.metadata, r.temp, TRUE, FALSE, <<>>, <<>>)

AtPair(r, n) ==
    /\ r.direct /\ lhWords = FromPair(r, n)
    /\ lhParsed = Understood(r.profile, r.current, r.metadata, r.temp, TRUE, TRUE,
                             SubSeq(r.env, 1, n), <<>>)

ReadsOptions(r) ==
    \/ AtMetadata(r) \/ AtTemp(r) \/ AtCommand(r) \/ AtDirectory(r)
    \/ \E n \in 0..Len(r.env) : AtPair(r, n)

\* All of it.
HasRead(r) ==
    lhParsed = Understood(r.profile, r.current, r.metadata, r.temp, r.direct, r.direct,
                          IF r.direct THEN r.env ELSE <<>>, Meant(r))

Before == {"write", "chmod", "mode", "parse"}
Confined == {"metadata", "exec", "direct", "running"}

\* At every step the helper has understood what it has read as it was meant, and
\* has done what it has understood, in order.
LhInv ==
    /\ lhReq \in LhRequest
    /\ lhPc \in Before \union Confined \union {"policy", "read", "temp", "sandbox", "dead"}
    /\ lhPc \in {"write", "chmod", "mode"} => ReadsModes(lhReq)
    /\ lhPc = "parse" => ReadsOptions(lhReq)
    /\ lhPc \notin Before \union {"dead"} => HasRead(lhReq)
    /\ lhPc \in Before \union {"policy", "read", "temp"} => lhTemp = FALSE
    /\ lhPc \in Confined \union {"sandbox"} => lhTemp = lhReq.temp
    /\ lhPc \in Confined => lhSandbox = TRUE
    /\ lhPc = "temp" => lhReq.temp = TRUE
    /\ lhPc = "metadata" => lhReq.metadata = TRUE
    /\ lhPc \in Before \union {"policy", "read", "temp", "sandbox", "metadata"} => lhMetadata = FALSE
    /\ lhPc \in {"exec", "direct", "running"} => lhMetadata = lhReq.metadata
    /\ lhTemp \in BOOLEAN /\ lhSandbox \in BOOLEAN /\ lhMetadata \in BOOLEAN
    /\ lhMetadata = TRUE => lhSandbox = TRUE
    /\ lhHelper \in Helpers /\ lhFile \in {"none", "narrow", "ready"}

\* One or two words in front of others.
LEMMA OneInFront ==
    ASSUME NEW W, NEW a \in W, NEW s \in Seq(W)
    PROVE  /\ <<a>> \o s \in Seq(W) /\ <<a>> \o s # <<>>
           /\ Len(<<a>> \o s) = 1 + Len(s)
           /\ Head(<<a>> \o s) = a /\ Tail(<<a>> \o s) = s
<1> DEFINE w == <<a>> \o s
<1>1. <<a>> \in Seq(W) /\ Len(<<a>>) = 1 /\ <<a>>[1] = a
    OBVIOUS
<1>2. /\ w \in Seq(W) /\ Len(w) = 1 + Len(s)
      /\ \A i \in 1..(1 + Len(s)) : w[i] = IF i <= 1 THEN <<a>>[i] ELSE s[i - 1]
    BY <1>1, ConcatProperties
<1>3. Len(s) \in Nat
    OBVIOUS
<1> HIDE DEF w
<1>4. w # <<>> /\ Head(w) = a
    BY <1>1, <1>2, <1>3
<1>5. Tail(w) = s
    <2>1. /\ Tail(w) \in Seq(W) /\ Len(Tail(w)) = Len(w) - 1
          /\ \A i \in 1..Len(Tail(w)) : Tail(w)[i] = w[i + 1]
        BY <1>2, <1>4, HeadTailProperties
    <2>2. Len(Tail(w)) = Len(s)
        BY <1>2, <1>3, <2>1
    <2>3. \A i \in 1..Len(s) : Tail(w)[i] = s[i]
        <3>1. ASSUME NEW i \in 1..Len(s)  PROVE Tail(w)[i] = s[i]
            <4>1. i + 1 \in 1..(1 + Len(s)) /\ ~(i + 1 <= 1) /\ (i + 1) - 1 = i
                BY <1>3
            <4> QED
                BY <1>2, <2>1, <2>2, <4>1
        <3> QED
            BY <3>1
    <2> QED
        BY <2>1, <2>2, <2>3, SeqEqual
<1> QED
    BY <1>2, <1>4, <1>5 DEF w

LEMMA TwoInFront ==
    ASSUME NEW W, NEW a \in W, NEW b \in W, NEW s \in Seq(W)
    PROVE  /\ <<a, b>> \o s \in Seq(W) /\ <<a, b>> \o s # <<>>
           /\ Len(<<a, b>> \o s) = 2 + Len(s)
           /\ Head(<<a, b>> \o s) = a /\ (<<a, b>> \o s)[2] = b
           /\ SubSeq(<<a, b>> \o s, 3, Len(<<a, b>> \o s)) = s
<1> DEFINE w == <<a, b>> \o s
<1>1. <<a, b>> \in Seq(W) /\ Len(<<a, b>>) = 2 /\ <<a, b>>[1] = a /\ <<a, b>>[2] = b
    OBVIOUS
<1>2. /\ w \in Seq(W) /\ Len(w) = 2 + Len(s)
      /\ \A i \in 1..(2 + Len(s)) : w[i] = IF i <= 2 THEN <<a, b>>[i] ELSE s[i - 2]
    BY <1>1, ConcatProperties
<1>3. Len(s) \in Nat
    OBVIOUS
<1> HIDE DEF w
<1>4. w # <<>> /\ Head(w) = a /\ w[2] = b
    BY <1>1, <1>2, <1>3
<1>5. SubSeq(w, 3, Len(w)) = s
    <2> DEFINE t == SubSeq(w, 3, Len(w))
    <2>1. \A i \in 3..Len(w) : w[i] \in W
        BY <1>2
    <2>2. 3 \in Int /\ Len(w) \in Int
        BY <1>2, <1>3
    <2>3. /\ t \in Seq(W) /\ Len(t) = IF 3 <= Len(w) THEN Len(w) - 3 + 1 ELSE 0
          /\ \A i \in 1..(Len(w) - 3 + 1) : t[i] = w[3 + i - 1]
        BY <2>1, <2>2, SubSeqProperties
    <2>4. Len(t) = Len(s)
        BY <1>2, <1>3, <2>3
    <2>5. \A i \in 1..Len(s) : t[i] = s[i]
        <3>1. ASSUME NEW i \in 1..Len(s)  PROVE t[i] = s[i]
            <4>1. /\ i + 2 \in 1..(2 + Len(s)) /\ ~(i + 2 <= 2) /\ (i + 2) - 2 = i
                  /\ i \in 1..(Len(w) - 3 + 1) /\ 3 + i - 1 = i + 2
                BY <1>2, <1>3
            <4> QED
                BY <1>2, <2>3, <4>1
        <3> QED
            BY <3>1
    <2> HIDE DEF t
    <2>6. t = s
        BY <2>3, <2>4, <2>5, SeqEqual
    <2> QED
        BY <2>6 DEF t
<1> QED
    BY <1>2, <1>4, <1>5 DEF w

LEMMA OneAndTwo ==
    ASSUME NEW a, NEW b, NEW c
    PROVE  <<a>> \o <<b, c>> = <<a, b, c>>
<1> DEFINE W == {a, b, c}
<1>1. /\ <<a>> \in Seq(W) /\ <<b, c>> \in Seq(W) /\ <<a, b, c>> \in Seq(W)
      /\ Len(<<a>>) = 1 /\ Len(<<b, c>>) = 2 /\ Len(<<a, b, c>>) = 3
      /\ <<a>>[1] = a /\ <<b, c>>[1] = b /\ <<b, c>>[2] = c
      /\ <<a, b, c>>[1] = a /\ <<a, b, c>>[2] = b /\ <<a, b, c>>[3] = c
    OBVIOUS
<1> DEFINE s == <<a>> \o <<b, c>>
<1>2. /\ s \in Seq(W) /\ Len(s) = 3
      /\ \A i \in 1..3 : s[i] = IF i <= 1 THEN <<a>>[i] ELSE <<b, c>>[i - 1]
    <2>1. /\ s \in Seq(W) /\ Len(s) = Len(<<a>>) + Len(<<b, c>>)
          /\ \A i \in 1..(Len(<<a>>) + Len(<<b, c>>)) :
               s[i] = IF i <= Len(<<a>>) THEN <<a>>[i] ELSE <<b, c>>[i - Len(<<a>>)]
        BY <1>1, ConcatProperties
    <2>2. Len(<<a>>) + Len(<<b, c>>) = 3
        BY <1>1
    <2> QED
        BY <1>1, <2>1, <2>2
<1> HIDE DEF s
<1>3. \A i \in 1..3 : s[i] = <<a, b, c>>[i]
    <2>1. s[1] = a /\ s[2] = b /\ s[3] = c
        BY <1>1, <1>2
    <2> QED
        BY <1>1, <2>1
<1>4. s = <<a, b, c>>
    BY <1>1, <1>2, <1>3, SeqEqual
<1> QED
    BY <1>4 DEF s

\* The pairs are words, "--hazmat-env" before each.
LEMMA PairsAreWords ==
    ASSUME NEW W, "--hazmat-env" \in W, NEW e \in Seq(W)
    PROVE  /\ EnvWords(e) \in Seq(W) /\ Len(EnvWords(e)) = 2 * Len(e)
           /\ \A i \in 1..2 * Len(e) :
                EnvWords(e)[i] = IF i % 2 = 1 THEN "--hazmat-env" ELSE e[i \div 2]
<1>1. Len(e) \in Nat /\ 2 * Len(e) \in Nat
    OBVIOUS
<1>2. ASSUME NEW i \in 1..2 * Len(e), i % 2 # 1
      PROVE  i \div 2 \in 1..Len(e)
    BY <1>1, <1>2
<1>3. \A i \in 1..2 * Len(e) : (IF i % 2 = 1 THEN "--hazmat-env" ELSE e[i \div 2]) \in W
    BY <1>2
<1>4. EnvWords(e) \in [1..2 * Len(e) -> W]
    BY <1>3 DEF EnvWords
<1>5. EnvWords(e) \in Seq(W)
    BY <1>1, <1>4, IsASeq
<1>6. Len(EnvWords(e)) = 2 * Len(e)
    BY <1>1, <1>4, <1>5, LenProperties
<1> QED
    BY <1>5, <1>6 DEF EnvWords

LEMMA NoPairs == EnvWords(<<>>) = <<>>
<1>1. Len(<<>>) = 0 /\ <<>> \in Seq({"--hazmat-env"})
    OBVIOUS
<1>2. EnvWords(<<>>) \in Seq({"--hazmat-env"}) /\ Len(EnvWords(<<>>)) = 0
    <2>1. "--hazmat-env" \in {"--hazmat-env"}
        OBVIOUS
    <2>2. EnvWords(<<>>) \in Seq({"--hazmat-env"}) /\ Len(EnvWords(<<>>)) = 2 * Len(<<>>)
        BY <1>1, <2>1, PairsAreWords
    <2> QED
        BY <1>1, <2>2
<1> QED
    BY <1>2, EmptySeq

\* The first of the pairs left, and the others.
LEMMA PairInFront ==
    ASSUME NEW W, "--hazmat-env" \in W, NEW e \in Seq(W), NEW n \in 0..(Len(e) - 1)
    PROVE  /\ e[n + 1] \in W
           /\ SubSeq(e, n + 1, Len(e)) \in Seq(W) /\ SubSeq(e, n + 2, Len(e)) \in Seq(W)
           /\ EnvWords(SubSeq(e, n + 1, Len(e)))
                = <<"--hazmat-env", e[n + 1]>> \o EnvWords(SubSeq(e, n + 2, Len(e)))
<1> DEFINE m == Len(e)
           s == SubSeq(e, n + 1, m)
           t == SubSeq(e, n + 2, m)
           k == m - n - 1
<1>1. m \in Nat /\ n \in Nat /\ n + 1 \in 1..m /\ n + 2 \in Int /\ k \in Nat /\ n < m
    OBVIOUS
<1>2. e[n + 1] \in W
    BY <1>1
<1>3. /\ s \in Seq(W) /\ Len(s) = k + 1
      /\ \A i \in 1..(k + 1) : s[i] = e[n + i]
    <2>1. \A i \in (n + 1)..m : e[i] \in W
        BY <1>1
    <2>2. /\ s \in Seq(W) /\ Len(s) = IF n + 1 <= m THEN m - (n + 1) + 1 ELSE 0
          /\ \A i \in 1..(m - (n + 1) + 1) : s[i] = e[n + 1 + i - 1]
        BY <1>1, <2>1, SubSeqProperties
    <2> HIDE DEF s
    <2> QED
        BY <1>1, <2>2
<1>4. /\ t \in Seq(W) /\ Len(t) = k
      /\ \A i \in 1..k : t[i] = e[n + 1 + i]
    <2>1. \A i \in (n + 2)..m : e[i] \in W
        BY <1>1
    <2>2. /\ t \in Seq(W) /\ Len(t) = IF n + 2 <= m THEN m - (n + 2) + 1 ELSE 0
          /\ \A i \in 1..(m - (n + 2) + 1) : t[i] = e[n + 2 + i - 1]
        BY <1>1, <2>1, SubSeqProperties
    <2> HIDE DEF t
    <2> QED
        BY <1>1, <2>2
<1> HIDE DEF s, t, k
<1>5. /\ EnvWords(s) \in Seq(W) /\ Len(EnvWords(s)) = 2 * (k + 1)
      /\ \A i \in 1..2 * (k + 1) : EnvWords(s)[i] = IF i % 2 = 1 THEN "--hazmat-env" ELSE s[i \div 2]
    BY <1>3, PairsAreWords
<1>6. /\ EnvWords(t) \in Seq(W) /\ Len(EnvWords(t)) = 2 * k
      /\ \A i \in 1..2 * k : EnvWords(t)[i] = IF i % 2 = 1 THEN "--hazmat-env" ELSE t[i \div 2]
    BY <1>4, PairsAreWords
<1>7. /\ <<"--hazmat-env", e[n + 1]>> \in Seq(W) /\ Len(<<"--hazmat-env", e[n + 1]>>) = 2
      /\ <<"--hazmat-env", e[n + 1]>>[1] = "--hazmat-env" /\ <<"--hazmat-env", e[n + 1]>>[2] = e[n + 1]
    BY <1>2
<1> DEFINE both == <<"--hazmat-env", e[n + 1]>> \o EnvWords(t)
<1>8. /\ both \in Seq(W) /\ Len(both) = 2 + 2 * k
      /\ \A i \in 1..(2 + 2 * k) :
           both[i] = IF i <= 2 THEN <<"--hazmat-env", e[n + 1]>>[i] ELSE EnvWords(t)[i - 2]
    BY <1>6, <1>7, ConcatProperties
<1> HIDE DEF both
<1>9. ASSUME NEW i \in 1..(2 + 2 * k)
      PROVE  EnvWords(s)[i] = both[i]
    <2>1. k \in Nat /\ i \in 1..2 * (k + 1)
        BY <1>1 DEF k
    <2>2. CASE i = 1
        <3>1. i % 2 = 1 /\ i <= 2
            BY <2>2
        <3> QED
            BY <1>5, <1>7, <1>8, <2>1, <2>2, <3>1
    <2>3. CASE i = 2
        <3>1. i % 2 # 1 /\ i \div 2 = 1 /\ i <= 2 /\ 1 \in 1..(k + 1)
            BY <2>1, <2>3
        <3>2. EnvWords(s)[i] = s[1] /\ s[1] = e[n + 1]
            BY <1>3, <1>5, <2>1, <3>1
        <3> QED
            BY <1>7, <1>8, <2>3, <3>1, <3>2
    <2>4. CASE i > 2
        <3>1. /\ i - 2 \in 1..2 * k /\ ~(i <= 2)
              /\ (i - 2) % 2 = i % 2 /\ (i - 2) \div 2 = (i \div 2) - 1
            BY <2>1, <2>4
        <3>2. both[i] = EnvWords(t)[i - 2]
            BY <1>8, <3>1
        <3>3. CASE i % 2 = 1
            BY <1>5, <1>6, <2>1, <3>1, <3>2, <3>3
        <3>4. CASE i % 2 # 1
            <4>1. i \div 2 \in 2..(k + 1) /\ (i \div 2) - 1 \in 1..k
                BY <2>1, <2>4, <3>4
            <4>2. s[i \div 2] = e[n + (i \div 2)]
                BY <1>3, <4>1
            <4>3. t[(i \div 2) - 1] = e[n + (i \div 2)]
                BY <1>1, <1>4, <4>1
            <4> QED
                BY <1>5, <1>6, <2>1, <3>1, <3>2, <3>4, <4>2, <4>3
        <3> QED
            BY <3>3, <3>4
    <2> QED
        BY <2>1, <2>2, <2>3, <2>4
<1>10. EnvWords(s) = both
    <2>1. Len(EnvWords(s)) = Len(both)
        BY <1>1, <1>5, <1>8 DEF k
    <2> QED
        BY <1>5, <1>8, <1>9, <2>1, SeqEqual
<1> QED
    BY <1>2, <1>3, <1>4, <1>10 DEF s, t, both

LEMMA OptionsAreWords ==
    /\ "--" \in LhWord /\ "dir" \in LhWord /\ "tmp" \in LhWord /\ "{}" \in LhWord
    /\ "policy" \in LhWord /\ "--hazmat-env" \in LhWord /\ "--hazmat-working-dir" \in LhWord
    /\ "--hazmat-direct-exec" \in LhWord /\ "--hazmat-session-temp" \in LhWord
    /\ "--hazmat-metadata-json" \in LhWord /\ "--hazmat-current-user" \in LhWord
    /\ "--hazmat-launch-profile" \in LhWord /\ "/usr/bin/env" \in LhWord /\ "-i" \in LhWord
    /\ "/bin/zsh" \in LhWord /\ "-lc" \in LhWord /\ "script" \in LhWord /\ "zsh" \in LhWord
BY LaunchHelperAssumption DEF HostWords

\* Concatenation by name, so that the provers take it as one.
Joined(s, t) == s \o t

LEMMA WordsJoin == \A s, t \in Seq(LhWord) : Joined(s, t) \in Seq(LhWord)
BY ConcatProperties DEF Joined

LEMMA WordsAssociate ==
    \A s, t, u \in Seq(LhWord) : Joined(Joined(s, t), u) = Joined(s, Joined(t, u))
BY ConcatAssociative DEF Joined

LEMMA WordsInARow ==
    ASSUME NEW a \in LhWord, NEW b \in LhWord
    PROVE  /\ <<a>> \in Seq(LhWord) /\ <<a, b>> \in Seq(LhWord)
           /\ \A c, d \in LhWord : <<a, b, c, d>> \in Seq(LhWord)
OBVIOUS

LEMMA RequestsAreWords ==
    ASSUME NEW r \in LhRequest
    PROVE  /\ r.env \in Seq(LhWord) /\ r.args \in Seq(LhWord)
           /\ r.profile \in BOOLEAN /\ r.current \in BOOLEAN /\ r.metadata \in BOOLEAN
           /\ r.temp \in BOOLEAN /\ r.direct \in BOOLEAN
<1>1. EnvLists \subseteq Seq(LhWord) /\ CommandLines \subseteq Seq(LhWord)
    BY LaunchHelperAssumption
<1> QED
    BY <1>1 DEF LhRequest

\* The command of a session that runs a shell begins with env.
LEMMA ShellCommand ==
    ASSUME NEW r \in LhRequest, ~r.direct
    PROVE  /\ Meant(r) \in Seq(LhWord) /\ Meant(r) # <<>> /\ Head(Meant(r)) = "/usr/bin/env"
           /\ <<"/usr/bin/env", "-i">> \o r.env \o <<"/bin/zsh", "-lc", "script", "zsh">> \in Seq(LhWord)
<1> DEFINE env == <<"/usr/bin/env", "-i">>
           zsh == <<"/bin/zsh", "-lc", "script", "zsh">>
<1>1. env \in Seq(LhWord) /\ zsh \in Seq(LhWord) /\ r.env \in Seq(LhWord) /\ r.args \in Seq(LhWord)
    <2>1. env \in Seq(LhWord) /\ zsh \in Seq(LhWord)
        BY OptionsAreWords, WordsInARow, Zenon
    <2> QED
        BY <2>1, RequestsAreWords
<1>2. Meant(r) = Joined(Joined(Joined(env, r.env), zsh), r.args)
    BY DEF Meant, Joined
<1> HIDE DEF env, zsh
<1>3. /\ Joined(env, r.env) \in Seq(LhWord) /\ Joined(Joined(env, r.env), zsh) \in Seq(LhWord)
      /\ Joined(zsh, r.args) \in Seq(LhWord) /\ Joined(r.env, Joined(zsh, r.args)) \in Seq(LhWord)
    BY <1>1, WordsJoin
<1>4. Meant(r) = Joined(env, Joined(r.env, Joined(zsh, r.args)))
    <2>1. Meant(r) = Joined(Joined(env, r.env), Joined(zsh, r.args))
        BY <1>1, <1>2, <1>3, WordsAssociate
    <2> QED
        BY <1>1, <1>3, <2>1, WordsAssociate
<1>5. \A s \in Seq(LhWord) :
         Joined(env, s) \in Seq(LhWord) /\ Joined(env, s) # <<>>
         /\ Head(Joined(env, s)) = "/usr/bin/env"
    <2> SUFFICES ASSUME NEW s \in Seq(LhWord)
                 PROVE  Joined(env, s) \in Seq(LhWord) /\ Joined(env, s) # <<>>
                        /\ Head(Joined(env, s)) = "/usr/bin/env"
        OBVIOUS
    <2>1. env = <<"/usr/bin/env", "-i">> /\ "/usr/bin/env" \in LhWord /\ "-i" \in LhWord
        BY OptionsAreWords DEF env
    <2> QED
        BY <2>1, TwoInFront DEF Joined
<1>6. (env \o r.env) \o zsh \in Seq(LhWord)
    BY <1>3 DEF Joined
<1> QED
    BY <1>3, <1>4, <1>5, <1>6 DEF env, zsh

LEMMA PartsAreWords ==
    ASSUME NEW r \in LhRequest
    PROVE  /\ FromTerminator(r) \in Seq(LhWord)
           /\ EnvWords(r.env) \in Seq(LhWord)
           /\ FromPair(r, 0) = EnvWords(r.env) \o FromTerminator(r)
           /\ \A n \in 0..Len(r.env) : FromPair(r, n) \in Seq(LhWord)
           /\ FromDirectory(r) \in Seq(LhWord) /\ FromCommand(r) \in Seq(LhWord)
           /\ FromTemp(r) \in Seq(LhWord) /\ FromMetadata(r) \in Seq(LhWord)
           /\ FromPolicy(r) \in Seq(LhWord) /\ FromCurrent(r) \in Seq(LhWord)
<1>1. r.env \in Seq(LhWord) /\ r.args \in Seq(LhWord) /\ Len(r.env) \in Nat
    BY RequestsAreWords
<1>2. FromTerminator(r) \in Seq(LhWord)
    BY <1>1, OptionsAreWords, OneInFront DEF FromTerminator
<1>3. ASSUME NEW n \in 0..Len(r.env)
      PROVE  FromPair(r, n) \in Seq(LhWord)
    <2>1. \A i \in (n + 1)..Len(r.env) : r.env[i] \in LhWord
        BY <1>1
    <2>2. SubSeq(r.env, n + 1, Len(r.env)) \in Seq(LhWord)
        BY <1>1, <2>1, SubSeqProperties
    <2>3. EnvWords(SubSeq(r.env, n + 1, Len(r.env))) \in Seq(LhWord)
        BY <2>2, OptionsAreWords, PairsAreWords
    <2> QED
        BY <1>2, <2>3, ConcatProperties DEF FromPair
<1>4. FromPair(r, 0) = EnvWords(r.env) \o FromTerminator(r) /\ EnvWords(r.env) \in Seq(LhWord)
    <2>1. SubSeq(r.env, 0 + 1, Len(r.env)) = r.env
        BY <1>1, SubSeqFull
    <2> QED
        BY <1>1, <2>1, OptionsAreWords, PairsAreWords DEF FromPair
<1>5. FromDirectory(r) \in Seq(LhWord)
    <2>1. FromPair(r, 0) \in Seq(LhWord)
        BY <1>1, <1>3
    <2> QED
        BY <2>1, OptionsAreWords, TwoInFront DEF FromDirectory
<1>6. FromCommand(r) \in Seq(LhWord)
    BY <1>5, ShellCommand, OptionsAreWords, OneInFront DEF FromCommand
<1>7. FromTemp(r) \in Seq(LhWord)
    BY <1>6, OptionsAreWords, TwoInFront DEF FromTemp
<1>8. FromMetadata(r) \in Seq(LhWord)
    BY <1>7, OptionsAreWords, TwoInFront DEF FromMetadata
<1>9. FromPolicy(r) \in Seq(LhWord)
    BY <1>8, OptionsAreWords, OneInFront DEF FromPolicy
<1>10. FromCurrent(r) \in Seq(LhWord)
    BY <1>9, OptionsAreWords, OneInFront DEF FromCurrent
<1> QED
    BY <1>2, <1>3, <1>4, <1>5, <1>6, <1>7, <1>8, <1>9, <1>10

\* An option in front of some words, asked for or not.
LEMMA OptionInFront ==
    ASSUME NEW o \in Seq(LhWord), NEW s \in Seq(LhWord), NEW asked \in BOOLEAN
    PROVE  /\ Option(asked, o) \in Seq(LhWord)
           /\ Joined(Option(asked, o), s) = IF asked THEN o \o s ELSE s
<1>1. <<>> \in Seq(LhWord) /\ <<>> \o s = s
    BY ConcatEmptySeq
<1> QED
    BY <1>1 DEF Option, Joined

LEMMA ListInParts ==
    ASSUME NEW r \in LhRequest
    PROVE  CommandSudoArgs(r) = FromProfile(r)
<1> DEFINE profile == Option(r.profile, <<"--hazmat-launch-profile">>)
           current == Option(r.current, <<"--hazmat-current-user">>)
           metadata == Option(r.metadata, <<"--hazmat-metadata-json", "{}">>)
           scratch == Option(r.temp, <<"--hazmat-session-temp", "tmp">>)
           rest == IF r.direct THEN DirectExecWords(r)
                   ELSE <<"/usr/bin/env", "-i">> \o r.env
                          \o <<"/bin/zsh", "-lc", "script", "zsh">> \o r.args
<1>1. /\ r.env \in Seq(LhWord) /\ r.args \in Seq(LhWord) /\ r.profile \in BOOLEAN
      /\ r.current \in BOOLEAN /\ r.metadata \in BOOLEAN /\ r.temp \in BOOLEAN /\ r.direct \in BOOLEAN
    BY RequestsAreWords
<1>2. /\ FromTerminator(r) \in Seq(LhWord) /\ EnvWords(r.env) \in Seq(LhWord)
      /\ FromPair(r, 0) = EnvWords(r.env) \o FromTerminator(r)
      /\ FromDirectory(r) \in Seq(LhWord) /\ FromCommand(r) \in Seq(LhWord)
      /\ FromTemp(r) \in Seq(LhWord) /\ FromMetadata(r) \in Seq(LhWord)
      /\ FromPolicy(r) \in Seq(LhWord) /\ FromCurrent(r) \in Seq(LhWord)
    BY PartsAreWords
<1>3. /\ <<"--hazmat-launch-profile">> \in Seq(LhWord) /\ <<"--hazmat-current-user">> \in Seq(LhWord)
      /\ <<"--hazmat-metadata-json", "{}">> \in Seq(LhWord)
      /\ <<"--hazmat-session-temp", "tmp">> \in Seq(LhWord)
      /\ <<"policy">> \in Seq(LhWord) /\ <<"--">> \in Seq(LhWord)
      /\ <<"--hazmat-direct-exec">> \in Seq(LhWord) /\ <<"--hazmat-working-dir", "dir">> \in Seq(LhWord)
    BY OptionsAreWords, WordsInARow, Zenon
<1>4. rest = FromCommand(r)
    <2>1. CASE ~r.direct
        BY <2>1 DEF FromCommand, Meant
    <2>2. CASE r.direct
        <3> DEFINE one == <<"--hazmat-direct-exec">>
                   two == <<"--hazmat-working-dir", "dir">>
                   end == <<"--">>
                   e == EnvWords(r.env)
        <3>1. one \o two = <<"--hazmat-direct-exec", "--hazmat-working-dir", "dir">>
            BY OneAndTwo
        <3>2. rest = Joined(Joined(Joined(Joined(one, two), e), end), r.args)
            BY <2>2, <3>1 DEF DirectExecWords, Joined
        <3>3. /\ one \in Seq(LhWord) /\ two \in Seq(LhWord) /\ end \in Seq(LhWord) /\ e \in Seq(LhWord)
              /\ FromCommand(r) = Joined(one, Joined(two, Joined(e, Joined(end, r.args))))
            BY <1>2, <1>3, <2>2 DEF FromCommand, FromDirectory, FromTerminator, Joined
        <3> HIDE DEF one, two, end, e, rest
        <3>4. /\ Joined(one, two) \in Seq(LhWord) /\ Joined(Joined(one, two), e) \in Seq(LhWord)
              /\ Joined(end, r.args) \in Seq(LhWord) /\ Joined(e, Joined(end, r.args)) \in Seq(LhWord)
            BY <1>1, <3>3, WordsJoin
        <3>5. rest = Joined(Joined(Joined(one, two), e), Joined(end, r.args))
            BY <1>1, <3>2, <3>3, <3>4, WordsAssociate
        <3>6. rest = Joined(Joined(one, two), Joined(e, Joined(end, r.args)))
            BY <3>3, <3>4, <3>5, WordsAssociate
        <3>7. rest = Joined(one, Joined(two, Joined(e, Joined(end, r.args))))
            BY <3>3, <3>4, <3>6, WordsAssociate
        <3> QED
            BY <3>3, <3>7
    <2> QED
        BY <2>1, <2>2
<1> DEFINE policy == <<"policy">>
<1>5. CommandSudoArgs(r) =
        Joined(Joined(profile, current), Joined(Joined(Joined(policy, metadata), scratch), rest))
    BY DEF CommandSudoArgs, CommandLaunchHelperArgsWithoutBinary, Joined
<1>6. /\ scratch \in Seq(LhWord) /\ Joined(scratch, FromCommand(r)) = FromTemp(r)
      /\ metadata \in Seq(LhWord) /\ Joined(metadata, FromTemp(r)) = FromMetadata(r)
      /\ current \in Seq(LhWord) /\ Joined(current, FromPolicy(r)) = FromCurrent(r)
      /\ profile \in Seq(LhWord) /\ Joined(profile, FromCurrent(r)) = FromProfile(r)
    <2>1. scratch \in Seq(LhWord) /\ Joined(scratch, FromCommand(r)) = FromTemp(r)
        <3>1. /\ Option(r.temp, <<"--hazmat-session-temp", "tmp">>) \in Seq(LhWord)
              /\ Joined(Option(r.temp, <<"--hazmat-session-temp", "tmp">>), FromCommand(r))
                   = IF r.temp THEN <<"--hazmat-session-temp", "tmp">> \o FromCommand(r) ELSE FromCommand(r)
            <4> DEFINE o == <<"--hazmat-session-temp", "tmp">>
            <4>1. o \in Seq(LhWord) /\ FromCommand(r) \in Seq(LhWord) /\ r.temp \in BOOLEAN
                BY <1>1, <1>2, <1>3
            <4> HIDE DEF o
            <4>2. /\ Option(r.temp, o) \in Seq(LhWord)
                  /\ Joined(Option(r.temp, o), FromCommand(r))
                       = IF r.temp THEN o \o FromCommand(r) ELSE FromCommand(r)
                BY <4>1, OptionInFront
            <4> QED
                BY <4>2 DEF o
        <3> QED
            BY <3>1 DEF FromTemp
    <2>2. metadata \in Seq(LhWord) /\ Joined(metadata, FromTemp(r)) = FromMetadata(r)
        <3>1. /\ Option(r.metadata, <<"--hazmat-metadata-json", "{}">>) \in Seq(LhWord)
              /\ Joined(Option(r.metadata, <<"--hazmat-metadata-json", "{}">>), FromTemp(r))
                   = IF r.metadata THEN <<"--hazmat-metadata-json", "{}">> \o FromTemp(r) ELSE FromTemp(r)
            <4> DEFINE o == <<"--hazmat-metadata-json", "{}">>
            <4>1. o \in Seq(LhWord) /\ FromTemp(r) \in Seq(LhWord) /\ r.metadata \in BOOLEAN
                BY <1>1, <1>2, <1>3
            <4> HIDE DEF o
            <4>2. /\ Option(r.metadata, o) \in Seq(LhWord)
                  /\ Joined(Option(r.metadata, o), FromTemp(r))
                       = IF r.metadata THEN o \o FromTemp(r) ELSE FromTemp(r)
                BY <4>1, OptionInFront
            <4> QED
                BY <4>2 DEF o
        <3> QED
            BY <3>1 DEF FromMetadata
    <2>3. current \in Seq(LhWord) /\ Joined(current, FromPolicy(r)) = FromCurrent(r)
        <3>1. /\ Option(r.current, <<"--hazmat-current-user">>) \in Seq(LhWord)
              /\ Joined(Option(r.current, <<"--hazmat-current-user">>), FromPolicy(r))
                   = IF r.current THEN <<"--hazmat-current-user">> \o FromPolicy(r) ELSE FromPolicy(r)
            <4> DEFINE o == <<"--hazmat-current-user">>
            <4>1. o \in Seq(LhWord) /\ FromPolicy(r) \in Seq(LhWord) /\ r.current \in BOOLEAN
                BY <1>1, <1>2, <1>3
            <4> HIDE DEF o
            <4>2. /\ Option(r.current, o) \in Seq(LhWord)
                  /\ Joined(Option(r.current, o), FromPolicy(r))
                       = IF r.current THEN o \o FromPolicy(r) ELSE FromPolicy(r)
                BY <4>1, OptionInFront
            <4> QED
                BY <4>2 DEF o
        <3> QED
            BY <3>1 DEF FromCurrent
    <2>4. profile \in Seq(LhWord) /\ Joined(profile, FromCurrent(r)) = FromProfile(r)
        <3>1. /\ Option(r.profile, <<"--hazmat-launch-profile">>) \in Seq(LhWord)
              /\ Joined(Option(r.profile, <<"--hazmat-launch-profile">>), FromCurrent(r))
                   = IF r.profile THEN <<"--hazmat-launch-profile">> \o FromCurrent(r) ELSE FromCurrent(r)
            <4> DEFINE o == <<"--hazmat-launch-profile">>
            <4>1. o \in Seq(LhWord) /\ FromCurrent(r) \in Seq(LhWord) /\ r.profile \in BOOLEAN
                BY <1>1, <1>2, <1>3
            <4> HIDE DEF o
            <4>2. /\ Option(r.profile, o) \in Seq(LhWord)
                  /\ Joined(Option(r.profile, o), FromCurrent(r))
                       = IF r.profile THEN o \o FromCurrent(r) ELSE FromCurrent(r)
                BY <4>1, OptionInFront
            <4> QED
                BY <4>2 DEF o
        <3> QED
            BY <3>1 DEF FromProfile
    <2> QED
        BY <2>1, <2>2, <2>3, <2>4
<1>7. policy \in Seq(LhWord) /\ Joined(policy, FromMetadata(r)) = FromPolicy(r)
    BY <1>3 DEF FromPolicy, Joined
<1> HIDE DEF profile, current, metadata, scratch, rest, policy
<1>8. Joined(policy, metadata) \in Seq(LhWord)
    BY <1>6, <1>7, WordsJoin
<1>9. Joined(Joined(Joined(policy, metadata), scratch), rest) = Joined(Joined(policy, metadata), FromTemp(r))
    BY <1>2, <1>4, <1>6, <1>8, WordsAssociate
<1>10. Joined(Joined(policy, metadata), FromTemp(r)) = FromPolicy(r)
    BY <1>2, <1>6, <1>7, WordsAssociate
<1>11. Joined(Joined(profile, current), FromPolicy(r)) = FromProfile(r)
    BY <1>2, <1>6, WordsAssociate
<1> QED
    BY <1>5, <1>9, <1>10, <1>11

LEMMA OneAhead ==
    ASSUME NEW a \in LhWord, NEW s \in Seq(LhWord), NEW w, w = <<a>> \o s
    PROVE  w # <<>> /\ Head(w) = a /\ Tail(w) = s
BY OneInFront

\* An option and its value, in front of other words.
Leads(option, value, others, all) ==
    /\ option \in LhWord /\ value \in LhWord /\ others \in Seq(LhWord)
    /\ all = <<option, value>> \o others

LEMMA TwoAhead ==
    ASSUME NEW option, NEW value, NEW others, NEW all, Leads(option, value, others, all)
    PROVE  /\ all # <<>> /\ Head(all) = option /\ all[2] = value
           /\ SubSeq(all, 3, Len(all)) = others
BY TwoInFront DEF Leads

\* What the helper meets first in each part, and what is then left.
LEMMA ModesAhead ==
    ASSUME NEW r \in LhRequest
    PROVE  /\ r.profile => /\ FromProfile(r) # <<>>
                           /\ Head(FromProfile(r)) = "--hazmat-launch-profile"
                           /\ Tail(FromProfile(r)) = FromCurrent(r)
           /\ ~r.profile => FromProfile(r) = FromCurrent(r)
           /\ r.current => /\ FromCurrent(r) # <<>>
                           /\ Head(FromCurrent(r)) = "--hazmat-current-user"
                           /\ Tail(FromCurrent(r)) = FromPolicy(r)
           /\ ~r.current => FromCurrent(r) = FromPolicy(r)
           /\ FromPolicy(r) # <<>> /\ Head(FromPolicy(r)) = "policy"
           /\ Tail(FromPolicy(r)) = FromMetadata(r)
<1>1. FromMetadata(r) \in Seq(LhWord) /\ FromPolicy(r) \in Seq(LhWord) /\ FromCurrent(r) \in Seq(LhWord)
    BY PartsAreWords
<1>2. "policy" \in LhWord /\ "--hazmat-current-user" \in LhWord /\ "--hazmat-launch-profile" \in LhWord
    BY OptionsAreWords
<1>3. FromPolicy(r) # <<>> /\ Head(FromPolicy(r)) = "policy" /\ Tail(FromPolicy(r)) = FromMetadata(r)
    BY <1>1, <1>2, OneInFront DEF FromPolicy
<1>4. ASSUME r.current
      PROVE  /\ FromCurrent(r) # <<>> /\ Head(FromCurrent(r)) = "--hazmat-current-user"
             /\ Tail(FromCurrent(r)) = FromPolicy(r)
    <2>1. FromCurrent(r) = <<"--hazmat-current-user">> \o FromPolicy(r)
        BY <1>4 DEF FromCurrent
    <2> QED
        BY <1>1, <1>2, <2>1, OneAhead
<1>5. ASSUME r.profile
      PROVE  /\ FromProfile(r) # <<>> /\ Head(FromProfile(r)) = "--hazmat-launch-profile"
             /\ Tail(FromProfile(r)) = FromCurrent(r)
    <2>1. FromProfile(r) = <<"--hazmat-launch-profile">> \o FromCurrent(r)
        BY <1>5 DEF FromProfile
    <2> QED
        BY <1>1, <1>2, <2>1, OneAhead
<1> QED
    BY <1>3, <1>4, <1>5 DEF FromCurrent, FromProfile

LEMMA OptionsAhead ==
    ASSUME NEW r \in LhRequest
    PROVE  /\ r.metadata => /\ FromMetadata(r) # <<>>
                            /\ Head(FromMetadata(r)) = "--hazmat-metadata-json"
                            /\ SubSeq(FromMetadata(r), 3, Len(FromMetadata(r))) = FromTemp(r)
           /\ ~r.metadata => FromMetadata(r) = FromTemp(r)
           /\ r.temp => /\ FromTemp(r) # <<>>
                        /\ Head(FromTemp(r)) = "--hazmat-session-temp"
                        /\ SubSeq(FromTemp(r), 3, Len(FromTemp(r))) = FromCommand(r)
           /\ ~r.temp => FromTemp(r) = FromCommand(r)
           /\ r.direct => /\ FromCommand(r) # <<>>
                          /\ Head(FromCommand(r)) = "--hazmat-direct-exec"
                          /\ Tail(FromCommand(r)) = FromDirectory(r)
           /\ ~r.direct => /\ FromCommand(r) = Meant(r) /\ FromCommand(r) # <<>>
                           /\ Head(FromCommand(r)) = "/usr/bin/env"
           /\ FromDirectory(r) # <<>>
           /\ Head(FromDirectory(r)) = "--hazmat-working-dir"
           /\ SubSeq(FromDirectory(r), 3, Len(FromDirectory(r))) = FromPair(r, 0)
<1>1. /\ FromTemp(r) \in Seq(LhWord) /\ FromCommand(r) \in Seq(LhWord)
      /\ FromDirectory(r) \in Seq(LhWord) /\ FromPair(r, 0) \in Seq(LhWord)
    <2>1. 0 \in 0..Len(r.env)
        BY RequestsAreWords
    <2> QED
        BY <2>1, PartsAreWords
<1>2. /\ "--hazmat-metadata-json" \in LhWord /\ "{}" \in LhWord /\ "--hazmat-session-temp" \in LhWord
      /\ "tmp" \in LhWord /\ "--hazmat-direct-exec" \in LhWord
      /\ "--hazmat-working-dir" \in LhWord /\ "dir" \in LhWord
    BY OptionsAreWords
<1>3. ASSUME r.metadata
      PROVE  /\ FromMetadata(r) # <<>> /\ Head(FromMetadata(r)) = "--hazmat-metadata-json"
             /\ SubSeq(FromMetadata(r), 3, Len(FromMetadata(r))) = FromTemp(r)
    <2>1. Leads("--hazmat-metadata-json", "{}", FromTemp(r), FromMetadata(r))
        BY <1>1, <1>2, <1>3 DEF Leads, FromMetadata
    <2> QED
        BY <2>1, TwoAhead
<1>4. ASSUME r.temp
      PROVE  /\ FromTemp(r) # <<>> /\ Head(FromTemp(r)) = "--hazmat-session-temp"
             /\ SubSeq(FromTemp(r), 3, Len(FromTemp(r))) = FromCommand(r)
    <2>1. Leads("--hazmat-session-temp", "tmp", FromCommand(r), FromTemp(r))
        BY <1>1, <1>2, <1>4 DEF Leads, FromTemp
    <2> QED
        BY <2>1, TwoAhead
<1>5. ASSUME r.direct
      PROVE  /\ FromCommand(r) # <<>> /\ Head(FromCommand(r)) = "--hazmat-direct-exec"
             /\ Tail(FromCommand(r)) = FromDirectory(r)
    <2>1. FromCommand(r) = <<"--hazmat-direct-exec">> \o FromDirectory(r)
        BY <1>5 DEF FromCommand
    <2> QED
        BY <1>1, <1>2, <2>1, OneAhead
<1>6. ASSUME ~r.direct
      PROVE  FromCommand(r) = Meant(r) /\ FromCommand(r) # <<>> /\ Head(FromCommand(r)) = "/usr/bin/env"
    BY <1>6, ShellCommand DEF FromCommand
<1>7. /\ FromDirectory(r) # <<>> /\ Head(FromDirectory(r)) = "--hazmat-working-dir"
      /\ SubSeq(FromDirectory(r), 3, Len(FromDirectory(r))) = FromPair(r, 0)
    <2>1. Leads("--hazmat-working-dir", "dir", FromPair(r, 0), FromDirectory(r))
        BY <1>1, <1>2 DEF Leads, FromDirectory
    <2> QED
        BY <2>1, TwoAhead
<1>8. (~r.metadata => FromMetadata(r) = FromTemp(r)) /\ (~r.temp => FromTemp(r) = FromCommand(r))
    BY DEF FromMetadata, FromTemp
<1> QED
    BY <1>3, <1>4, <1>5, <1>6, <1>7, <1>8

LEMMA PairsAhead ==
    ASSUME NEW r \in LhRequest, NEW n \in 0..(Len(r.env) - 1)
    PROVE  /\ FromPair(r, n) # <<>>
           /\ Head(FromPair(r, n)) = "--hazmat-env" /\ FromPair(r, n)[2] = r.env[n + 1]
           /\ SubSeq(FromPair(r, n), 3, Len(FromPair(r, n))) = FromPair(r, n + 1)
           /\ Append(SubSeq(r.env, 1, n), r.env[n + 1]) = SubSeq(r.env, 1, n + 1)
<1> DEFINE pair == <<"--hazmat-env", r.env[n + 1]>>
           rest == EnvWords(SubSeq(r.env, n + 2, Len(r.env)))
           end == FromTerminator(r)
<1>1. r.env \in Seq(LhWord) /\ Len(r.env) \in Nat /\ n \in Nat /\ n + 1 \in 0..Len(r.env) /\ (n + 1) + 1 = n + 2
    BY RequestsAreWords
<1>2. /\ r.env[n + 1] \in LhWord /\ SubSeq(r.env, n + 2, Len(r.env)) \in Seq(LhWord)
      /\ EnvWords(SubSeq(r.env, n + 1, Len(r.env))) = pair \o rest
    BY <1>1, OptionsAreWords, PairInFront
<1>3. end \in Seq(LhWord) /\ rest \in Seq(LhWord) /\ pair \in Seq(LhWord) /\ "--hazmat-env" \in LhWord
    BY <1>2, OptionsAreWords, PartsAreWords, PairsAreWords, WordsInARow
<1>4. FromPair(r, n) = Joined(Joined(pair, rest), end) /\ FromPair(r, n + 1) = Joined(rest, end)
    BY <1>1, <1>2 DEF FromPair, Joined
<1>5. FromPair(r, n + 1) \in Seq(LhWord)
    BY <1>1, PartsAreWords
<1> HIDE DEF pair, rest, end
<1>6. FromPair(r, n) = Joined(pair, FromPair(r, n + 1))
    BY <1>3, <1>4, WordsAssociate
<1>7. FromPair(r, n) = <<"--hazmat-env", r.env[n + 1]>> \o FromPair(r, n + 1)
    BY <1>6 DEF Joined, pair
<1>8. Append(SubSeq(r.env, 1, n), r.env[n + 1]) = SubSeq(r.env, 1, n + 1)
    BY <1>1, <1>2
<1> QED
    BY <1>2, <1>3, <1>5, <1>7, <1>8, TwoInFront

LEMMA CommandAhead ==
    ASSUME NEW r \in LhRequest
    PROVE  /\ FromPair(r, Len(r.env)) # <<>> /\ Head(FromPair(r, Len(r.env))) = "--"
           /\ Tail(FromPair(r, Len(r.env))) = r.args
           /\ SubSeq(r.env, 1, Len(r.env)) = r.env
<1>1. r.env \in Seq(LhWord) /\ r.args \in Seq(LhWord) /\ Len(r.env) \in Nat /\ "--" \in LhWord
    <2>1. r.env \in Seq(LhWord) /\ r.args \in Seq(LhWord)
        BY RequestsAreWords
    <2>2. Len(r.env) \in Nat
        BY <2>1
    <2>3. "--" \in LhWord
        BY OptionsAreWords
    <2> QED
        BY <2>1, <2>2, <2>3
<1>2. SubSeq(r.env, Len(r.env) + 1, Len(r.env)) = <<>>
    BY <1>1, SubSeqEmpty
<1>3. FromPair(r, Len(r.env)) = FromTerminator(r)
    <2>1. FromPair(r, Len(r.env)) = <<>> \o FromTerminator(r)
        BY <1>2, NoPairs DEF FromPair
    <2>2. FromTerminator(r) \in Seq(LhWord)
        BY PartsAreWords
    <2> QED
        BY <2>1, <2>2, ConcatEmptySeq
<1>4. SubSeq(r.env, 1, Len(r.env)) = r.env
    BY <1>1, SubSeqFull
<1> QED
    BY <1>1, <1>3, <1>4, OneInFront DEF FromTerminator

\* The words in front of the policy: parseLaunchProfileArgs and the mode switch.
LEMMA ModesAreRead ==
    ASSUME LhInv, parseHelperModeArgs
    PROVE  /\ lhPc' = "mode" => ReadsModes(lhReq)'
           /\ lhPc' = "parse" => ReadsOptions(lhReq)'
           /\ lhPc' \in {"mode", "parse", "dead"}
<1> DEFINE r == lhReq
<1>1. r \in LhRequest /\ r' = r /\ lhPc = "mode" /\ ReadsModes(r) /\ lhHelper \in Helpers
    BY DEF LhInv, parseHelperModeArgs
<1>2. r.profile \in BOOLEAN /\ r.current \in BOOLEAN
    BY <1>1, RequestsAreWords
<1>3. \/ /\ r.profile /\ lhWords = FromProfile(r)
         /\ lhParsed = Understood(FALSE, FALSE, FALSE, FALSE, FALSE, FALSE, <<>>, <<>>)
      \/ /\ r.current /\ lhWords = FromCurrent(r)
         /\ lhParsed = Understood(r.profile, FALSE, FALSE, FALSE, FALSE, FALSE, <<>>, <<>>)
      \/ /\ lhWords = FromPolicy(r)
         /\ lhParsed = Understood(r.profile, r.current, FALSE, FALSE, FALSE, FALSE, <<>>, <<>>)
    <2>1. ~r.profile => r.profile = FALSE /\ FromProfile(r) = FromCurrent(r)
        BY <1>1, <1>2, ModesAhead
    <2>2. ~r.current => r.current = FALSE /\ FromCurrent(r) = FromPolicy(r)
        BY <1>1, <1>2, ModesAhead
    <2> HIDE DEF r
    <2> QED
        BY <1>1, <2>1, <2>2, Zenon DEF ReadsModes
<1> HIDE DEF r
<1>4. CASE /\ r.profile /\ lhWords = FromProfile(r)
           /\ lhParsed = Understood(FALSE, FALSE, FALSE, FALSE, FALSE, FALSE, <<>>, <<>>)
    <2>1. /\ lhWords # <<>> /\ Head(lhWords) = "--hazmat-launch-profile"
          /\ Tail(lhWords) = FromCurrent(r)
        BY <1>1, <1>4, ModesAhead
    <2>2. ~lhParsed.profile
        BY <1>4, Zenon DEF Understood
    <2>3. lhParsed' = [lhParsed EXCEPT !.profile = TRUE] /\ lhWords' = Tail(lhWords) /\ lhPc' = lhPc
        BY <2>1, <2>2, Zenon DEF parseHelperModeArgs
    <2>4. lhParsed' = Understood(TRUE, FALSE, FALSE, FALSE, FALSE, FALSE, <<>>, <<>>)
        BY <1>4, <2>3 DEF Understood
    <2>5. r.profile = TRUE
        BY <1>2, <1>4, Zenon
    <2>6. ReadsModes(lhReq)'
        BY <1>1, <2>1, <2>3, <2>4, <2>5 DEF ReadsModes, r
    <2> QED
        BY <1>1, <2>3, <2>6
<1>5. CASE /\ r.current /\ lhWords = FromCurrent(r)
           /\ lhParsed = Understood(r.profile, FALSE, FALSE, FALSE, FALSE, FALSE, <<>>, <<>>)
    <2>1. /\ lhWords # <<>> /\ Head(lhWords) = "--hazmat-current-user"
          /\ Tail(lhWords) = FromPolicy(r)
        BY <1>1, <1>5, ModesAhead
    <2>2. Head(lhWords) # "--hazmat-launch-profile" /\ Head(lhWords) # "policy"
        BY <2>1
    <2>3. CASE lhHelper = "hazmat-launch"
        <3>1. lhParsed' = [lhParsed EXCEPT !.current = TRUE] /\ lhWords' = Tail(lhWords) /\ lhPc' = lhPc
            BY <2>1, <2>2, <2>3, Zenon DEF parseHelperModeArgs
        <3>2. lhParsed' = Understood(r.profile, TRUE, FALSE, FALSE, FALSE, FALSE, <<>>, <<>>)
            BY <1>5, <3>1 DEF Understood
        <3>3. r.current = TRUE
            BY <1>2, <1>5, Zenon
        <3>4. ReadsModes(lhReq)'
            BY <1>1, <2>1, <3>1, <3>2, <3>3 DEF ReadsModes, r
        <3> QED
            BY <1>1, <3>1, <3>4
    <2>4. CASE lhHelper # "hazmat-launch"
        BY <2>1, <2>2, <2>4 DEF parseHelperModeArgs
    <2> QED
        BY <2>3, <2>4
<1>6. CASE /\ lhWords = FromPolicy(r)
           /\ lhParsed = Understood(r.profile, r.current, FALSE, FALSE, FALSE, FALSE, <<>>, <<>>)
    <2>1. lhWords # <<>> /\ Head(lhWords) = "policy" /\ Tail(lhWords) = FromMetadata(r)
        BY <1>1, <1>6, ModesAhead
    <2>2. Head(lhWords) # "--hazmat-launch-profile" /\ Head(lhWords) # "--hazmat-current-user"
        BY <2>1
    <2>3. lhPc' \in {"parse", "dead"} /\ lhWords' = Tail(lhWords) /\ lhParsed' = lhParsed
        BY <2>1, <2>2 DEF parseHelperModeArgs
    <2>4. ReadsOptions(lhReq)'
        BY <1>1, <1>6, <2>1, <2>3 DEF ReadsOptions, AtMetadata, r
    <2> QED
        BY <2>3, <2>4
<1> QED
    BY <1>3, <1>4, <1>5, <1>6

\* Where the helper is, when what was not asked for is passed over.
LEMMA OptionsToRead ==
    ASSUME NEW r \in LhRequest, ReadsOptions(r)
    PROVE  \/ r.metadata /\ AtMetadata(r)
           \/ r.temp /\ AtTemp(r)
           \/ AtCommand(r) \/ AtDirectory(r)
           \/ \E n \in 0..Len(r.env) : AtPair(r, n)
<1>1. r.metadata \in BOOLEAN /\ r.temp \in BOOLEAN
    BY RequestsAreWords
<1>2. ~r.metadata => r.metadata = FALSE /\ FromMetadata(r) = FromTemp(r)
    BY <1>1, OptionsAhead
<1>3. ~r.temp => r.temp = FALSE /\ FromTemp(r) = FromCommand(r)
    BY <1>1, OptionsAhead
<1>4. ~r.metadata /\ AtMetadata(r) => AtTemp(r)
    BY <1>2, Zenon DEF AtMetadata, AtTemp
<1>5. ~r.temp /\ AtTemp(r) => AtCommand(r)
    BY <1>3, Zenon DEF AtTemp, AtCommand
<1> QED
    BY <1>4, <1>5, Zenon DEF ReadsOptions

\* The options: the helper takes the words of each as they were put there.
LEMMA OptionsAreRead ==
    ASSUME LhInv, parseOption
    PROVE  ReadsOptions(lhReq)' /\ lhPc' = "parse" /\ lhReq' = lhReq
<1> DEFINE r == lhReq
           word == Head(lhWords)
<1>1. r \in LhRequest /\ r' = r /\ lhPc = "parse" /\ lhPc' = lhPc /\ ReadsOptions(r)
    BY DEF LhInv, parseOption
<1>2. /\ r.profile \in BOOLEAN /\ r.current \in BOOLEAN /\ r.metadata \in BOOLEAN
      /\ r.temp \in BOOLEAN /\ r.direct \in BOOLEAN /\ Len(r.env) \in Nat
    <2>1. r.env \in Seq(LhWord)
        BY <1>1, RequestsAreWords
    <2> QED
        BY <1>1, <2>1, RequestsAreWords
<1>3. \/ r.metadata /\ AtMetadata(r)
      \/ r.temp /\ AtTemp(r)
      \/ AtCommand(r) \/ AtDirectory(r)
      \/ \E n \in 0..Len(r.env) : AtPair(r, n)
    BY <1>1, OptionsToRead
<1>4. \/ /\ word \in ValueOptions
         /\ lhParsed' = Takes(word, lhWords[2])
         /\ lhWords' = SubSeq(lhWords, 3, Len(lhWords))
      \/ /\ word = "--hazmat-direct-exec"
         /\ lhParsed' = [lhParsed EXCEPT !.direct = TRUE]
         /\ lhWords' = Tail(lhWords)
    BY DEF parseOption
<1> HIDE DEF r
<1>5. CASE r.metadata /\ AtMetadata(r)
    <2>1. word = "--hazmat-metadata-json" /\ SubSeq(lhWords, 3, Len(lhWords)) = FromTemp(r)
        BY <1>1, <1>5, OptionsAhead DEF AtMetadata
    <2>2. /\ lhWords' = FromTemp(r)
          /\ lhParsed' = [lhParsed EXCEPT !.metadata = TRUE]
        BY <1>4, <2>1 DEF Takes
    <2>3. lhParsed' = Understood(r.profile, r.current, r.metadata, FALSE, FALSE, FALSE, <<>>, <<>>)
        <3>1. r.metadata = TRUE
            BY <1>2, <1>5, Zenon
        <3> QED
            BY <1>5, <2>2, <3>1 DEF AtMetadata, Understood
    <2>4. ReadsOptions(lhReq)'
        BY <1>1, <2>2, <2>3 DEF ReadsOptions, AtTemp, r
    <2> QED
        BY <1>1, <2>4 DEF r
<1>6. CASE r.temp /\ AtTemp(r)
    <2>1. word = "--hazmat-session-temp" /\ SubSeq(lhWords, 3, Len(lhWords)) = FromCommand(r)
        BY <1>1, <1>6, OptionsAhead DEF AtTemp
    <2>2. /\ lhWords' = FromCommand(r)
          /\ lhParsed' = [lhParsed EXCEPT !.temp = TRUE]
        BY <1>4, <2>1 DEF Takes
    <2>3. lhParsed' = Understood(r.profile, r.current, r.metadata, r.temp, FALSE, FALSE, <<>>, <<>>)
        <3>1. r.temp = TRUE
            BY <1>2, <1>6, Zenon
        <3> QED
            BY <1>6, <2>2, <3>1 DEF AtTemp, Understood
    <2>4. ReadsOptions(lhReq)'
        BY <1>1, <2>2, <2>3 DEF ReadsOptions, AtCommand, r
    <2> QED
        BY <1>1, <2>4 DEF r
<1>7. CASE AtCommand(r)
    <2>1. CASE r.direct
        <3>1. word = "--hazmat-direct-exec" /\ Tail(lhWords) = FromDirectory(r)
            BY <1>1, <1>7, <2>1, OptionsAhead DEF AtCommand
        <3>2. lhWords' = FromDirectory(r) /\ lhParsed' = [lhParsed EXCEPT !.direct = TRUE]
            BY <1>4, <3>1 DEF ValueOptions
        <3>3. lhParsed' = Understood(r.profile, r.current, r.metadata, r.temp, TRUE, FALSE, <<>>, <<>>)
            BY <1>7, <3>2 DEF AtCommand, Understood
        <3>4. ReadsOptions(lhReq)'
            BY <1>1, <2>1, <3>2, <3>3 DEF ReadsOptions, AtDirectory, r
        <3> QED
            BY <1>1, <3>4 DEF r
    <2>2. CASE ~r.direct
        <3>1. word = "/usr/bin/env"
            BY <1>1, <1>7, <2>2, OptionsAhead DEF AtCommand
        <3> QED
            BY <1>4, <3>1 DEF ValueOptions
    <2> QED
        BY <2>1, <2>2
<1>8. CASE AtDirectory(r)
    <2>1. word = "--hazmat-working-dir" /\ SubSeq(lhWords, 3, Len(lhWords)) = FromPair(r, 0)
        BY <1>1, <1>8, OptionsAhead DEF AtDirectory
    <2>2. lhWords' = FromPair(r, 0) /\ lhParsed' = [lhParsed EXCEPT !.dir = TRUE]
        BY <1>4, <2>1 DEF Takes
    <2>3. SubSeq(r.env, 1, 0) = <<>> /\ 0 \in 0..Len(r.env)
        BY <1>2, SubSeqEmpty
    <2>4. lhParsed' = Understood(r.profile, r.current, r.metadata, r.temp, TRUE, TRUE, <<>>, <<>>)
        BY <1>8, <2>2 DEF AtDirectory, Understood
    <2>5. (r.direct /\ AtPair(r, 0))'
        BY <1>1, <1>8, <2>2, <2>3, <2>4 DEF AtDirectory, AtPair, r
    <2> QED
        BY <1>1, <2>3, <2>5 DEF ReadsOptions, r
<1>9. CASE \E n \in 0..Len(r.env) : AtPair(r, n)
    <2>1. PICK n \in 0..Len(r.env) : AtPair(r, n)
        BY <1>9
    <2>2. CASE n # Len(r.env)
        <3>1. n \in 0..(Len(r.env) - 1) /\ n + 1 \in 0..Len(r.env)
            BY <1>2, <2>2
        <3>2. /\ word = "--hazmat-env" /\ lhWords[2] = r.env[n + 1]
              /\ SubSeq(lhWords, 3, Len(lhWords)) = FromPair(r, n + 1)
              /\ Append(SubSeq(r.env, 1, n), r.env[n + 1]) = SubSeq(r.env, 1, n + 1)
            BY <1>1, <2>1, <3>1, PairsAhead DEF AtPair
        <3>3. /\ lhWords' = FromPair(r, n + 1)
              /\ lhParsed' = [lhParsed EXCEPT !.env = Append(@, r.env[n + 1])]
            BY <1>4, <3>2 DEF Takes
        <3>4. lhParsed' = Understood(r.profile, r.current, r.metadata, r.temp, TRUE, TRUE,
                                     Append(SubSeq(r.env, 1, n), r.env[n + 1]), <<>>)
            BY <2>1, <3>3 DEF AtPair, Understood
        <3>5. AtPair(r, n + 1)'
            BY <1>1, <2>1, <3>2, <3>3, <3>4 DEF AtPair, r
        <3> QED
            BY <1>1, <3>1, <3>5 DEF ReadsOptions, r
    <2>3. CASE n = Len(r.env)
        <3>1. word = "--"
            BY <1>1, <2>1, <2>3, CommandAhead DEF AtPair
        <3> QED
            BY <1>4, <3>1 DEF ValueOptions
    <2> QED
        BY <2>2, <2>3
<1> QED
    BY <1>3, <1>5, <1>6, <1>7, <1>8, <1>9

\* What is left is the command, whatever words it has.
LEMMA CommandIsRead ==
    ASSUME LhInv, parseCommand
    PROVE  lhPc' \in {"policy", "dead"} /\ lhReq' = lhReq /\ HasRead(lhReq)'
<1> DEFINE r == lhReq
           word == Head(lhWords)
           command == IF lhWords # <<>> /\ Head(lhWords) = "--" THEN Tail(lhWords) ELSE lhWords
<1>1. r \in LhRequest /\ r' = r /\ lhPc = "parse" /\ ReadsOptions(r) /\ lhPc' \in {"policy", "dead"}
    BY DEF LhInv, parseCommand
<1>2. lhParsed' = [lhParsed EXCEPT !.command = command]
    BY DEF parseCommand
<1>3. lhWords # <<>> => word \notin ValueOptions \union {"--hazmat-direct-exec"}
    BY DEF parseCommand
<1>4. \/ r.metadata /\ AtMetadata(r)
      \/ r.temp /\ AtTemp(r)
      \/ AtCommand(r) \/ AtDirectory(r)
      \/ \E n \in 0..Len(r.env) : AtPair(r, n)
    BY <1>1, OptionsToRead
<1>5. r.direct \in BOOLEAN /\ Len(r.env) \in Nat
    <2>1. r.env \in Seq(LhWord)
        BY <1>1, RequestsAreWords
    <2> QED
        BY <1>1, <2>1, RequestsAreWords
<1> HIDE DEF r, command
<1>6. CASE r.metadata /\ AtMetadata(r)
    <2>1. lhWords # <<>> /\ word = "--hazmat-metadata-json"
        BY <1>1, <1>6, OptionsAhead DEF AtMetadata
    <2> QED
        BY <1>3, <2>1 DEF ValueOptions
<1>7. CASE r.temp /\ AtTemp(r)
    <2>1. lhWords # <<>> /\ word = "--hazmat-session-temp"
        BY <1>1, <1>7, OptionsAhead DEF AtTemp
    <2> QED
        BY <1>3, <2>1 DEF ValueOptions
<1>8. CASE AtCommand(r)
    <2>1. CASE r.direct
        <3>1. lhWords # <<>> /\ word = "--hazmat-direct-exec"
            BY <1>1, <1>8, <2>1, OptionsAhead DEF AtCommand
        <3> QED
            BY <1>3, <3>1
    <2>2. CASE ~r.direct
        <3>1. lhWords = Meant(r) /\ Head(lhWords) = "/usr/bin/env"
            BY <1>1, <1>8, <2>2, OptionsAhead DEF AtCommand
        <3>2. command = Meant(r)
            BY <3>1 DEF command
        <3>3. r.direct = FALSE
            BY <1>5, <2>2, Zenon
        <3>4. lhParsed' = Understood(r.profile, r.current, r.metadata, r.temp, FALSE, FALSE, <<>>, Meant(r))
            BY <1>2, <1>8, <3>2 DEF AtCommand, Understood
        <3>5. HasRead(r)'
            BY <1>1, <3>3, <3>4 DEF HasRead
        <3> QED
            BY <1>1, <3>5 DEF r
    <2> QED
        BY <2>1, <2>2
<1>9. CASE AtDirectory(r)
    <2>1. lhWords # <<>> /\ word = "--hazmat-working-dir"
        BY <1>1, <1>9, OptionsAhead DEF AtDirectory
    <2> QED
        BY <1>3, <2>1 DEF ValueOptions
<1>10. CASE \E n \in 0..Len(r.env) : AtPair(r, n)
    <2>1. PICK n \in 0..Len(r.env) : AtPair(r, n)
        BY <1>10
    <2>2. CASE n # Len(r.env)
        <3>1. n \in 0..(Len(r.env) - 1)
            BY <1>5, <2>2
        <3>2. lhWords # <<>> /\ word = "--hazmat-env"
            BY <1>1, <2>1, <3>1, PairsAhead DEF AtPair
        <3> QED
            BY <1>3, <3>2 DEF ValueOptions
    <2>3. CASE n = Len(r.env)
        <3>1. /\ lhWords # <<>> /\ Head(lhWords) = "--" /\ Tail(lhWords) = r.args
              /\ SubSeq(r.env, 1, n) = r.env
            BY <1>1, <2>1, <2>3, CommandAhead DEF AtPair
        <3>2. r.direct = TRUE
            BY <1>5, <2>1, Zenon DEF AtPair
        <3>3. command = Meant(r)
            BY <3>1, <3>2 DEF command, Meant
        <3>4. lhParsed' = Understood(r.profile, r.current, r.metadata, r.temp, TRUE, TRUE, r.env, Meant(r))
            BY <1>2, <2>1, <3>1, <3>3 DEF AtPair, Understood
        <3>5. HasRead(r)'
            BY <1>1, <3>2, <3>4 DEF HasRead
        <3> QED
            BY <1>1, <3>5 DEF r
    <2> QED
        BY <2>2, <2>3
<1> QED
    BY <1>4, <1>6, <1>7, <1>8, <1>9, <1>10

\* What it has read it does: the fields of what was understood.
LEMMA ReadAsMeant ==
    ASSUME LhInv, HasRead(lhReq)
    PROVE  /\ lhParsed.command = Meant(lhReq) /\ lhParsed.direct = lhReq.direct
           /\ lhReq.direct => lhParsed.env = lhReq.env
           /\ lhParsed.temp = lhReq.temp /\ lhParsed.metadata = lhReq.metadata
           /\ lhParsed.current = lhReq.current
           /\ lhReq.temp \in BOOLEAN /\ lhReq.metadata \in BOOLEAN
<1>1. lhReq.temp \in BOOLEAN /\ lhReq.metadata \in BOOLEAN
    BY RequestsAreWords DEF LhInv
<1> QED
    BY <1>1, Zenon DEF HasRead, Understood

LEMMA LhInvInit ==
    ASSUME LhInit
    PROVE  LhInv
<1>1. lhReq \in LhRequest
    BY DEF LhInit, LhRequest
<1>2. lhWords = FromProfile(lhReq)
    BY <1>1, ListInParts DEF LhInit
<1>3. lhParsed = Understood(FALSE, FALSE, FALSE, FALSE, FALSE, FALSE, <<>>, <<>>)
    BY DEF LhInit, NothingParsed, Understood
<1>4. ReadsModes(lhReq)
    BY <1>2, <1>3 DEF ReadsModes
<1> QED
    BY <1>1, <1>4 DEF LhInit, LhInv, Before, Confined, Helpers

LEMMA LhInvRests ==
    ASSUME LhInv, UNCHANGED lhVars
    PROVE  LhInv'
BY ZenonT(40) DEF LhInv, lhVars, ReadsModes, ReadsOptions, AtMetadata, AtTemp, AtCommand, AtDirectory, AtPair,
       HasRead


LEMMA ReadingRests ==
    ASSUME UNCHANGED <<lhReq, lhWords, lhParsed>>
    PROVE  /\ ReadsModes(lhReq) => ReadsModes(lhReq)'
           /\ ReadsOptions(lhReq) => ReadsOptions(lhReq)'
           /\ HasRead(lhReq) => HasRead(lhReq)'
BY DEF ReadsModes, ReadsOptions, AtMetadata, AtTemp, AtCommand, AtDirectory, AtPair, HasRead

LEMMA LhInvMoves ==
    ASSUME LhInv, LhNext
    PROVE  LhInv'
<1>1. CASE PreparePolicy
    BY <1>1, ReadingRests DEF PreparePolicy, LhInv, Before, Confined
<1>2. CASE ChmodPolicy
    BY <1>2, ReadingRests DEF ChmodPolicy, LhInv, Before, Confined
<1>3. CASE Die
    BY <1>3 DEF Die, LhInv, Before, Confined
<1>4. CASE parseHelperModeArgs
    <2>1. /\ lhPc' = "mode" => ReadsModes(lhReq)'
          /\ lhPc' = "parse" => ReadsOptions(lhReq)'
          /\ lhPc' \in {"mode", "parse", "dead"}
        BY <1>4, ModesAreRead
    <2>2. lhPc = "mode" /\ UNCHANGED <<lhReq, lhHelper, lhFile, lhTemp, lhSandbox, lhMetadata>>
        BY <1>4 DEF parseHelperModeArgs
    <2> QED
        BY <2>1, <2>2 DEF LhInv, Before, Confined
<1>5. CASE parseOption
    <2>1. ReadsOptions(lhReq)' /\ lhPc' = "parse"
        BY <1>5, OptionsAreRead
    <2>2. lhPc = "parse" /\ UNCHANGED <<lhReq, lhHelper, lhFile, lhTemp, lhSandbox, lhMetadata>>
        BY <1>5 DEF parseOption
    <2> QED
        BY <2>1, <2>2 DEF LhInv, Before, Confined
<1>6. CASE parseCommand
    <2>1. lhPc' \in {"policy", "dead"} /\ HasRead(lhReq)'
        BY <1>6, CommandIsRead
    <2>2. lhPc = "parse" /\ UNCHANGED <<lhReq, lhHelper, lhFile, lhTemp, lhSandbox, lhMetadata>>
        BY <1>6 DEF parseCommand
    <2> QED
        BY <2>1, <2>2 DEF LhInv, Before, Confined
<1>7. CASE StatPolicy
    BY <1>7, ReadingRests DEF StatPolicy, LhInv, Before, Confined
<1>8. CASE ReadPolicy
    <2>1. lhPc = "read" /\ HasRead(lhReq) /\ lhTemp = FALSE
        BY <1>8 DEF ReadPolicy, LhInv, Before, Confined
    <2>2. lhPc' = IF lhReq.temp THEN "temp" ELSE "sandbox"
        BY <1>8, <2>1, ReadAsMeant DEF ReadPolicy
    <2>3. lhReq.temp \in BOOLEAN /\ HasRead(lhReq)'
        BY <1>8, <2>1, ReadAsMeant, ReadingRests DEF ReadPolicy
    <2> QED
        BY <1>8, <2>1, <2>2, <2>3 DEF ReadPolicy, LhInv, Before, Confined
<1>9. CASE prepareSessionTempDir
    BY <1>9, ReadingRests, ReadAsMeant DEF prepareSessionTempDir, LhInv, Before, Confined
<1>10. CASE sandboxInit
    <2>1. lhPc = "sandbox" /\ HasRead(lhReq) /\ lhMetadata = FALSE
        BY <1>10 DEF sandboxInit, LhInv, Before, Confined
    <2>2. lhPc' = IF lhReq.metadata THEN "metadata" ELSE "exec"
        BY <1>10, <2>1, ReadAsMeant DEF sandboxInit
    <2>3. lhReq.metadata \in BOOLEAN /\ HasRead(lhReq)'
        BY <1>10, <2>1, ReadAsMeant, ReadingRests DEF sandboxInit
    <2> QED
        BY <1>10, <2>1, <2>2, <2>3 DEF sandboxInit, LhInv, Before, Confined
<1>11. CASE WriteMetadata
    BY <1>11, ReadingRests, ReadAsMeant DEF WriteMetadata, LhInv, Before, Confined
<1>12. CASE setDirectEnv
    BY <1>12, ReadingRests DEF setDirectEnv, LhInv, Before, Confined
<1>13. CASE execCommand
    <2>1. lhPc \in {"exec", "direct"}
        BY <1>13 DEF execCommand
    <2> QED
        BY <1>13, <2>1, ReadingRests DEF execCommand, LhInv, Before, Confined
<1>14. CASE CleanupPolicy
    BY <1>14, ReadingRests DEF CleanupPolicy, LhInv, Before, Confined
<1> QED
    BY <1>1, <1>2, <1>3, <1>4, <1>5, <1>6, <1>7, <1>8, <1>9, <1>10, <1>11, <1>12, <1>13, <1>14
    DEF LhNext

LEMMA MeantIsRun == LhInv => RunsWhatWasAsked
<1> SUFFICES ASSUME LhInv PROVE RunsWhatWasAsked
    OBVIOUS
<1>1. ASSUME lhPc = "running"
      PROVE  /\ lhSandbox = TRUE /\ HasRead(lhReq) /\ lhTemp = lhReq.temp
             /\ lhMetadata = lhReq.metadata
    BY <1>1 DEF LhInv, Before, Confined
<1>2. lhMetadata \in BOOLEAN /\ (lhMetadata = TRUE => lhSandbox = TRUE)
    BY DEF LhInv
<1> QED
    BY <1>1, <1>2, ReadAsMeant, Zenon DEF RunsWhatWasAsked

\* Whatever command lines and environments sessions ask for: what the helper of
\* hazmat-launch runs is the command the host meant, sandboxed, and the metadata line is
\* never a claim too early.
THEOREM HelperRunsWhatWasAsked == LhSpec => [](LhTypeOK /\ RunsWhatWasAsked)
<1>1. LhInv /\ [LhNext]_lhVars => LhInv'
    BY LhInvMoves, LhInvRests
<1>2. LhInv => LhTypeOK
    BY DEF LhInv, LhTypeOK, Before, Confined
<1> QED
    BY <1>1, <1>2, LhInvInit, MeantIsRun, PTL DEF LhSpec

----------------------------------------------------------------------------
(* MCSessions.                                                             *)

\* Each component is in one of its initial states, whether it is to run or rests.
LEMMA ComponentsStart ==
    SessionsInit =>
        /\ Init
        /\ SSHInit
        /\ HomeInit
        /\ SvcInit
        /\ McpInit
        /\ HbInit
        /\ AuInit
        /\ SbInit
        /\ LlInit
        /\ LhInit
        /\ TrInit
        /\ CsInit
        /\ AclInit
        /\ GtInit
BY DEF SessionsInit, PermsRests, SSHRests, HomeRests, ServiceRests, BrokerRests, AuditRests, SandboxRests, LinuxRests,
       HelperRests, TranscriptsRests, SyncRests, AclRests, GitRests

\* A step is one of one component, and leaves the others alone.
LEMMA ComponentsMove ==
    [SessionsNext]_SessionsVars =>
        /\ [Next]_permVars
        /\ [SSHNext]_sshVars
        /\ [HomeNext]_homeVars
        /\ [SvcNext]_svcVars
        /\ [McpNext]_mcpVars
        /\ [HbNext]_hbVars
        /\ [AuNext]_auVars
        /\ [SbNext]_sbVars
        /\ [LlNext]_llVars
        /\ [LhNext]_lhVars
        /\ [TrNext]_trVars
        /\ [CsNext]_csVars
        /\ [AclNext]_aclVars
        /\ [GtNext]_gtVars
<1> SUFFICES ASSUME [SessionsNext]_SessionsVars
             PROVE  /\ [Next]_permVars
                    /\ [SSHNext]_sshVars
                    /\ [HomeNext]_homeVars
                    /\ [SvcNext]_svcVars
                    /\ [McpNext]_mcpVars
                    /\ [HbNext]_hbVars
                    /\ [AuNext]_auVars
                    /\ [SbNext]_sbVars
                    /\ [LlNext]_llVars
                    /\ [LhNext]_lhVars
                    /\ [TrNext]_trVars
                    /\ [CsNext]_csVars
                    /\ [AclNext]_aclVars
                    /\ [GtNext]_gtVars
    OBVIOUS
<1>1. CASE UNCHANGED SessionsVars
    BY <1>1 DEF SessionsVars
<1>2. CASE PermsMoves
    BY <1>2 DEF PermsMoves
<1>3. CASE SSHMoves
    BY <1>3 DEF SSHMoves
<1>4. CASE HomeMoves
    BY <1>4 DEF HomeMoves
<1>5. CASE ServiceMoves
    BY <1>5 DEF ServiceMoves
<1>6. CASE McpMoves
    BY <1>6 DEF McpMoves
<1>7. CASE BrokerMoves
    BY <1>7 DEF BrokerMoves
<1>8. CASE AuditMoves
    BY <1>8 DEF AuditMoves
<1>9. CASE SandboxMoves
    BY <1>9 DEF SandboxMoves
<1>10. CASE LinuxMoves
    BY <1>10 DEF LinuxMoves
<1>11. CASE TranscriptsMoves
    BY <1>11 DEF TranscriptsMoves
<1>12. CASE SyncMoves
    BY <1>12 DEF SyncMoves
<1>13. CASE AclMoves
    BY <1>13 DEF AclMoves
<1>14. CASE GitMoves
    BY <1>14 DEF GitMoves
<1>15. CASE HelperMoves
    BY <1>15 DEF HelperMoves
<1> QED
    BY <1>1, <1>2, <1>3, <1>4, <1>5, <1>6, <1>7, <1>8, <1>9, <1>10, <1>11,
       <1>12, <1>13, <1>14, <1>15 DEF SessionsNext

\* So that a behaviour of the sessions is one of every component.
LEMMA ComponentsRun ==
    SessionsSpec =>
        /\ Spec
        /\ SSHSpec
        /\ HomeSpec
        /\ SvcSpec
        /\ McpSpec
        /\ HbSpec
        /\ AuSpec
        /\ SbSpec
        /\ LlSpec
        /\ LhSpec
        /\ TrSpec
        /\ CsSpec
        /\ AclSpec
        /\ GtSpec
BY ComponentsStart, ComponentsMove, PTL
DEF SessionsSpec, Spec, SSHSpec, HomeSpec, SvcSpec, McpSpec, HbSpec, AuSpec, SbSpec, LlSpec,
    LhSpec, TrSpec, CsSpec, AclSpec, GtSpec

\* The proxy of mcpproxy/stdio.go and the report of egress_audit.go: what either
\* side wrote reaches the other.
THEOREM OutputIsComplete == SessionsSpec => []OutputComplete
BY ComponentsRun, ProxyOutputIsComplete, ReportIsComplete, PTL DEF OutputComplete

\* The services of lifecycle.go and the sandboxes of sandbox.go: what was started
\* for a session can be taken away again.
THEOREM NothingIsLeftBehind == SessionsSpec => []NothingLeftBehind
BY ComponentsRun, ServicesLeaveNothing, SandboxesAreKnown, PTL DEF NothingLeftBehind

\* The launches of internal/runtime/linux, hazmat-launch and internal/runtime/docker:
\* the result and the metadata claim no stage and no policy that was not applied,
\* and what runs is what the session asked for.
THEOREM LaunchesAreAsAdmitted == SessionsSpec => []LaunchesAsAdmitted
BY ComponentsRun, LinuxResultIsTruthful, HelperRunsWhatWasAsked, SandboxesAreKnown, PTL
DEF LaunchesAsAdmitted

\* The permissions of acl_health_cache.go, git_preflight.go and workspace_acl.go.
THEOREM PermissionsAreAsReported == SessionsSpec => []PermissionsAsReported
BY ComponentsRun, PermissionsHold, RepairReachesAll, PTL DEF PermissionsAsReported

\* The write-backs of session_home_writeback.go, resume.go and credential_sync.go.
THEOREM NewerIsKept == SessionsSpec => NewerKept
BY ComponentsRun, WriteBackKeeps, ResumeAndExportKeep, SyncKeepsTheFreshest, PTL
DEF NewerKept, FreshestWins

\* And so do the requests of git_ssh.go, the sessions of hostbroker/session.go and
\* the lines of git_safe_directory.go hold what the components promise.
THEOREM SessionsKeepTheirPromises ==
    SessionsSpec => []RequestsInOrder /\ QuietAfterClose /\ TrustHolds
BY ComponentsRun, RequestsGoInOrder, ClosedSessionIsQuiet, TrustIsKept, PTL DEF TrustHolds

\* Every component's variables keep their types, and it is at a step it knows.
THEOREM SessionsHaveTheirTypes == SessionsSpec => []SessionsTypeOK
<1>1. /\ TypeOK /\ SSHTypeOK /\ HomeTypeOK /\ SvcTypeOK /\ McpTypeOK /\ HbTypeOK /\ AuTypeOK
      /\ SbTypeOK /\ LlTypeOK /\ LhTypeOK /\ TrTypeOK /\ CsTypeOK /\ AclTypeOK /\ GtTypeOK
      => SessionsTypeOK
    BY DEF SessionsTypeOK
<1>2. SessionsSpec => []TypeOK /\ []SSHTypeOK /\ []HomeTypeOK /\ []TrTypeOK /\ []AclTypeOK
    BY ComponentsRun, PermissionTypes, RequestTypes, HomesHaveTheirTypes, TranscriptTypes,
       RepairTypes
<1>3. SessionsSpec =>
        []SvcTypeOK /\ []McpTypeOK /\ []HbTypeOK /\ []AuTypeOK /\ []SbTypeOK
    BY ComponentsRun, ServicesLeaveNothing, ProxyOutputIsComplete, ClosedSessionIsQuiet,
       ReportIsComplete, SandboxesAreKnown, PTL
<1>4. SessionsSpec => []LlTypeOK /\ []LhTypeOK /\ []CsTypeOK /\ []GtTypeOK
    BY ComponentsRun, LinuxResultIsTruthful, HelperRunsWhatWasAsked, SyncKeepsTheFreshest,
       TrustIsKept, PTL
<1> QED
    BY <1>1, <1>2, <1>3, <1>4, PTL
=============================================================================
