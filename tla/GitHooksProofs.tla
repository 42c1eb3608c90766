--------------------------- MODULE GitHooksProofs ---------------------------
(***************************************************************************)
(* Theorems about repository-local Git hooks, for any projects, bundles    *)
(* and hooks and any number of commands: that what runs was approved,      *)
(* whatever overlaps and whatever the agent edits; and, for commands that  *)
(* take their turns, that records, installations and removals are whole.   *)
(***************************************************************************)
EXTENDS GitHooks, TLAPS

Command ==
    [ pc : Steps, mode : AllModes, proj : Project,
      content : Bundle \cup {NoBundle},
      rec : Record \cup {NoRecord},
      loaded : [Project -> Record \cup {NoRecord}],
      todo : SUBSET Hook, chain : Chain, left : SUBSET Project ]

\* The steps at which a command holds a bundle it has loaded.
Holding == {"prompt", "snapshot", "aLoad", "aSave", "stale", "dispatchers", "path",
            "blocks", "cLoad", "cSave"}

\* Those at which it may have composed hooks, and those of a rollback.
Composing == {"blocks", "cLoad", "cSave"}
Sweeping == {"rbLoad", "rbNext", "rbFile", "rbRoot"}

\* What a command holds fits the step it is at.
Fit(c) ==
    /\ c.pc \in Holding => c.content \in Bundle
    /\ c.chain # {} => c.pc \in Composing
    /\ c.pc \in Sweeping => c.mode = "rollback"
    /\ c.mode \in Modes \cup {"hook"}

GhTypes == TypeOK /\ \A s \in Process : Fit(ps[s])

-----------------------------------------------------------------------------
(* Types.                                                                  *)

LEMMA IdleIsCommand == Idle \in Command
<1>1. (CHOOSE p \in Project : TRUE) \in Project
    BY GitHooksAssumption
<1>2. NoApprovals \in [Project -> Record \cup {NoRecord}]
    BY DEF NoApprovals
<1> QED
    BY <1>1, <1>2 DEF Idle, Command, Steps, AllModes, InstallModes, Chain

LEMMA IdleFits == Fit(Idle) /\ Idle.pc = "idle" /\ Idle.chain = {} /\ Idle.mode = "hook"
BY DEF Idle, Fit, Holding, Composing, Sweeping

LEMMA TypesInit == Init => GhTypes
<1> SUFFICES ASSUME Init PROVE GhTypes
    OBVIOUS
<1>1. ps \in [Process -> Command]
    BY IdleIsCommand DEF Init
<1>2. owner \in [Project -> [Hook -> OwnerFile]]
    BY DEF Init, OwnerFile
<1>3. approvals \in [Project -> Record \cup {NoRecord}]
    BY DEF Init, NoApprovals
<1>4. repo \in [Project -> Bundle \cup {NoBundle, Malformed}]
    BY DEF Init
<1>5. /\ hooksPath \in [Project -> {"unset", "managed", "owner"}]
      /\ managed \in [Project -> SUBSET Hook]
      /\ fallback \in [Project -> [Hook -> {"none", "hazmat", "user"}]]
      /\ kept \in [Project -> SUBSET Trace]
      /\ wrapper \in [Project -> BOOLEAN]
      /\ snapshot \in [Project -> [Bundle -> {"none", "partial", "whole"}]]
      /\ consented \in [Project -> SUBSET Bundle]
    BY DEF Init
<1>6. \A s \in Process : Fit(ps[s])
    BY IdleFits DEF Init
<1> QED
    BY <1>1, <1>2, <1>3, <1>4, <1>5, <1>6 DEF GhTypes, TypeOK, Command

\* The whole of what one command does to the commands is to its own record.
LEMMA OneMoves ==
    ASSUME GhTypes, NEW s \in Process, NEW c \in Command,
           ps' = [ps EXCEPT ![s] = c]
    PROVE  /\ ps' \in [Process -> Command] /\ ps'[s] = c
           /\ \A r \in Process : r # s => ps'[r] = ps[r]
BY DEF GhTypes, TypeOK, Command

LEMMA LeaveMoves ==
    ASSUME GhTypes, NEW s \in Process, Leave(s)
    PROVE  /\ ps' \in [Process -> Command] /\ ps'[s] = Idle
           /\ \A r \in Process : r # s => ps'[r] = ps[r]
BY OneMoves, IdleIsCommand DEF Leave

\* The assignments that the actions make to a command besides Go.
Loads(s, step, b) == ps' = [ps EXCEPT ![s].pc = step, ![s].content = b]
Rereads(s, step, file) == ps' = [ps EXCEPT ![s].pc = step, ![s].loaded = file]
Builds(s, step, b, hooks) ==
    ps' = [ps EXCEPT ![s].pc = step, ![s].content = b, ![s].todo = hooks]
Turns(s, step, hooks) == ps' = [ps EXCEPT ![s].pc = step, ![s].todo = hooks]
Chains(s, hooks, c) == ps' = [ps EXCEPT ![s].todo = hooks, ![s].chain = c]
Recalls(s, step, r) == ps' = [ps EXCEPT ![s].pc = step, ![s].rec = r]
Sweeps(s, step, projects) == ps' = [ps EXCEPT ![s].pc = step, ![s].left = projects]
Turn(s, step, p, projects, hooks) ==
    ps' = [ps EXCEPT ![s].pc = step, ![s].proj = p, ![s].left = projects, ![s].todo = hooks]

\* The same for the assignments the actions make to some of its fields.
LEMMA GoMoves ==
    ASSUME GhTypes, NEW s \in Process, NEW step \in Steps,
           ps' = [ps EXCEPT ![s].pc = step]
    PROVE  /\ ps' \in [Process -> Command]
           /\ ps'[s].pc = step
           /\ ps'[s].mode = ps[s].mode /\ ps'[s].proj = ps[s].proj
           /\ ps'[s].content = ps[s].content /\ ps'[s].rec = ps[s].rec
           /\ ps'[s].loaded = ps[s].loaded /\ ps'[s].todo = ps[s].todo
           /\ ps'[s].chain = ps[s].chain /\ ps'[s].left = ps[s].left
           /\ \A q \in Process : q # s => ps'[q] = ps[q]
<1> DEFINE d == [ps[s] EXCEPT !.pc = step]
<1>1. ps[s] \in Command
    BY DEF GhTypes, TypeOK, Command
<1>2. d \in Command
    BY <1>1 DEF Command
<1>3. ps' = [ps EXCEPT ![s] = d]
    BY DEF GhTypes, TypeOK
<1>4. /\ d.pc = step
      /\ d.mode = ps[s].mode /\ d.proj = ps[s].proj /\ d.content = ps[s].content
      /\ d.rec = ps[s].rec /\ d.loaded = ps[s].loaded /\ d.todo = ps[s].todo
      /\ d.chain = ps[s].chain /\ d.left = ps[s].left
    BY <1>1 DEF Command
<1> HIDE DEF d
<1> QED
    BY <1>2, <1>3, <1>4, OneMoves

LEMMA ContentMoves ==
    ASSUME GhTypes, NEW s \in Process, NEW step \in Steps, NEW b \in Bundle \cup {NoBundle},
           Loads(s, step, b)
    PROVE  /\ ps' \in [Process -> Command]
           /\ ps'[s].pc = step /\ ps'[s].content = b
           /\ ps'[s].mode = ps[s].mode /\ ps'[s].proj = ps[s].proj /\ ps'[s].rec = ps[s].rec
           /\ ps'[s].loaded = ps[s].loaded /\ ps'[s].todo = ps[s].todo
           /\ ps'[s].chain = ps[s].chain /\ ps'[s].left = ps[s].left
           /\ \A q \in Process : q # s => ps'[q] = ps[q]
<1> DEFINE d == [ps[s] EXCEPT !.pc = step, !.content = b]
<1>1. ps[s] \in Command
    BY DEF GhTypes, TypeOK, Command
<1>2. d \in Command
    BY <1>1 DEF Command
<1>3. ps' = [ps EXCEPT ![s] = d]
    BY DEF GhTypes, TypeOK, Loads
<1>4. /\ d.pc = step /\ d.content = b
      /\ d.mode = ps[s].mode /\ d.proj = ps[s].proj /\ d.rec = ps[s].rec
      /\ d.loaded = ps[s].loaded /\ d.todo = ps[s].todo /\ d.chain = ps[s].chain
      /\ d.left = ps[s].left
    BY <1>1 DEF Command
<1> HIDE DEF d
<1> QED
    BY <1>2, <1>3, <1>4, OneMoves

LEMMA LoadedMoves ==
    ASSUME GhTypes, NEW s \in Process, NEW step \in Steps,
           NEW file \in [Project -> Record \cup {NoRecord}],
           Rereads(s, step, file)
    PROVE  /\ ps' \in [Process -> Command]
           /\ ps'[s].pc = step /\ ps'[s].loaded = file
           /\ ps'[s].mode = ps[s].mode /\ ps'[s].proj = ps[s].proj
           /\ ps'[s].content = ps[s].content /\ ps'[s].rec = ps[s].rec
           /\ ps'[s].todo = ps[s].todo /\ ps'[s].chain = ps[s].chain
           /\ ps'[s].left = ps[s].left
           /\ \A q \in Process : q # s => ps'[q] = ps[q]
<1> DEFINE d == [ps[s] EXCEPT !.pc = step, !.loaded = file]
<1>1. ps[s] \in Command
    BY DEF GhTypes, TypeOK, Command
<1>2. d \in Command
    BY <1>1 DEF Command
<1>3. ps' = [ps EXCEPT ![s] = d]
    BY DEF GhTypes, TypeOK, Rereads
<1>4. /\ d.pc = step /\ d.loaded = file
      /\ d.mode = ps[s].mode /\ d.proj = ps[s].proj /\ d.content = ps[s].content
      /\ d.rec = ps[s].rec /\ d.todo = ps[s].todo /\ d.chain = ps[s].chain
      /\ d.left = ps[s].left
    BY <1>1 DEF Command
<1> HIDE DEF d
<1> QED
    BY <1>2, <1>3, <1>4, OneMoves

LEMMA BuildMoves ==
    ASSUME GhTypes, NEW s \in Process, NEW step \in Steps, NEW b \in Bundle \cup {NoBundle},
           NEW hooks \in SUBSET Hook,
           Builds(s, step, b, hooks)
    PROVE  /\ ps' \in [Process -> Command]
           /\ ps'[s].pc = step /\ ps'[s].content = b /\ ps'[s].todo = hooks
           /\ ps'[s].mode = ps[s].mode /\ ps'[s].proj = ps[s].proj /\ ps'[s].rec = ps[s].rec
           /\ ps'[s].loaded = ps[s].loaded /\ ps'[s].chain = ps[s].chain
           /\ ps'[s].left = ps[s].left
           /\ \A q \in Process : q # s => ps'[q] = ps[q]
<1> DEFINE d == [ps[s] EXCEPT !.pc = step, !.content = b, !.todo = hooks]
<1>1. ps[s] \in Command
    BY DEF GhTypes, TypeOK, Command
<1>2. d \in Command
    BY <1>1 DEF Command
<1>3. ps' = [ps EXCEPT ![s] = d]
    BY DEF GhTypes, TypeOK, Builds
<1>4. /\ d.pc = step /\ d.content = b /\ d.todo = hooks
      /\ d.mode = ps[s].mode /\ d.proj = ps[s].proj /\ d.rec = ps[s].rec
      /\ d.loaded = ps[s].loaded /\ d.chain = ps[s].chain /\ d.left = ps[s].left
    BY <1>1 DEF Command
<1> HIDE DEF d
<1> QED
    BY <1>2, <1>3, <1>4, OneMoves

LEMMA TodoMoves ==
    ASSUME GhTypes, NEW s \in Process, NEW hooks \in SUBSET Hook,
           ps' = [ps EXCEPT ![s].todo = hooks]
    PROVE  /\ ps' \in [Process -> Command]
           /\ ps'[s].todo = hooks
           /\ ps'[s].pc = ps[s].pc /\ ps'[s].mode = ps[s].mode /\ ps'[s].proj = ps[s].proj
           /\ ps'[s].content = ps[s].content /\ ps'[s].rec = ps[s].rec
           /\ ps'[s].loaded = ps[s].loaded /\ ps'[s].chain = ps[s].chain
           /\ ps'[s].left = ps[s].left
           /\ \A q \in Process : q # s => ps'[q] = ps[q]
<1> DEFINE d == [ps[s] EXCEPT !.todo = hooks]
<1>1. ps[s] \in Command
    BY DEF GhTypes, TypeOK, Command
<1>2. d \in Command
    BY <1>1 DEF Command
<1>3. ps' = [ps EXCEPT ![s] = d]
    BY DEF GhTypes, TypeOK
<1>4. /\ d.todo = hooks
      /\ d.pc = ps[s].pc /\ d.mode = ps[s].mode /\ d.proj = ps[s].proj
      /\ d.content = ps[s].content /\ d.rec = ps[s].rec /\ d.loaded = ps[s].loaded
      /\ d.chain = ps[s].chain /\ d.left = ps[s].left
    BY <1>1 DEF Command
<1> HIDE DEF d
<1> QED
    BY <1>2, <1>3, <1>4, OneMoves

LEMMA TodoGoMoves ==
    ASSUME GhTypes, NEW s \in Process, NEW step \in Steps, NEW hooks \in SUBSET Hook,
           Turns(s, step, hooks)
    PROVE  /\ ps' \in [Process -> Command]
           /\ ps'[s].pc = step /\ ps'[s].todo = hooks
           /\ ps'[s].mode = ps[s].mode /\ ps'[s].proj = ps[s].proj
           /\ ps'[s].content = ps[s].content /\ ps'[s].rec = ps[s].rec
           /\ ps'[s].loaded = ps[s].loaded /\ ps'[s].chain = ps[s].chain
           /\ ps'[s].left = ps[s].left
           /\ \A q \in Process : q # s => ps'[q] = ps[q]
<1> DEFINE d == [ps[s] EXCEPT !.pc = step, !.todo = hooks]
<1>1. ps[s] \in Command
    BY DEF GhTypes, TypeOK, Command
<1>2. d \in Command
    BY <1>1 DEF Command
<1>3. ps' = [ps EXCEPT ![s] = d]
    BY DEF GhTypes, TypeOK, Turns
<1>4. /\ d.pc = step /\ d.todo = hooks
      /\ d.mode = ps[s].mode /\ d.proj = ps[s].proj /\ d.content = ps[s].content
      /\ d.rec = ps[s].rec /\ d.loaded = ps[s].loaded /\ d.chain = ps[s].chain
      /\ d.left = ps[s].left
    BY <1>1 DEF Command
<1> HIDE DEF d
<1> QED
    BY <1>2, <1>3, <1>4, OneMoves

LEMMA ChainMoves ==
    ASSUME GhTypes, NEW s \in Process, NEW hooks \in SUBSET Hook, NEW c \in Chain,
           Chains(s, hooks, c)
    PROVE  /\ ps' \in [Process -> Command]
           /\ ps'[s].todo = hooks /\ ps'[s].chain = c
           /\ ps'[s].pc = ps[s].pc /\ ps'[s].mode = ps[s].mode /\ ps'[s].proj = ps[s].proj
           /\ ps'[s].content = ps[s].content /\ ps'[s].rec = ps[s].rec
           /\ ps'[s].loaded = ps[s].loaded /\ ps'[s].left = ps[s].left
           /\ \A q \in Process : q # s => ps'[q] = ps[q]
<1> DEFINE d == [ps[s] EXCEPT !.todo = hooks, !.chain = c]
<1>1. ps[s] \in Command
    BY DEF GhTypes, TypeOK, Command
<1>2. d \in Command
    BY <1>1 DEF Command
<1>3. ps' = [ps EXCEPT ![s] = d]
    BY DEF GhTypes, TypeOK, Chains
<1>4. /\ d.todo = hooks /\ d.chain = c
      /\ d.pc = ps[s].pc /\ d.mode = ps[s].mode /\ d.proj = ps[s].proj
      /\ d.content = ps[s].content /\ d.rec = ps[s].rec /\ d.loaded = ps[s].loaded
      /\ d.left = ps[s].left
    BY <1>1 DEF Command
<1> HIDE DEF d
<1> QED
    BY <1>2, <1>3, <1>4, OneMoves

LEMMA RecMoves ==
    ASSUME GhTypes, NEW s \in Process, NEW step \in Steps, NEW r \in Record \cup {NoRecord},
           Recalls(s, step, r)
    PROVE  /\ ps' \in [Process -> Command]
           /\ ps'[s].pc = step /\ ps'[s].rec = r
           /\ ps'[s].mode = ps[s].mode /\ ps'[s].proj = ps[s].proj
           /\ ps'[s].content = ps[s].content /\ ps'[s].loaded = ps[s].loaded
           /\ ps'[s].todo = ps[s].todo /\ ps'[s].chain = ps[s].chain
           /\ ps'[s].left = ps[s].left
           /\ \A q \in Process : q # s => ps'[q] = ps[q]
<1> DEFINE d == [ps[s] EXCEPT !.pc = step, !.rec = r]
<1>1. ps[s] \in Command
    BY DEF GhTypes, TypeOK, Command
<1>2. d \in Command
    BY <1>1 DEF Command
<1>3. ps' = [ps EXCEPT ![s] = d]
    BY DEF GhTypes, TypeOK, Recalls
<1>4. /\ d.pc = step /\ d.rec = r
      /\ d.mode = ps[s].mode /\ d.proj = ps[s].proj /\ d.content = ps[s].content
      /\ d.loaded = ps[s].loaded /\ d.todo = ps[s].todo /\ d.chain = ps[s].chain
      /\ d.left = ps[s].left
    BY <1>1 DEF Command
<1> HIDE DEF d
<1> QED
    BY <1>2, <1>3, <1>4, OneMoves

LEMMA LeftMoves ==
    ASSUME GhTypes, NEW s \in Process, NEW step \in Steps, NEW projects \in SUBSET Project,
           Sweeps(s, step, projects)
    PROVE  /\ ps' \in [Process -> Command]
           /\ ps'[s].pc = step /\ ps'[s].left = projects
           /\ ps'[s].mode = ps[s].mode /\ ps'[s].proj = ps[s].proj
           /\ ps'[s].content = ps[s].content /\ ps'[s].rec = ps[s].rec
           /\ ps'[s].loaded = ps[s].loaded /\ ps'[s].todo = ps[s].todo
           /\ ps'[s].chain = ps[s].chain
           /\ \A q \in Process : q # s => ps'[q] = ps[q]
<1> DEFINE d == [ps[s] EXCEPT !.pc = step, !.left = projects]
<1>1. ps[s] \in Command
    BY DEF GhTypes, TypeOK, Command
<1>2. d \in Command
    BY <1>1 DEF Command
<1>3. ps' = [ps EXCEPT ![s] = d]
    BY DEF GhTypes, TypeOK, Sweeps
<1>4. /\ d.pc = step /\ d.left = projects
      /\ d.mode = ps[s].mode /\ d.proj = ps[s].proj /\ d.content = ps[s].content
      /\ d.rec = ps[s].rec /\ d.loaded = ps[s].loaded /\ d.todo = ps[s].todo
      /\ d.chain = ps[s].chain
    BY <1>1 DEF Command
<1> HIDE DEF d
<1> QED
    BY <1>2, <1>3, <1>4, OneMoves

LEMMA NextMoves ==
    ASSUME GhTypes, NEW s \in Process, NEW step \in Steps, NEW p \in Project,
           NEW projects \in SUBSET Project, NEW hooks \in SUBSET Hook,
           Turn(s, step, p, projects, hooks)
    PROVE  /\ ps' \in [Process -> Command]
           /\ ps'[s].pc = step /\ ps'[s].proj = p /\ ps'[s].left = projects /\ ps'[s].todo = hooks
           /\ ps'[s].mode = ps[s].mode /\ ps'[s].content = ps[s].content
           /\ ps'[s].rec = ps[s].rec /\ ps'[s].loaded = ps[s].loaded
           /\ ps'[s].chain = ps[s].chain
           /\ \A q \in Process : q # s => ps'[q] = ps[q]
<1> DEFINE d == [ps[s] EXCEPT !.pc = step, !.proj = p, !.left = projects, !.todo = hooks]
<1>1. ps[s] \in Command
    BY DEF GhTypes, TypeOK, Command
<1>2. d \in Command
    BY <1>1 DEF Command
<1>3. ps' = [ps EXCEPT ![s] = d]
    BY DEF GhTypes, TypeOK, Turn
<1>4. /\ d.pc = step /\ d.proj = p /\ d.left = projects /\ d.todo = hooks
      /\ d.mode = ps[s].mode /\ d.content = ps[s].content /\ d.rec = ps[s].rec
      /\ d.loaded = ps[s].loaded /\ d.chain = ps[s].chain
    BY <1>1 DEF Command
<1> HIDE DEF d
<1> QED
    BY <1>2, <1>3, <1>4, OneMoves


\* From which steps a command comes to a step.
Follows(old, new) ==
    /\ new = "snapshot" => old = "prompt"
    /\ new = "aLoad" => old = "snapshot"
    /\ new = "aSave" => old = "aLoad"
    /\ new = "stale" => old = "aSave"
    /\ new = "dispatchers" => old \in {"build", "dispatchers"}
    /\ new = "path" => old = "dispatchers"
    /\ new = "blocks" => old \in {"dispatchers", "blocks"}
    /\ new = "cLoad" => old \in {"path", "blocks"}
    /\ new = "cSave" => old = "cLoad"
    /\ new = "uPath" => old = "uLoad"
    /\ new = "uBlocks" => old \in {"uPath", "uBlocks"}
    /\ new = "uHooks" => old \in {"uBlocks", "uHooks"}
    /\ new = "uWrapper" => old \in {"uPath", "uHooks"}
    /\ new = "uaLoad" => old = "uWrapper"
    /\ new = "uaSave" => old = "uaLoad"
    /\ new = "uSnap" => old = "uaSave"
    /\ new = "rbFile" => old = "rbNext"
    /\ new = "rbRoot" => old = "rbFile"
    /\ new = "exec" => old = "idle"

\* What a step of a command does to the commands: only its own record changes, what
\* it holds fits, and it goes on as Follows says.
Moved(s) ==
    /\ ps' \in [Process -> Command]
    /\ \A q \in Process : q # s => ps'[q] = ps[q]
    /\ Fit(ps'[s])
    /\ ps'[s].pc = "snapshot" =>
          ps[s].pc = "prompt" /\ ps'[s].content = ps[s].content /\ ps'[s].proj = ps[s].proj
    /\ Follows(ps[s].pc, ps'[s].pc)

LEMMA LeaveMoved == ASSUME GhTypes, NEW s \in Process, Leave(s) PROVE Moved(s)
BY LeaveMoves, IdleFits DEF Moved, GhTypes, Follows

Flows(s, step) ==
    /\ step \in Holding => ps[s].pc \in Holding
    /\ ps[s].pc \in Composing => step \in Composing
    /\ step \in Sweeping => ps[s].mode = "rollback"
    /\ Follows(ps[s].pc, step)

LEMMA GoMoved ==
    ASSUME GhTypes, NEW s \in Process, NEW step \in Steps, Go(s, step), Flows(s, step)
    PROVE  Moved(s)
BY GoMoves, ZenonT(40) DEF Moved, Go, GhTypes, Fit, Flows, Follows

LEMMA FinishMoved ==
    ASSUME GhTypes, NEW s \in Process, Finish(s), ps[s].pc \notin Composing PROVE Moved(s)
<1>1. CASE ps[s].mode = "rollback"
    BY <1>1, GoMoved DEF Finish, Steps, Holding, Flows, Follows
<1>2. CASE ps[s].mode # "rollback"
    BY <1>2, LeaveMoved DEF Finish
<1> QED
    BY <1>1, <1>2

\* One of the hooks to go through is done.
LEMMA DoneMoves ==
    ASSUME GhTypes, NEW s \in Process, NEW h, ps' = [ps EXCEPT ![s].todo = @ \ {h}]
    PROVE  /\ ps' \in [Process -> Command]
           /\ ps'[s].todo = ps[s].todo \ {h}
           /\ ps'[s].pc = ps[s].pc /\ ps'[s].mode = ps[s].mode
           /\ ps'[s].proj = ps[s].proj /\ ps'[s].content = ps[s].content
           /\ ps'[s].rec = ps[s].rec /\ ps'[s].loaded = ps[s].loaded
           /\ ps'[s].chain = ps[s].chain /\ ps'[s].left = ps[s].left
           /\ \A q \in Process : q # s => ps'[q] = ps[q]
<1>1. ps[s].todo \ {h} \in SUBSET Hook
    BY DEF GhTypes, TypeOK
<1>2. ps' = [ps EXCEPT ![s].todo = ps[s].todo \ {h}]
    BY DEF GhTypes, TypeOK
<1> QED
    BY <1>1, <1>2, TodoMoves, Zenon

LEMMA DoneMoved ==
    ASSUME GhTypes, NEW s \in Process, NEW h, ps' = [ps EXCEPT ![s].todo = @ \ {h}]
    PROVE  ps[s].pc \in {"dispatchers", "uBlocks", "uHooks"} => Moved(s)
BY DoneMoves DEF Moved, GhTypes, Fit, Follows

LEMMA InstallMoves == ASSUME GhTypes, NEW s \in Process, Install(s) PROVE Moved(s)
<1> USE DEF Holding, Composing, Sweeping, Fit, Flows, Follows, Steps, At
<1>p. ps[s].proj \in Project /\ ps[s] \in Command
    BY DEF GhTypes, TypeOK, Command
<1>1. CASE Inspect(s)
    <2>g. ps[s].pc = "inspect"
        BY <1>1 DEF Inspect
    <2>1. CASE Leave(s)
        BY <2>1, LeaveMoved
    <2>2. CASE Go(s, "build")
        BY <1>1, <2>2, GoMoved DEF Inspect
    <2>3. CASE /\ repo[P(s)] \in Bundle
               /\ ps' = [ps EXCEPT ![s].pc = "prompt", ![s].content = repo[P(s)]]
        <3>1. "prompt" \in Steps /\ repo[P(s)] \in Bundle
            BY <2>3
        <3>2. Loads(s, "prompt", repo[P(s)])
            BY <2>3 DEF Loads
        <3> QED
            BY <2>g, <3>1, <3>2, ContentMoves DEF Moved, GhTypes
    <2> QED
        BY <1>1, <2>1, <2>2, <2>3 DEF Inspect
<1>2. CASE Prompt(s)
    BY <1>2, LeaveMoved, GoMoved DEF Prompt
<1>3. CASE WriteSnapshot(s) \/ SaveApproval(s) \/ RemoveStale(s)
    BY <1>3, GoMoved DEF WriteSnapshot, SaveApproval, RemoveStale
<1>4. CASE LoadApprovals(s)
    <2>1. approvals \in [Project -> Record \cup {NoRecord}]
        BY DEF GhTypes, TypeOK
    <2> QED
        BY <1>4, <2>1, LoadedMoves, ZenonT(40) DEF Rereads, LoadApprovals, Moved, GhTypes
<1>5. CASE Build(s)
    <2>g. ps[s].pc = "build"
        BY <1>5 DEF Build
    <2>1. CASE Leave(s)
        BY <2>1, LeaveMoved
    <2>2. CASE /\ InstallAllowed(P(s), ps[s].mode)
               /\ ps' = [ps EXCEPT ![s].pc = "dispatchers",
                                   ![s].content = repo[P(s)],
                                   ![s].todo = HooksOf[repo[P(s)]]]
        <3>1. repo[P(s)] \in Bundle /\ HooksOf[repo[P(s)]] \in SUBSET Hook
            BY <2>2, GitHooksAssumption DEF InstallAllowed
        <3>2. "dispatchers" \in Steps /\ repo[P(s)] \in Bundle \cup {NoBundle}
            BY <3>1
        <3>3. Builds(s, "dispatchers", repo[P(s)], HooksOf[repo[P(s)]])
            BY <2>2 DEF Builds
        <3> QED
            BY <2>g, <3>1, <3>2, <3>3, BuildMoves DEF Moved, GhTypes
    <2> QED
        BY <1>5, <2>1, <2>2 DEF Build
<1>6. CASE WriteDispatcher(s)
    <2>1. PICK h : ps' = [ps EXCEPT ![s].todo = @ \ {h}]
        BY <1>6 DEF WriteDispatcher
    <2> QED
        BY <1>6, <2>1, DoneMoved DEF WriteDispatcher, GhTypes
<1>7. CASE WriteWrapper(s)
    <2>1. CASE Go(s, "path")
        BY <1>7, <2>1, GoMoved DEF WriteWrapper
    <2>2. CASE ps' = [ps EXCEPT ![s].pc = "blocks", ![s].todo = HooksOf[ps[s].content]]
        <3>1. /\ HooksOf[ps[s].content] \in SUBSET Hook /\ ps[s].content \in Bundle
              /\ ps[s].pc = "dispatchers"
            BY <1>7, GitHooksAssumption DEF WriteWrapper, GhTypes
        <3>2. "blocks" \in Steps
            OBVIOUS
        <3>3. Turns(s, "blocks", HooksOf[ps[s].content])
            BY <2>2 DEF Turns
        <3> QED
            BY <3>1, <3>2, <3>3, TodoGoMoves DEF Moved, GhTypes
    <2> QED
        BY <1>7, <2>1, <2>2 DEF WriteWrapper
<1>8. CASE SetHooksPath(s) \/ DropManagedDir(s)
    BY <1>8, GoMoved DEF SetHooksPath, DropManagedDir
<1>9. CASE AddBlock(s)
    <2>1. CASE Leave(s)
        BY <2>1, LeaveMoved
    <2>2. CASE ~Leave(s)
        <3>1. PICK h \in ps[s].todo :
                 LET body == BodyOf(owner[P(s)][h]) IN
                 ps' = [ps EXCEPT ![s].todo = @ \ {h}, ![s].chain = @ \cup {<<h, body>>}]
            BY <1>9, <2>2 DEF AddBlock
        <3> DEFINE body == BodyOf(owner[P(s)][h])
        <3>2. h \in Hook /\ owner[P(s)][h] \in OwnerFile
            BY <1>p DEF Command, GhTypes, TypeOK, P
        <3>3. body \in Body
            BY <3>2, GitHooksAssumption DEF BodyOf, OwnerFile
        <3>4. ps[s].todo \ {h} \in SUBSET Hook /\ ps[s].chain \cup {<<h, body>>} \in Chain
            BY <1>p, <3>2, <3>3 DEF Command, Chain
        <3>5. ps' = [ps EXCEPT ![s].todo = ps[s].todo \ {h},
                               ![s].chain = ps[s].chain \cup {<<h, body>>}]
            BY <3>1 DEF GhTypes, TypeOK
        <3> QED
            BY <1>9, <3>4, <3>5, ChainMoves DEF Chains, AddBlock, Moved, GhTypes
    <2> QED
        BY <2>1, <2>2
<1>10. CASE LoadForChain(s)
    <2>1. approvals \in [Project -> Record \cup {NoRecord}]
        BY DEF GhTypes, TypeOK
    <2> QED
        BY <1>10, <2>1, LoadedMoves, ZenonT(40) DEF Rereads, LoadForChain, Moved, GhTypes
<1>11. CASE SaveChain(s)
    BY <1>11, LeaveMoved DEF SaveChain
<1> QED
    BY <1>1, <1>2, <1>3, <1>4, <1>5, <1>6, <1>7, <1>8, <1>9, <1>10, <1>11 DEF Install

LEMMA UninstallMoves == ASSUME GhTypes, NEW s \in Process, Uninstall(s) PROVE Moved(s)
<1> USE DEF Holding, Composing, Sweeping, Fit, Flows, Follows, Steps, At
<1>p. /\ ps[s].proj \in Project /\ ps[s] \in Command
      /\ approvals \in [Project -> Record \cup {NoRecord}]
    BY DEF GhTypes, TypeOK, Command
<1>1. CASE UninstallInspect(s)
    BY <1>1, LeaveMoved, GoMoved DEF UninstallInspect
<1>2. CASE UninstallLoad(s)
    <2>g. ps[s].pc = "uLoad"
        BY <1>2 DEF UninstallLoad
    <2>1. "uPath" \in Steps /\ approvals[P(s)] \in Record \cup {NoRecord}
        BY <1>p DEF P
    <2>2. Recalls(s, "uPath", approvals[P(s)])
        BY <1>2 DEF UninstallLoad, Recalls
    <2> QED
        BY <2>g, <2>1, <2>2, RecMoves DEF Moved, GhTypes
<1>3. CASE UnsetHooksPath(s)
    <2>g. ps[s].pc = "uPath"
        BY <1>3 DEF UnsetHooksPath
    <2>1. {c[1] : c \in ChainOf(ps[s].rec)} \in SUBSET Hook
        BY <1>p DEF ChainOf, Command, Record, Chain
    <2>2. "uBlocks" \in Steps
        OBVIOUS
    <2>3. Turns(s, "uBlocks", {c[1] : c \in ChainOf(ps[s].rec)})
        BY <1>3 DEF UnsetHooksPath, Turns
    <2> QED
        BY <2>g, <2>1, <2>2, <2>3, TodoGoMoves DEF Moved, GhTypes
<1>4. CASE RemoveBlock(s)
    <2>g. ps[s].pc = "uBlocks"
        BY <1>4 DEF RemoveBlock
    <2>1. CASE Finish(s)
        BY <1>4, <2>1, FinishMoved DEF RemoveBlock
    <2>2. CASE \E h \in ps[s].todo : ps' = [ps EXCEPT ![s].todo = @ \ {h}]
        BY <1>4, <2>2, DoneMoved DEF RemoveBlock
    <2>3. CASE ps' = [ps EXCEPT ![s].pc = "uHooks", ![s].todo = HooksOfRecord(ps[s].rec)]
        <3>1. HooksOfRecord(ps[s].rec) \in SUBSET Hook
            BY <1>p, GitHooksAssumption DEF HooksOfRecord, Command, Record
        <3>2. "uHooks" \in Steps
            OBVIOUS
        <3>3. Turns(s, "uHooks", HooksOfRecord(ps[s].rec))
            BY <2>3 DEF Turns
        <3> QED
            BY <2>g, <3>1, <3>2, <3>3, TodoGoMoves DEF Moved, GhTypes
    <2> QED
        BY <1>4, <2>1, <2>2, <2>3 DEF RemoveBlock
<1>5. CASE RemoveDispatcher(s)
    <2>1. CASE Go(s, "uWrapper")
        BY <1>5, <2>1, GoMoved DEF RemoveDispatcher
    <2>2. CASE \E h \in ps[s].todo : ps' = [ps EXCEPT ![s].todo = @ \ {h}]
        BY <1>5, <2>2, DoneMoved DEF RemoveDispatcher
    <2> QED
        BY <1>5, <2>1, <2>2 DEF RemoveDispatcher
<1>6. CASE RemoveWrapper(s) \/ SaveRemoval(s) \/ SkipRepository(s)
    <2>1. CASE RemoveWrapper(s)
        BY <2>1, GoMoved DEF RemoveWrapper
    <2>2. CASE SaveRemoval(s)
        BY <2>2, GoMoved DEF SaveRemoval
    <2>3. CASE SkipRepository(s)
        BY <2>3, GoMoved DEF SkipRepository
    <2> QED
        BY <1>6, <2>1, <2>2, <2>3
<1>7. CASE LoadForRemoval(s)
    <2>1. Rereads(s, "uaSave", approvals) /\ "uaSave" \in Steps /\ ps[s].pc = "uaLoad"
        BY <1>7 DEF LoadForRemoval, Rereads
    <2> QED
        BY <1>p, <2>1, LoadedMoves DEF Moved, GhTypes
<1>8. CASE RemoveSnapshot(s)
    BY <1>8, FinishMoved DEF RemoveSnapshot
<1> QED
    BY <1>1, <1>2, <1>3, <1>4, <1>5, <1>6, <1>7, <1>8 DEF Uninstall

LEMMA RollbackMoves == ASSUME GhTypes, NEW s \in Process, Rollback(s) PROVE Moved(s)
<1> USE DEF Holding, Composing, Sweeping, Fit, Flows, Follows, Steps, At
<1>p. ps[s].proj \in Project /\ ps[s] \in Command
    BY DEF GhTypes, TypeOK, Command
<1>1. CASE RollbackLoad(s)
    <2>g. ps[s].pc = "rbLoad"
        BY <1>1 DEF RollbackLoad
    <2>1. "rbNext" \in Steps /\ {p \in Project : approvals[p] # NoRecord} \in SUBSET Project
        OBVIOUS
    <2>2. Sweeps(s, "rbNext", {p \in Project : approvals[p] # NoRecord})
        BY <1>1 DEF RollbackLoad, Sweeps
    <2> QED
        BY <2>g, <2>1, <2>2, LeftMoves DEF Moved, GhTypes
<1>2. CASE RollbackNext(s)
    <2>g. ps[s].pc = "rbNext"
        BY <1>2 DEF RollbackNext
    <2>1. CASE Go(s, "rbFile")
        BY <1>2, <2>1, GoMoved DEF RollbackNext, GhTypes
    <2>2. CASE \E p \in ps[s].left : ps' = [ps EXCEPT ![s].pc = "uLoad", ![s].proj = p,
                              ![s].left = @ \ {p}, ![s].todo = {}]
        <3>1. PICK p \in ps[s].left : ps' = [ps EXCEPT ![s].pc = "uLoad", ![s].proj = p,
                              ![s].left = ps[s].left \ {p}, ![s].todo = {}]
            BY <2>2 DEF GhTypes, TypeOK
        <3>2. p \in Project /\ ps[s].left \ {p} \in SUBSET Project
            BY <1>p DEF Command
        <3>3. "uLoad" \in Steps /\ {} \in SUBSET Hook
            OBVIOUS
        <3>4. Turn(s, "uLoad", p, ps[s].left \ {p}, {})
            BY <3>1 DEF Turn
        <3>5. /\ ps' \in [Process -> Command] /\ ps'[s].pc = "uLoad"
              /\ ps'[s].chain = ps[s].chain /\ ps'[s].mode = ps[s].mode
              /\ \A q \in Process : q # s => ps'[q] = ps[q]
            BY <3>2, <3>3, <3>4, NextMoves, ZenonT(40)
        <3> QED
            BY <2>g, <3>5 DEF Moved, GhTypes
    <2> QED
        BY <1>2, <2>1, <2>2 DEF RollbackNext
<1>3. CASE RollbackFile(s) \/ RollbackRoot(s)
    BY <1>3, GoMoved, LeaveMoved DEF RollbackFile, RollbackRoot, GhTypes
<1> QED
    BY <1>1, <1>2, <1>3 DEF Rollback

CommandStep(s) ==
    \/ \E p \in Project, mode \in Modes : Begin(s, p, mode)
    \/ \E p \in Project, h \in Hook : Dispatch(s, p, h)
    \/ Install(s) \/ Uninstall(s) \/ Rollback(s) \/ Execute(s) \/ Crash(s)

LEMMA CommandMoves == ASSUME GhTypes, NEW s \in Process, CommandStep(s) PROVE Moved(s)
<1>1. CASE \E p \in Project, mode \in Modes : Begin(s, p, mode)
    <2>1. PICK p \in Project, mode \in Modes : Begin(s, p, mode)
        BY <1>1
    <2> DEFINE c == [Idle EXCEPT !.pc = First(mode), !.mode = mode, !.proj = p]
    <2>2. mode \in AllModes /\ mode # "hook"
        BY <2>1, GitHooksAssumption DEF Begin
    <2>3. First(mode) \in {"inspect", "uInspect", "rbLoad"} /\ (First(mode) = "rbLoad" => mode = "rollback")
        BY <2>2 DEF First, AllModes
    <2>4. /\ c \in Command
          /\ c.pc = First(mode) /\ c.mode = mode /\ c.chain = Idle.chain
        BY <2>2, <2>3, IdleIsCommand DEF Command, Steps
    <2>5. ps' = [ps EXCEPT ![s] = c]
        BY <2>1 DEF Begin
    <2> HIDE DEF c
    <2>6. Fit(c) /\ c.pc # "snapshot" /\ Follows(ps[s].pc, c.pc)
        BY <2>3, <2>4, IdleFits DEF Fit, Follows, Holding, Composing, Sweeping
    <2> QED
        BY <2>4, <2>5, <2>6, OneMoves DEF Moved
<1>2. CASE \E p \in Project, h \in Hook : Dispatch(s, p, h)
    <2>1. PICK p \in Project, h \in Hook : Dispatch(s, p, h)
        BY <1>2
    <2> DEFINE c == [Idle EXCEPT !.pc = "exec", !.proj = p, !.content = approvals[p].bundle]
    <2>2. approvals[p].bundle \in Bundle
        BY <2>1 DEF Dispatch, Valid, Approved
    <2>3. c \in Command /\ c.pc = "exec" /\ c.mode = Idle.mode /\ c.chain = Idle.chain
        BY <2>2, IdleIsCommand DEF Command, Steps
    <2>4. ps' = [ps EXCEPT ![s] = c]
        BY <2>1 DEF Dispatch
    <2> HIDE DEF c
    <2>5. Fit(c) /\ c.pc # "snapshot" /\ Follows(ps[s].pc, c.pc)
        BY <2>1, <2>3, IdleFits DEF Dispatch, At, Follows, Fit, Holding, Composing, Sweeping
    <2> QED
        BY <2>3, <2>4, <2>5, OneMoves DEF Moved
<1>3. CASE Execute(s) \/ Crash(s)
    BY <1>3, LeaveMoved DEF Execute, Crash
<1> QED
    BY <1>1, <1>2, <1>3, InstallMoves, UninstallMoves, RollbackMoves DEF CommandStep

\* The files of the repository and of the host.
FilesTyped ==
    /\ repo \in [Project -> Bundle \cup {NoBundle, Malformed}]
    /\ hooksPath \in [Project -> {"unset", "managed", "owner"}]
    /\ managed \in [Project -> SUBSET Hook]
    /\ fallback \in [Project -> [Hook -> {"none", "hazmat", "user"}]]
    /\ owner \in [Project -> [Hook -> OwnerFile]]
    /\ kept \in [Project -> SUBSET Trace]
    /\ wrapper \in [Project -> BOOLEAN]
    /\ approvals \in [Project -> Record \cup {NoRecord}]
    /\ snapshot \in [Project -> [Bundle -> {"none", "partial", "whole"}]]
    /\ consented \in [Project -> SUBSET Bundle]

LEMMA Put ==
    ASSUME NEW S, NEW R, NEW f \in [S -> R], NEW a \in S, NEW v \in R
    PROVE  [f EXCEPT ![a] = v] \in [S -> R]
OBVIOUS

LEMMA PutIn ==
    ASSUME NEW S, NEW T, NEW R, NEW f \in [S -> [T -> R]], NEW a \in S, NEW b \in T, NEW v \in R
    PROVE  [f EXCEPT ![a][b] = v] \in [S -> [T -> R]]
OBVIOUS

LEMMA InstallKeepsFiles == ASSUME GhTypes, NEW s \in Process, Install(s) PROVE FilesTyped'
<1> USE DEF FilesTyped, inRepo, onHost, At, P
<1>t. /\ FilesTyped /\ ps[s].proj \in Project /\ ps[s].todo \in SUBSET Hook
      /\ ps[s].loaded \in [Project -> Record \cup {NoRecord}] /\ ps[s].chain \in Chain
      /\ ps[s].pc \in Holding => ps[s].content \in Bundle
    BY DEF GhTypes, TypeOK, Fit
<1>1. CASE Inspect(s) \/ LoadApprovals(s) \/ Build(s) \/ LoadForChain(s)
    BY <1>1, <1>t DEF Inspect, LoadApprovals, Build, LoadForChain
<1>2. CASE Prompt(s)
    <2>1. ps[s].content \in Bundle
        BY <1>2, <1>t DEF Prompt, Holding
    <2>2. consented' \in [Project -> SUBSET Bundle]
        <3>1. CASE UNCHANGED consented
            BY <1>t, <3>1
        <3>2. CASE consented' = [consented EXCEPT ![ps[s].proj] = @ \cup {ps[s].content}]
            <4>1. consented[ps[s].proj] \cup {ps[s].content} \in SUBSET Bundle
                BY <1>t, <2>1
            <4>2. consented' = [consented EXCEPT ![ps[s].proj] = consented[ps[s].proj] \cup {ps[s].content}]
                BY <3>2
            <4> QED
                BY <1>t, <4>1, <4>2, Put
        <3> QED
            BY <1>2, <3>1, <3>2 DEF Prompt
    <2> QED
        BY <1>2, <1>t, <2>2 DEF Prompt
<1>3. CASE WriteSnapshot(s)
    BY <1>3, <1>t DEF WriteSnapshot, Holding
<1>4. CASE SaveApproval(s)
    BY <1>4, <1>t DEF SaveApproval, Holding, Record
<1>5. CASE RemoveStale(s)
    BY <1>5, <1>t DEF RemoveStale, Withdrawn
<1>6. CASE WriteDispatcher(s)
    BY <1>6, <1>t DEF WriteDispatcher
<1>7. CASE WriteWrapper(s)
    BY <1>7, <1>t DEF WriteWrapper
<1>8. CASE SetHooksPath(s)
    BY <1>8, <1>t DEF SetHooksPath
<1>9. CASE AddBlock(s)
    <2>1. CASE UNCHANGED owner
        BY <1>9, <1>t, <2>1 DEF AddBlock
    <2>2. CASE ~UNCHANGED owner
        <3>1. PICK h \in ps[s].todo :
                 owner' = [owner EXCEPT ![ps[s].proj][h] =
                             [body |-> BodyOf(owner[ps[s].proj][h]), mark |-> "block"]]
            BY <1>9, <2>2 DEF AddBlock
        <3>2. h \in Hook /\ owner[ps[s].proj][h] \in OwnerFile
            BY <1>t
        <3>3. [body |-> BodyOf(owner[ps[s].proj][h]), mark |-> "block"] \in OwnerFile
            BY <3>2, GitHooksAssumption DEF BodyOf, OwnerFile
        <3>4. owner' \in [Project -> [Hook -> OwnerFile]]
            BY <1>t, <3>1, <3>2, <3>3, PutIn
        <3> QED
            BY <1>9, <1>t, <3>4 DEF AddBlock
    <2> QED
        BY <2>1, <2>2
<1>10. CASE DropManagedDir(s)
    BY <1>10, <1>t DEF DropManagedDir
<1>11. CASE SaveChain(s)
    <2>1. CASE UNCHANGED approvals
        BY <1>11, <1>t, <2>1 DEF SaveChain
    <2>2. CASE ~UNCHANGED approvals
        <3> DEFINE c == IF ps[s].mode = "chain" THEN ps[s].chain ELSE NoChain
        <3>1. /\ ps[s].loaded[ps[s].proj] # NoRecord
              /\ approvals' = [ps[s].loaded EXCEPT ![ps[s].proj].chain = c]
            BY <1>11, <2>2 DEF SaveChain
        <3>2. c \in {NoChain} \cup Chain
            BY <1>t
        <3>3. ps[s].loaded[ps[s].proj] \in Record
            BY <1>t, <3>1
        <3> HIDE DEF c
        <3>4. [ps[s].loaded[ps[s].proj] EXCEPT !.chain = c] \in Record
            BY <3>2, <3>3 DEF Record
        <3>5. approvals' \in [Project -> Record \cup {NoRecord}]
            BY <1>t, <3>1, <3>4
        <3> QED
            BY <1>11, <1>t, <3>5 DEF SaveChain
    <2> QED
        BY <2>1, <2>2
<1> QED
    BY <1>1, <1>2, <1>3, <1>4, <1>5, <1>6, <1>7, <1>8, <1>9, <1>10, <1>11 DEF Install

LEMMA UninstallKeepsFiles == ASSUME GhTypes, NEW s \in Process, Uninstall(s) PROVE FilesTyped'
<1> USE DEF FilesTyped, inRepo, onHost, At, P
<1>t. /\ FilesTyped /\ ps[s].proj \in Project /\ ps[s].todo \in SUBSET Hook
      /\ ps[s].loaded \in [Project -> Record \cup {NoRecord}]
    BY DEF GhTypes, TypeOK
<1>1. CASE UninstallInspect(s) \/ UninstallLoad(s) \/ LoadForRemoval(s)
    BY <1>1, <1>t DEF UninstallInspect, UninstallLoad, LoadForRemoval
<1>2. CASE UnsetHooksPath(s)
    BY <1>2, <1>t DEF UnsetHooksPath
<1>3. CASE RemoveBlock(s)
    <2>1. CASE UNCHANGED owner
        BY <1>3, <1>t, <2>1 DEF RemoveBlock
    <2>2. CASE ~UNCHANGED owner
        <3>1. PICK h \in ps[s].todo :
                 /\ owner[ps[s].proj][h] # NoFile
                 /\ owner' = [owner EXCEPT ![ps[s].proj][h].mark = "clean"]
            BY <1>3, <2>2 DEF RemoveBlock
        <3>2. h \in Hook /\ owner[ps[s].proj][h] \in OwnerFile
            BY <1>t
        <3>3. [owner[ps[s].proj][h] EXCEPT !.mark = "clean"] \in OwnerFile
            BY <3>1, <3>2 DEF OwnerFile
        <3>4. owner' = [owner EXCEPT ![ps[s].proj][h] = [owner[ps[s].proj][h] EXCEPT !.mark = "clean"]]
            BY <1>t, <3>1
        <3>5. owner' \in [Project -> [Hook -> OwnerFile]]
            BY <1>t, <3>2, <3>3, <3>4, PutIn
        <3> QED
            BY <1>3, <1>t, <3>5 DEF RemoveBlock
    <2> QED
        BY <2>1, <2>2
<1>4. CASE RemoveDispatcher(s)
    <2>1. managed' \in [Project -> SUBSET Hook]
        <3>1. managed' = managed \/ \E left \in SUBSET Hook : managed' = [managed EXCEPT ![ps[s].proj] = left]
            BY <1>4, <1>t DEF RemoveDispatcher
        <3>2. CASE managed' = managed
            BY <1>t, <3>2
        <3>3. CASE \E left \in SUBSET Hook : managed' = [managed EXCEPT ![ps[s].proj] = left]
            BY <1>t, <3>3, Put
        <3> QED
            BY <3>1, <3>2, <3>3
    <2>2. fallback' \in [Project -> [Hook -> {"none", "hazmat", "user"}]]
        <3>1. CASE UNCHANGED fallback
            BY <1>t, <3>1
        <3>2. CASE \E h \in ps[s].todo : fallback' = [fallback EXCEPT ![ps[s].proj][h] = "none"]
            BY <1>t, <3>2, PutIn
        <3> QED
            BY <1>4, <3>1, <3>2 DEF RemoveDispatcher
    <2>3. kept' \in [Project -> SUBSET Trace]
        <3>1. ASSUME NEW gone, NEW left,
                     left \subseteq Places \X Hook,
                     kept' = [kept EXCEPT ![ps[s].proj] = (@ \ gone) \cup left]
              PROVE  kept' \in [Project -> SUBSET Trace]
            <4>1. (kept[ps[s].proj] \ gone) \cup left \in SUBSET Trace
                BY <1>t, <3>1 DEF Trace
            <4> QED
                BY <1>t, <3>1, <4>1
        <3>2. ASSUME NEW h \in ps[s].todo, NEW stuck \in SUBSET Places,
                     kept' = [kept EXCEPT ![ps[s].proj] =
                                (@ \ ((Places \ stuck) \X {h}))
                                \cup ((stuck \X {h}) \cap InRepository(ps[s].proj))]
              PROVE  kept' \in [Project -> SUBSET Trace]
            <4>1. (stuck \X {h}) \cap InRepository(ps[s].proj) \subseteq Places \X Hook
                BY <1>t
            <4> QED
                BY <3>1, <3>2, <4>1, Zenon
        <3>3. ASSUME NEW stuck \in SUBSET managed[ps[s].proj],
                     kept' = [kept EXCEPT ![ps[s].proj] =
                                (@ \ ({"managed"} \X Hook)) \cup ({"managed"} \X stuck)]
              PROVE  kept' \in [Project -> SUBSET Trace]
            <4>1. {"managed"} \X stuck \subseteq Places \X Hook
                BY <1>t DEF Places
            <4> QED
                BY <3>1, <3>3, <4>1, Zenon
        <3> QED
            BY <1>4, <3>2, <3>3, Zenon DEF RemoveDispatcher
    <2> QED
        BY <1>4, <1>t, <2>1, <2>2, <2>3 DEF RemoveDispatcher
<1>5. CASE RemoveWrapper(s)
    <2>1. kept' \in [Project -> SUBSET Trace]
        <3>1. PICK left \in {kept[ps[s].proj] \ {<<"wrapper">>}, kept[ps[s].proj] \cup {<<"wrapper">>}} :
                 kept' = [kept EXCEPT ![ps[s].proj] = left]
            BY <1>5 DEF RemoveWrapper
        <3>2. left \in SUBSET Trace
            BY <1>t, <3>1 DEF Trace
        <3> QED
            BY <1>t, <3>1, <3>2, Put
    <2>2. wrapper' \in [Project -> BOOLEAN]
        BY <1>5, <1>t DEF RemoveWrapper
    <2> QED
        BY <1>5, <1>t, <2>1, <2>2 DEF RemoveWrapper
<1>6. CASE SaveRemoval(s)
    BY <1>6, <1>t DEF SaveRemoval
<1>7. CASE RemoveSnapshot(s)
    BY <1>7, <1>t DEF RemoveSnapshot, Withdrawn
<1>8. CASE SkipRepository(s)
    <2>1. InRepository(ps[s].proj) \subseteq Trace
        BY <1>t DEF InRepository, Trace, Places
    <2> HIDE DEF InRepository
    <2> QED
        BY <1>8, <1>t, <2>1 DEF SkipRepository
<1> QED
    BY <1>1, <1>2, <1>3, <1>4, <1>5, <1>6, <1>7, <1>8 DEF Uninstall

LEMMA OthersKeepFiles ==
    ASSUME GhTypes,
           \/ \E s \in Process : Rollback(s) \/ Execute(s) \/ Crash(s)
           \/ \E s \in Process, p \in Project, mode \in Modes : Begin(s, p, mode)
           \/ \E s \in Process, p \in Project, h \in Hook : Dispatch(s, p, h)
           \/ Agent
    PROVE  FilesTyped'
<1> USE DEF FilesTyped, inRepo, onHost
<1>t. FilesTyped
    BY DEF GhTypes, TypeOK
<1>1. ASSUME NEW s \in Process, Rollback(s) PROVE FilesTyped'
    <2>1. CASE RollbackLoad(s) \/ RollbackNext(s) \/ RollbackFile(s)
        BY <1>t, <2>1 DEF RollbackLoad, RollbackNext, RollbackFile, NoApprovals
    <2>2. CASE RollbackRoot(s)
        <3>1. CASE UNCHANGED <<snapshot, wrapper, kept, consented>>
            BY <1>t, <2>2, <3>1 DEF RollbackRoot
        <3>2. CASE ~UNCHANGED <<snapshot, wrapper, kept, consented>>
            <4>1. consented' \in [Project -> SUBSET Bundle]
                BY <1>t, <2>2, <3>2 DEF RollbackRoot, Withdrawn
            <4>2. kept' \in [Project -> SUBSET Trace]
                BY <1>t, <2>2, <3>2 DEF RollbackRoot
            <4>3. /\ UNCHANGED <<repo, hooksPath, managed, fallback, owner, approvals>>
                  /\ snapshot' = [p \in Project |-> [b \in Bundle |-> "none"]]
                  /\ wrapper' = [p \in Project |-> FALSE]
                BY <2>2, <3>2, Zenon DEF RollbackRoot
            <4>4. /\ snapshot' \in [Project -> [Bundle -> {"none", "partial", "whole"}]]
                  /\ wrapper' \in [Project -> BOOLEAN]
                BY <4>3
            <4> QED
                BY <1>t, <4>1, <4>2, <4>3, <4>4
        <3> QED
            BY <3>1, <3>2
    <2> QED
        BY <1>1, <2>1, <2>2 DEF Rollback
<1>2. ASSUME NEW s \in Process, Execute(s) PROVE FilesTyped'
    BY <1>2, <1>t DEF Execute
<1>3. ASSUME NEW s \in Process, Crash(s) PROVE FilesTyped'
    <2>1. ps[s].proj \in Project
        BY DEF GhTypes, TypeOK
    <2>2. CASE UNCHANGED <<approvals, snapshot>>
        BY <1>3, <1>t, <2>2 DEF Crash
    <2>3. CASE approvals' = NoApprovals /\ UNCHANGED snapshot
        BY <1>3, <1>t, <2>3 DEF Crash, NoApprovals
    <2>4. CASE /\ \E b \in IF At(s, "stale") THEN StaleBundles(s)
                            ELSE IF At(s, "uSnap") THEN RemovedBundles(s) ELSE {} :
                     snapshot' = [snapshot EXCEPT ![P(s)][b] = "partial"]
               /\ UNCHANGED approvals
        <3>1. PICK b \in Bundle : snapshot' = [snapshot EXCEPT ![ps[s].proj][b] = "partial"]
            BY <1>3, <2>4 DEF Crash, P, StaleBundles, RemovedBundles
        <3>2. snapshot' \in [Project -> [Bundle -> {"none", "partial", "whole"}]]
            BY <1>t, <2>1, <3>1
        <3> QED
            BY <1>3, <1>t, <2>4, <3>2 DEF Crash
    <2> QED
        BY <1>3, <2>2, <2>3, <2>4 DEF Crash
<1>4. ASSUME NEW s \in Process, NEW p \in Project, NEW mode \in Modes, Begin(s, p, mode)
      PROVE FilesTyped'
    BY <1>4, <1>t DEF Begin
<1>5. ASSUME NEW s \in Process, NEW p \in Project, NEW h \in Hook, Dispatch(s, p, h)
      PROVE FilesTyped'
    BY <1>5, <1>t DEF Dispatch
<1>6. CASE Agent
    <2>1. ASSUME NEW p \in Project, NEW b \in Bundle \cup {NoBundle, Malformed},
                 AgentEditsBundle(p, b)
          PROVE  FilesTyped'
        BY <1>t, <2>1 DEF AgentEditsBundle
    <2>2. ASSUME NEW p \in Project, NEW path \in {"unset", "managed", "owner"},
                 AgentReroutes(p, path)
          PROVE  FilesTyped'
        BY <1>t, <2>2 DEF AgentReroutes
    <2>3. ASSUME NEW p \in Project, NEW h \in Hook, NEW file \in OwnerFile,
                 AgentEditsOwner(p, h, file)
          PROVE  FilesTyped'
        BY <1>t, <2>3, PutIn DEF AgentEditsOwner
    <2> QED
        BY <1>6, <2>1, <2>2, <2>3 DEF Agent
<1> QED
    BY <1>1, <1>2, <1>3, <1>4, <1>5, <1>6

LEMMA TypesStep == GhTypes /\ [Next]_vars => GhTypes'
<1> SUFFICES ASSUME GhTypes, [Next]_vars PROVE GhTypes'
    OBVIOUS
<1>t. FilesTyped /\ ps \in [Process -> Command] /\ \A s \in Process : Fit(ps[s])
    BY DEF GhTypes, TypeOK, FilesTyped, Command
<1>1. CASE \E s \in Process : CommandStep(s)
    <2>1. PICK s \in Process : CommandStep(s)
        BY <1>1
    <2>2. ps' \in [Process -> Command] /\ \A q \in Process : Fit(ps'[q])
        BY <1>t, <2>1, CommandMoves DEF Moved
    <2>3. FilesTyped'
        BY <2>1, InstallKeepsFiles, UninstallKeepsFiles, OthersKeepFiles DEF CommandStep
    <2> QED
        BY <2>2, <2>3 DEF GhTypes, TypeOK, FilesTyped, Command
<1>2. CASE Agent
    <2>1. ps' = ps
        BY <1>2 DEF Agent, AgentEditsBundle, AgentReroutes, AgentEditsOwner
    <2>2. FilesTyped'
        BY <1>2, OthersKeepFiles
    <2> QED
        BY <1>t, <2>1, <2>2 DEF GhTypes, TypeOK, FilesTyped, Command
<1>3. CASE UNCHANGED vars
    BY <1>3 DEF vars, GhTypes, TypeOK, Fit
<1> QED
    BY <1>1, <1>2, <1>3 DEF Next, CommandStep

\* Whatever overlaps and fails, the files of hook_approval.go and hook_runtime.go and
\* the commands hold what the model says they may.
THEOREM TypeCorrect == Spec => []TypeOK
<1>1. GhTypes => TypeOK
    BY DEF GhTypes
<1> QED
    BY <1>1, TypesInit, TypesStep, PTL DEF Spec

-----------------------------------------------------------------------------
(* Consent.                                                                *)

\* Where there is anything of a snapshot there is consent, and there is consent to
\* what is about to become one.
ConsentInv ==
    /\ \A p \in Project, b \in Bundle : snapshot[p][b] # "none" => b \in consented[p]
    /\ \A s \in Process : ps[s].pc = "snapshot" => ps[s].content \in consented[ps[s].proj]

\* The snapshots of some bundles are gone, and the consent to them.
Forgets(s, removed) ==
    /\ \A p \in Project, b \in Bundle :
          snapshot'[p][b] # "none" => snapshot[p][b] # "none" /\ b \notin removed[p]
    /\ \A p \in Project : consented[p] \ Withdrawn(s, p, removed[p]) \subseteq consented'[p]

LEMMA ForgetsKeeps ==
    ASSUME ConsentInv, NEW s \in Process, GhTypes, NEW removed \in [Project -> SUBSET Bundle],
           Forgets(s, removed), Moved(s), ps'[s].pc # "snapshot"
    PROVE  ConsentInv'
<1>1. ASSUME NEW p \in Project, NEW b \in Bundle, snapshot'[p][b] # "none"
      PROVE  b \in consented'[p]
    BY <1>1 DEF Forgets, ConsentInv, Withdrawn
<1>2. ASSUME NEW q \in Process, ps'[q].pc = "snapshot"
      PROVE  ps'[q].content \in consented'[ps'[q].proj]
    <2>1. q # s /\ ps'[q] = ps[q] /\ ps[q].pc = "snapshot" /\ ps[q].proj \in Project
        BY <1>2 DEF Moved, GhTypes, TypeOK
    <2>2. ps[q].content \notin Withdrawn(s, ps[q].proj, removed[ps[q].proj])
        BY <2>1 DEF Withdrawn, At, P
    <2> QED
        BY <2>1, <2>2 DEF Forgets, ConsentInv
<1> QED
    BY <1>1, <1>2 DEF ConsentInv

LEMMA NothingForgotten ==
    ASSUME ConsentInv, NEW s \in Process, GhTypes, Moved(s), ps'[s].pc # "snapshot",
           UNCHANGED consented,
           \A p \in Project, b \in Bundle :
              snapshot'[p][b] # "none" => snapshot[p][b] # "none"
    PROVE  ConsentInv'
BY DEF ConsentInv, Moved, GhTypes, TypeOK

LEMMA CommandKeepsConsent ==
    ASSUME GhTypes, GhTypes', ConsentInv, NEW s \in Process, CommandStep(s)
    PROVE  ConsentInv'
<1> USE DEF At, P
<1>t. /\ ps[s].proj \in Project /\ Fit(ps[s])
      /\ consented \in [Project -> SUBSET Bundle]
      /\ snapshot \in [Project -> [Bundle -> {"none", "partial", "whole"}]]
    BY DEF GhTypes, TypeOK
<1>m. Moved(s)
    BY CommandMoves
<1>1. CASE Prompt(s)
    <2>1. snapshot' = snapshot /\ \A p \in Project : consented[p] \subseteq consented'[p]
        BY <1>1, <1>t DEF Prompt, onHost
    <2>2. ps'[s].pc = "snapshot" => ps[s].content \in consented'[ps[s].proj]
        <3>1. CASE Leave(s)
            BY <3>1, LeaveMoves, IdleFits
        <3>2. CASE consented' = [consented EXCEPT ![ps[s].proj] = @ \cup {ps[s].content}]
            BY <1>t, <3>2
        <3> QED
            BY <1>1, <3>1, <3>2 DEF Prompt
    <2> QED
        BY <1>m, <2>1, <2>2 DEF ConsentInv, Moved, GhTypes, TypeOK
<1>2. CASE ~Prompt(s)
    <2>1. ps'[s].pc # "snapshot"
        <3>1. CASE ps[s].pc # "prompt"
            BY <1>m, <3>1 DEF Moved
        <3>2. CASE ps[s].pc = "prompt"
            <4>1. Crash(s)
                BY <1>2, <3>2 DEF CommandStep, Begin, Dispatch, Execute,
                   Install, Inspect, WriteSnapshot, LoadApprovals, SaveApproval, RemoveStale,
                   Build, WriteDispatcher, WriteWrapper, SetHooksPath, AddBlock, DropManagedDir,
                   LoadForChain, SaveChain, Uninstall, UninstallInspect, UninstallLoad,
                   UnsetHooksPath, SkipRepository, RemoveBlock, RemoveDispatcher, RemoveWrapper, LoadForRemoval,
                   SaveRemoval, RemoveSnapshot, Rollback, RollbackLoad, RollbackNext,
                   RollbackFile, RollbackRoot
            <4> QED
                BY <4>1, LeaveMoves, IdleFits DEF Crash
        <3> QED
            BY <3>1, <3>2
    <2>2. CASE WriteSnapshot(s)
        <3>1. ps[s].content \in Bundle /\ ps[s].content \in consented[ps[s].proj]
            BY <1>t, <2>2 DEF WriteSnapshot, ConsentInv, Fit, Holding
        <3>2. consented' = consented
            BY <2>2 DEF WriteSnapshot
        <3>3. \A p \in Project, b \in Bundle :
                 snapshot'[p][b] # "none" =>
                    snapshot[p][b] # "none" \/ (p = ps[s].proj /\ b = ps[s].content)
            BY <1>t, <2>2, <3>1 DEF WriteSnapshot
        <3> QED
            BY <1>m, <2>1, <3>1, <3>2, <3>3 DEF ConsentInv, Moved, GhTypes, TypeOK
    <2>3. CASE RemoveStale(s)
        <3> DEFINE removed == [p \in Project |-> IF p = ps[s].proj THEN StaleBundles(s) ELSE {}]
        <3>1. removed \in [Project -> SUBSET Bundle]
            BY DEF StaleBundles
        <3>2. Forgets(s, removed)
            BY <1>t, <2>3 DEF RemoveStale, Forgets, Withdrawn
        <3> HIDE DEF removed
        <3> QED
            BY <1>m, <2>1, <3>1, <3>2, ForgetsKeeps
    <2>4. CASE RemoveSnapshot(s)
        <3> DEFINE removed == [p \in Project |-> IF p = ps[s].proj THEN RemovedBundles(s) ELSE {}]
        <3>1. removed \in [Project -> SUBSET Bundle]
            BY DEF RemovedBundles
        <3>2. Forgets(s, removed)
            BY <1>t, <2>4 DEF RemoveSnapshot, Forgets, Withdrawn
        <3> HIDE DEF removed
        <3> QED
            BY <1>m, <2>1, <3>1, <3>2, ForgetsKeeps
    <2>5. CASE RollbackRoot(s) /\ ~UNCHANGED <<snapshot, consented>>
        <3> DEFINE removed == [p \in Project |-> Bundle]
        <3>1. removed \in [Project -> SUBSET Bundle]
            OBVIOUS
        <3>2. Forgets(s, removed)
            BY <1>t, <2>5 DEF RollbackRoot, Forgets
        <3> HIDE DEF removed
        <3> QED
            BY <1>m, <2>1, <3>1, <3>2, ForgetsKeeps
    <2>6. CASE Crash(s)
        <3>1. \A p \in Project, b \in Bundle : snapshot'[p][b] # "none" => snapshot[p][b] # "none"
            <4>1. CASE UNCHANGED snapshot
                BY <4>1
            <4>2. CASE ~UNCHANGED snapshot
                <5>1. PICK b \in Bundle : /\ snapshot[ps[s].proj][b] # "none"
                                          /\ snapshot' = [snapshot EXCEPT ![ps[s].proj][b] = "partial"]
                    BY <2>6, <4>2 DEF Crash, StaleBundles, RemovedBundles
                <5> QED
                    BY <1>t, <5>1
            <4> QED
                BY <4>1, <4>2
        <3> QED
            BY <1>m, <2>1, <2>6, <3>1, NothingForgotten DEF Crash
    <2>7. CASE UNCHANGED <<snapshot, consented>>
        BY <1>m, <2>1, <2>7, NothingForgotten
    <2> QED
        BY <1>2, <2>2, <2>3, <2>4, <2>5, <2>6, <2>7
        DEF CommandStep, Begin, Dispatch, Execute, onHost,
            Install, Inspect, LoadApprovals, SaveApproval, Build, WriteDispatcher,
            WriteWrapper, SetHooksPath, AddBlock, DropManagedDir, LoadForChain, SaveChain,
            Uninstall, UninstallInspect, UninstallLoad, UnsetHooksPath, SkipRepository, RemoveBlock,
            RemoveDispatcher, RemoveWrapper, LoadForRemoval, SaveRemoval,
            Rollback, RollbackLoad, RollbackNext, RollbackFile
<1> QED
    BY <1>1, <1>2

LEMMA ConsentStep == GhTypes /\ GhTypes' /\ ConsentInv /\ [Next]_vars => ConsentInv'
<1> SUFFICES ASSUME GhTypes, GhTypes', ConsentInv, [Next]_vars PROVE ConsentInv'
    OBVIOUS
<1>1. CASE \E s \in Process : CommandStep(s)
    BY <1>1, CommandKeepsConsent
<1>2. CASE Agent
    <2>1. UNCHANGED <<snapshot, consented, ps>>
        BY <1>2 DEF Agent, AgentEditsBundle, AgentReroutes, AgentEditsOwner, onHost
    <2> QED
        BY <2>1 DEF ConsentInv
<1>3. CASE UNCHANGED vars
    BY <1>3 DEF vars, ConsentInv
<1> QED
    BY <1>1, <1>2, <1>3 DEF Next, CommandStep

\* runApprovedProjectHook: nothing is executed that the user has not agreed to or has
\* withdrawn, whatever commands overlap, tear their files or die, and whatever the
\* agent edits meanwhile.
THEOREM ApprovedContentRuns == Spec => ApprovedContentOnly
<1>1. Init => ConsentInv
    BY IdleFits DEF Init, ConsentInv
<1>2. GhTypes /\ ConsentInv /\ [Next]_vars =>
         [\A s \in Process : (~At(s, "exec") /\ ps'[s].pc = "exec") =>
             ps'[s].content \in consented[ps'[s].proj]]_vars
    <2> SUFFICES ASSUME GhTypes, ConsentInv, Next, NEW s \in Process,
                        ~At(s, "exec"), ps'[s].pc = "exec"
                 PROVE  ps'[s].content \in consented[ps'[s].proj]
        BY DEF vars
    <2>1. CommandStep(s)
        <3>1. CASE Agent
            BY <3>1 DEF Agent, AgentEditsBundle, AgentReroutes, AgentEditsOwner, At
        <3>2. ASSUME NEW r \in Process, CommandStep(r), r # s PROVE FALSE
            BY <3>2, CommandMoves DEF Moved, At
        <3> QED
            BY <3>1, <3>2 DEF Next, CommandStep
    <2>2. PICK p \in Project, h \in Hook : Dispatch(s, p, h)
        <3>1. ps[s].pc = "idle"
            BY <2>1, CommandMoves DEF Moved, Follows, At
        <3>2. ASSUME NEW p \in Project, NEW mode \in Modes, Begin(s, p, mode) PROVE FALSE
            <4>1. ps'[s].pc = First(mode)
                BY <3>2, IdleIsCommand DEF Begin, GhTypes, TypeOK, Command
            <4> QED
                BY <4>1 DEF First
        <3>3. (\E p \in Project, mode \in Modes : Begin(s, p, mode)) \/
              \E p \in Project, h \in Hook : Dispatch(s, p, h)
            BY <2>1, <3>1 DEF CommandStep, At, Execute, Crash,
               Install, Inspect, Prompt, WriteSnapshot, LoadApprovals, SaveApproval, RemoveStale,
               Build, WriteDispatcher, WriteWrapper, SetHooksPath, AddBlock, DropManagedDir,
               LoadForChain, SaveChain, Uninstall, UninstallInspect, UninstallLoad,
               UnsetHooksPath, SkipRepository, RemoveBlock, RemoveDispatcher, RemoveWrapper, LoadForRemoval,
               SaveRemoval, RemoveSnapshot, Rollback, RollbackLoad, RollbackNext,
               RollbackFile, RollbackRoot
        <3> QED
            BY <3>2, <3>3
    <2>3. ps'[s].content = approvals[p].bundle /\ ps'[s].proj = p
        BY <2>2, IdleIsCommand DEF Dispatch, GhTypes, TypeOK, Command
    <2>4. approvals[p].bundle \in Bundle /\ snapshot[p][approvals[p].bundle] = "whole"
        BY <2>2 DEF Dispatch, Valid, Approved
    <2> QED
        BY <2>3, <2>4 DEF ConsentInv
<1> QED
    BY <1>1, <1>2, TypesInit, TypesStep, ConsentStep, PTL DEF Spec, ApprovedContentOnly

-----------------------------------------------------------------------------
(* Commands that take their turns.                                         *)

Alone == \A q, r \in Process : ps[q].pc # "idle" /\ ps[r].pc # "idle" => q = r

\* The others are idle when a command takes a step, and stay so.
LEMMA TakesTurn ==
    ASSUME GhTypes, Alone, ~Overlap, NEW s \in Process, CommandStep(s)
    PROVE  \A q \in Process : q # s => ps[q].pc = "idle" /\ ps'[q] = ps[q]
<1>1. CASE ps[s].pc = "idle"
    <2>1. \A q \in Process : ps[q].pc = "idle"
        BY <1>1 DEF CommandStep, Begin, Dispatch, At, Execute, Crash,
           Install, Inspect, Prompt, WriteSnapshot, LoadApprovals, SaveApproval, RemoveStale,
           Build, WriteDispatcher, WriteWrapper, SetHooksPath, AddBlock, DropManagedDir,
           LoadForChain, SaveChain, Uninstall, UninstallInspect, UninstallLoad,
           UnsetHooksPath, SkipRepository, RemoveBlock, RemoveDispatcher, RemoveWrapper, LoadForRemoval,
           SaveRemoval, RemoveSnapshot, Rollback, RollbackLoad, RollbackNext,
           RollbackFile, RollbackRoot
    <2> QED
        BY <2>1, CommandMoves DEF Moved
<1>2. CASE ps[s].pc # "idle"
    BY <1>2, CommandMoves DEF Moved, Alone
<1> QED
    BY <1>1, <1>2

LEMMA AloneInit == Init => Alone
BY IdleFits DEF Init, Alone

LEMMA AloneStep == ~Overlap /\ GhTypes /\ Alone /\ [Next]_vars => Alone'
<1> SUFFICES ASSUME ~Overlap, GhTypes, Alone, [Next]_vars PROVE Alone'
    OBVIOUS
<1>1. CASE \E s \in Process : CommandStep(s)
    BY <1>1, TakesTurn DEF Alone
<1>2. CASE Agent \/ UNCHANGED vars
    BY <1>2 DEF Alone, vars, Agent, AgentEditsBundle, AgentReroutes, AgentEditsOwner
<1> QED
    BY <1>1, <1>2 DEF Next, CommandStep

\* Where in its course a command is, when it is the only one: what it has read is still
\* so, what it has written is there.
RecordSteps == {"aLoad", "aSave", "stale", "cSave", "uaSave", "uSnap", "rbRoot"}

InCourse(s) ==
    /\ ps[s].pc \in {"aLoad", "aSave"} => snapshot[ps[s].proj][ps[s].content] = "whole"
    /\ ps[s].pc \in {"aSave", "cSave", "uaSave"} => ps[s].loaded = approvals
    /\ ps[s].pc = "stale" => approvals[ps[s].proj] # NoRecord
                             /\ approvals[ps[s].proj].bundle = ps[s].content
    /\ ps[s].pc = "uSnap" => approvals[ps[s].proj] = NoRecord
    /\ ps[s].pc = "rbRoot" => approvals = NoApprovals

RecordInv ==
    /\ Alone
    /\ RecordedSnapshotWhole
    /\ \A p \in Project, b \in Bundle : snapshot[p][b] # "partial"
    /\ \A s \in Process : InCourse(s)

\* The steps that write the approvals or a snapshot, or read the approvals to write them.
Records(s) ==
    \/ WriteSnapshot(s) \/ LoadApprovals(s) \/ SaveApproval(s) \/ RemoveStale(s)
    \/ LoadForChain(s) \/ SaveChain(s) \/ LoadForRemoval(s) \/ SaveRemoval(s)
    \/ RemoveSnapshot(s) \/ RollbackFile(s) \/ RollbackRoot(s)

LEMMA RecordsOrNot ==
    ASSUME GhTypes, NEW s \in Process, CommandStep(s)
    PROVE  \/ Records(s) \/ Crash(s)
           \/ UNCHANGED <<approvals, snapshot>> /\ ps'[s].pc \notin RecordSteps
<1> SUFFICES ASSUME ~Records(s), ~Crash(s)
             PROVE  UNCHANGED <<approvals, snapshot>> /\ ps'[s].pc \notin RecordSteps
    OBVIOUS
<1>1. UNCHANGED <<approvals, snapshot>>
    BY DEF Records, CommandStep, Begin, Dispatch, Execute, onHost,
       Install, Inspect, Prompt, Build, WriteDispatcher, WriteWrapper, SetHooksPath, AddBlock,
       DropManagedDir, Uninstall, UninstallInspect, UninstallLoad, UnsetHooksPath, SkipRepository, RemoveBlock,
       RemoveDispatcher, RemoveWrapper, Rollback, RollbackLoad, RollbackNext
<1>2. ps[s].pc \notin {"snapshot", "aLoad", "aSave", "cLoad", "uaLoad", "uaSave", "rbFile"}
    BY DEF Records, CommandStep, Begin, Dispatch, Execute, At,
       Install, Inspect, Prompt, Build, WriteDispatcher, WriteWrapper, SetHooksPath, AddBlock,
       DropManagedDir, Uninstall, UninstallInspect, UninstallLoad, UnsetHooksPath, SkipRepository, RemoveBlock,
       RemoveDispatcher, RemoveWrapper, Rollback, RollbackLoad, RollbackNext
<1> QED
    BY <1>1, <1>2, CommandMoves DEF Moved, Follows, RecordSteps

LEMMA RecordsKeep ==
    ASSUME GhTypes, GhTypes', RecordInv, ~Overlap,
           "partialRemoval" \notin Faults, "stuckState" \notin Faults,
           NEW s \in Process, CommandStep(s)
    PROVE  /\ RecordedSnapshotWhole'
           /\ \A p \in Project, b \in Bundle : snapshot'[p][b] # "partial"
           /\ InCourse(s)'
<1> USE DEF At, P
<1> DEFINE p0 == ps[s].proj
<1> DEFINE NoPartial == \A p \in Project, b \in Bundle : snapshot[p][b] # "partial"
<1> DEFINE Goal == RecordedSnapshotWhole' /\ NoPartial' /\ InCourse(s)'
<1>t. /\ ps[s].proj \in Project /\ Fit(ps[s])
      /\ approvals \in [Project -> Record \cup {NoRecord}]
      /\ snapshot \in [Project -> [Bundle -> {"none", "partial", "whole"}]]
      /\ \A p \in Project : approvals[p] # NoRecord => approvals[p].bundle \in Bundle
    BY DEF GhTypes, TypeOK, Record
<1>i. RecordedSnapshotWhole /\ NoPartial /\ InCourse(s)
    BY DEF RecordInv
<1>1. CASE UNCHANGED <<approvals, snapshot>> /\ ps'[s].pc \notin RecordSteps
    BY <1>1, <1>i DEF RecordedSnapshotWhole, InCourse, RecordSteps
<1>2. CASE Crash(s)
    <2>1. ps'[s].pc = "idle"
        BY <1>2, LeaveMoves, IdleFits DEF Crash
    <2>2. snapshot' = snapshot /\ approvals' \in {approvals, NoApprovals}
        BY <1>2 DEF Crash, May
    <2> QED
        BY <1>i, <2>1, <2>2 DEF InCourse, RecordedSnapshotWhole, NoApprovals
<1>3. CASE WriteSnapshot(s)
    <2>1. ps[s].content \in Bundle /\ approvals' = approvals
        BY <1>3, <1>t DEF WriteSnapshot, Fit, Holding
    <2>2. snapshot' = [snapshot EXCEPT ![ps[s].proj][ps[s].content] = "whole"]
        <3>1. snapshot' = [snapshot EXCEPT ![ps[s].proj][ps[s].content] =
                              IF snapshot[ps[s].proj][ps[s].content] = "none" THEN "whole"
                              ELSE snapshot[ps[s].proj][ps[s].content]]
            BY <1>3, <1>t, <2>1 DEF WriteSnapshot
        <3>2. snapshot[ps[s].proj][ps[s].content] \in {"none", "whole"}
            BY <1>t, <1>i, <2>1
        <3>3. CASE snapshot[ps[s].proj][ps[s].content] = "none"
            BY <3>1, <3>3
        <3>4. CASE snapshot[ps[s].proj][ps[s].content] = "whole"
            BY <3>1, <3>4
        <3> QED
            BY <3>2, <3>3, <3>4
    <2>3. ps'[s].pc = "aLoad" /\ ps'[s].proj = ps[s].proj /\ ps'[s].content = ps[s].content
        BY <1>3, GoMoves DEF WriteSnapshot, Go, Steps
    <2>4. \A p \in Project, b \in Bundle :
             /\ snapshot'[p][b] \in {snapshot[p][b], "whole"}
             /\ snapshot'[ps[s].proj][ps[s].content] = "whole"
        BY <1>t, <2>1, <2>2
    <2> QED
        BY <1>t, <1>i, <2>1, <2>3, <2>4 DEF InCourse, RecordedSnapshotWhole
<1>4. CASE LoadApprovals(s)
    <2>1. ps[s].pc = "aLoad" /\ UNCHANGED <<approvals, snapshot>> /\ Rereads(s, "aSave", approvals)
        BY <1>4 DEF LoadApprovals, onHost, Rereads
    <2>2. /\ ps'[s].pc = "aSave" /\ ps'[s].proj = ps[s].proj /\ ps'[s].content = ps[s].content
          /\ ps'[s].loaded = approvals
        BY <1>t, <2>1, LoadedMoves DEF Steps
    <2> QED
        BY <1>i, <2>1, <2>2 DEF InCourse, RecordedSnapshotWhole
<1>5. CASE LoadForChain(s) \/ LoadForRemoval(s)
    <2>1. PICK step \in {"cSave", "uaSave"} : Rereads(s, step, approvals)
        BY <1>5 DEF LoadForChain, LoadForRemoval, Rereads
    <2>2. ps'[s].pc = step /\ ps'[s].loaded = approvals
        BY <1>t, <2>1, LoadedMoves DEF Steps
    <2>3. UNCHANGED <<approvals, snapshot>>
        BY <1>5 DEF LoadForChain, LoadForRemoval, onHost
    <2> QED
        BY <1>i, <2>2, <2>3 DEF InCourse, RecordedSnapshotWhole
<1>6. CASE SaveApproval(s)
    <2>1. ps[s].pc = "aSave" /\ ps[s].loaded = approvals /\ snapshot' = snapshot
        BY <1>6, <1>i DEF SaveApproval, InCourse
    <2>2. /\ ps[s].content \in Bundle
          /\ approvals' = [approvals EXCEPT ![ps[s].proj] =
                              [bundle |-> ps[s].content, chain |-> NoChain]]
        BY <1>6, <1>t, <2>1 DEF SaveApproval, Fit, Holding
    <2>3. ps'[s].pc = "stale" /\ ps'[s].proj = ps[s].proj /\ ps'[s].content = ps[s].content
        BY <1>6, GoMoves DEF SaveApproval, Go, Steps
    <2>4. /\ approvals'[ps[s].proj] = [bundle |-> ps[s].content, chain |-> NoChain]
          /\ \A p \in Project : p # ps[s].proj => approvals'[p] = approvals[p]
        BY <1>t, <2>2
    <2>5. approvals'[ps[s].proj] # NoRecord /\ approvals'[ps[s].proj].bundle = ps[s].content
        BY <2>2, <2>4, GitHooksAssumption
    <2> QED
        BY <1>t, <1>i, <2>1, <2>3, <2>4, <2>5 DEF InCourse, RecordedSnapshotWhole
<1>7. CASE RemoveStale(s)
    <2>1. ps[s].pc = "stale" /\ approvals' = approvals
        BY <1>7 DEF RemoveStale
    <2>2. ps'[s].pc = "build"
        BY <1>7, GoMoves DEF RemoveStale, Go, Steps
    <2>3. ps[s].content \notin StaleBundles(s)
        BY DEF StaleBundles
    <2>4. \A p \in Project, b \in Bundle :
             /\ snapshot'[p][b] \in {"none", snapshot[p][b]}
             /\ p # ps[s].proj \/ b = ps[s].content => snapshot'[p][b] = snapshot[p][b]
        BY <1>7, <1>t, <2>3 DEF RemoveStale
    <2> QED
        BY <1>t, <1>i, <2>1, <2>2, <2>4, SMTT(40) DEF InCourse, RecordedSnapshotWhole
<1>8. CASE SaveChain(s)
    <2>1. ps[s].loaded = approvals /\ snapshot' = snapshot
        BY <1>8, <1>i DEF SaveChain, InCourse
    <2>2. ps'[s].pc = "idle"
        BY <1>8, LeaveMoves, IdleFits DEF SaveChain
    <2>3. \A p \in Project : /\ approvals'[p] # NoRecord => approvals[p] # NoRecord
                             /\ approvals'[p] # NoRecord => approvals'[p].bundle = approvals[p].bundle
        <3>1. CASE UNCHANGED approvals
            BY <3>1
        <3>2. CASE ~UNCHANGED approvals
            <4> DEFINE c == IF ps[s].mode = "chain" THEN ps[s].chain ELSE NoChain
            <4>1. approvals[ps[s].proj] # NoRecord
                  /\ approvals' = [approvals EXCEPT ![ps[s].proj].chain = c]
                BY <1>8, <2>1, <3>2 DEF SaveChain
            <4> HIDE DEF c
            <4>2. approvals[ps[s].proj] \in Record
                BY <1>t, <4>1
            <4>3. [approvals[ps[s].proj] EXCEPT !.chain = c].bundle = approvals[ps[s].proj].bundle
                BY <4>2 DEF Record
            <4>4. /\ approvals'[ps[s].proj].bundle = approvals[ps[s].proj].bundle
                  /\ \A p \in Project : p # ps[s].proj => approvals'[p] = approvals[p]
                BY <1>t, <4>1, <4>3
            <4> QED
                BY <4>1, <4>4
        <3> QED
            BY <3>1, <3>2
    <2> QED
        BY <1>i, <2>1, <2>2, <2>3 DEF InCourse, RecordedSnapshotWhole
<1>9. CASE SaveRemoval(s)
    <2>1. ps[s].loaded = approvals /\ snapshot' = snapshot
        BY <1>9, <1>i DEF SaveRemoval, InCourse
    <2>2. ps'[s].pc = "uSnap" /\ ps'[s].proj = ps[s].proj
        BY <1>9, GoMoves DEF SaveRemoval, Go, Steps
    <2>3. /\ approvals'[ps[s].proj] = NoRecord
          /\ \A p \in Project : p # ps[s].proj => approvals'[p] = approvals[p]
        BY <1>9, <1>t, <2>1 DEF SaveRemoval
    <2> QED
        BY <1>i, <2>1, <2>2, <2>3 DEF InCourse, RecordedSnapshotWhole
<1>10. CASE RemoveSnapshot(s)
    <2>1. approvals' = approvals /\ approvals[ps[s].proj] = NoRecord
        BY <1>10, <1>i DEF RemoveSnapshot, InCourse
    <2>2. ps'[s].pc \in {"idle", "rbNext"}
        BY <1>10, GoMoves, LeaveMoves, IdleFits DEF RemoveSnapshot, Finish, Go, Steps
    <2>3. \A p \in Project, b \in Bundle :
             /\ snapshot'[p][b] \in {"none", snapshot[p][b]}
             /\ p # ps[s].proj => snapshot'[p][b] = snapshot[p][b]
        BY <1>10, <1>t DEF RemoveSnapshot
    <2> QED
        BY <1>t, <1>i, <2>1, <2>2, <2>3 DEF InCourse, RecordedSnapshotWhole
<1>11. CASE RollbackFile(s)
    <2>1. ps'[s].pc = "rbRoot" /\ approvals' = NoApprovals /\ snapshot' = snapshot
        BY <1>11, GoMoves DEF RollbackFile, Go, Steps, May
    <2> QED
        BY <1>i, <2>1 DEF InCourse, RecordedSnapshotWhole, NoApprovals
<1>12. CASE RollbackRoot(s)
    <2>1. /\ ps'[s].pc = "idle" /\ approvals' = NoApprovals
          /\ \A p \in Project, b \in Bundle : snapshot'[p][b] = "none"
        BY <1>12, <1>i, LeaveMoves, IdleFits DEF RollbackRoot, InCourse, May
    <2> QED
        BY <2>1 DEF InCourse, RecordedSnapshotWhole, NoApprovals
<1> QED
    BY <1>1, <1>2, <1>3, <1>4, <1>5, <1>6, <1>7, <1>8, <1>9, <1>10, <1>11, <1>12, RecordsOrNot
    DEF Records

LEMMA RecordStep ==
    ASSUME ~Overlap, "partialRemoval" \notin Faults, "stuckState" \notin Faults
    PROVE  GhTypes /\ GhTypes' /\ RecordInv /\ [Next]_vars => RecordInv'
<1> SUFFICES ASSUME GhTypes, GhTypes', RecordInv, [Next]_vars PROVE RecordInv'
    OBVIOUS
<1>a. Alone'
    BY AloneStep DEF RecordInv
<1>1. CASE \E s \in Process : CommandStep(s)
    <2>1. PICK s \in Process : CommandStep(s)
        BY <1>1
    <2>2. \A q \in Process : q # s => ps[q].pc = "idle" /\ ps'[q] = ps[q]
        BY <2>1, TakesTurn DEF RecordInv
    <2>3. \A q \in Process : q # s => InCourse(q)'
        BY <2>2 DEF InCourse
    <2> QED
        BY <1>a, <2>1, <2>3, RecordsKeep DEF RecordInv
<1>2. CASE Agent \/ UNCHANGED vars
    <2>1. UNCHANGED <<approvals, snapshot, ps>>
        BY <1>2 DEF vars, onHost, Agent, AgentEditsBundle, AgentReroutes, AgentEditsOwner
    <2> QED
        BY <1>a, <2>1 DEF RecordInv, RecordedSnapshotWhole, InCourse
<1> QED
    BY <1>1, <1>2 DEF Next, CommandStep

LEMMA RecordInit == Init => RecordInv
<1> SUFFICES ASSUME Init PROVE RecordInv
    OBVIOUS
<1>1. Alone /\ \A s \in Process : ps[s].pc = "idle"
    BY AloneInit, IdleFits DEF Init
<1>2. \A s \in Process : InCourse(s)
    BY <1>1 DEF InCourse
<1>3. /\ \A p \in Project : approvals[p] = NoRecord
      /\ \A p \in Project, b \in Bundle : snapshot[p][b] = "none"
    BY DEF Init, NoApprovals
<1> QED
    BY <1>1, <1>2, <1>3 DEF RecordInv, RecordedSnapshotWhole

\* hook_approval.go: every approval on record has its complete snapshot, for commands
\* that take their turns, even where they die half way and leave a torn approvals file.
\* A removal that stops half way through a snapshot is left out: the next approval of that
\* bundle reuses what is there.  So is a rollback that cannot remove the approvals file: it
\* goes on to remove the snapshots.
THEOREM RecordsHaveSnapshots ==
    ASSUME ~Overlap, "partialRemoval" \notin Faults, "stuckState" \notin Faults
    PROVE  Spec => []RecordedSnapshotWhole
<1>1. RecordInv => RecordedSnapshotWhole
    BY DEF RecordInv
<1>2. RecordInv /\ GhTypes /\ GhTypes' /\ [Next]_vars => RecordInv'
    BY RecordStep
<1> QED
    BY <1>1, <1>2, RecordInit, TypesInit, TypesStep, PTL DEF Spec

-----------------------------------------------------------------------------
(* An install that ends well.                                              *)

\* A dispatcher that is on the list of what could not be removed stays there until
\* it is written or removed.
LEMMA KeptStays ==
    ASSUME GhTypes, NEW s \in Process, CommandStep(s),
           ~WriteDispatcher(s), ~RemoveDispatcher(s), ~DropManagedDir(s),
           NEW p \in Project, NEW h \in Hook, NEW place \in Places,
           <<place, h>> \in kept[p]
    PROVE  <<place, h>> \in kept'[p]
<1>t. kept \in [Project -> SUBSET Trace] /\ P(s) \in Project
    BY DEF GhTypes, TypeOK, P
<1>1. CASE kept' = [kept EXCEPT ![P(s)] = @ \ {<<"wrapper">>}]
    BY <1>1, <1>t
<1>2. CASE kept' = [kept EXCEPT ![P(s)] = @ \ {<<"path">>}]
    BY <1>2, <1>t
<1>3. CASE kept' = [kept EXCEPT ![P(s)] = @ \cup {<<"wrapper">>}]
    BY <1>3, <1>t
<1>4. CASE SkipRepository(s)
    <2>1. PICK left : kept' = [kept EXCEPT ![P(s)] = @ \cup left]
        BY <1>4 DEF SkipRepository
    <2> QED
        BY <2>1, <1>t
<1>5. CASE RollbackRoot(s)
    BY <1>5, <1>t DEF RollbackRoot
<1>6. CASE kept' = kept
    BY <1>6
<1>7. CASE WriteWrapper(s) \/ SetHooksPath(s) \/ UnsetHooksPath(s) \/ RemoveWrapper(s)
    BY <1>1, <1>2, <1>3, <1>7, Zenon
    DEF WriteWrapper, SetHooksPath, UnsetHooksPath, RemoveWrapper
<1> QED
    BY <1>4, <1>5, <1>6, <1>7, ZenonT(40) DEF CommandStep, Begin, Dispatch, Execute, Crash, inRepo,
       Install, Inspect, Prompt, WriteSnapshot, LoadApprovals, SaveApproval, RemoveStale,
       Build, AddBlock, LoadForChain, SaveChain,
       Uninstall, UninstallInspect, UninstallLoad, RemoveBlock, LoadForRemoval, SaveRemoval,
       RemoveSnapshot, Rollback, RollbackLoad, RollbackNext, RollbackFile

\* A dispatcher in the managed directory has its refusing one in .git/hooks, or is one
\* that an uninstall could not remove.
Paired ==
    \A p \in Project, h \in Hook :
       h \in managed[p] => fallback[p][h] # "none" \/ <<"managed", h>> \in kept[p]

Installing == {"dispatchers", "path", "blocks", "cLoad", "cSave"}

\* What an install has read is still so, and what it is through with is in place.
InstallCourse(s) ==
    LET p == ps[s].proj
        c == ps[s].content
        hooks == HooksOf[c]
        through == IF ps[s].pc = "dispatchers" THEN hooks \ ps[s].todo ELSE hooks
        composed == IF ps[s].pc = "blocks" THEN hooks \ ps[s].todo ELSE hooks
        chained == ps[s].mode = "chain"
    IN  ps[s].pc \in Installing =>
          /\ repo[p] = c /\ c \in Bundle
          /\ approvals[p] # NoRecord /\ approvals[p].bundle = c
          /\ ps[s].pc \in {"dispatchers", "blocks"} => ps[s].todo \subseteq hooks
          /\ ps[s].pc = "path" => ~chained
          /\ ps[s].pc = "blocks" => chained
          /\ \A h \in Hook \ hooks : fallback[p][h] = "none"
          /\ \A h \in through : fallback[p][h] = "hazmat"
          /\ chained => hooksPath[p] = "owner"
          /\ ~chained => through \subseteq managed[p]
          /\ ~chained /\ ps[s].pc \in {"cLoad", "cSave"} => hooksPath[p] = "managed"
          /\ chained /\ ps[s].pc \in Composing =>
                /\ {x[1] : x \in ps[s].chain} = composed
                /\ \A x \in ps[s].chain :
                      owner[p][x[1]] = [body |-> x[2], mark |-> "block"]

InstallInv == Alone /\ RecordInv /\ Paired /\ \A s \in Process : InstallCourse(s)

LEMMA PairedStep == GhTypes /\ Paired /\ [Next]_vars => Paired'
<1> SUFFICES ASSUME GhTypes, Paired, [Next]_vars PROVE Paired'
    OBVIOUS
<1>t. /\ managed \in [Project -> SUBSET Hook]
      /\ fallback \in [Project -> [Hook -> {"none", "hazmat", "user"}]]
      /\ kept \in [Project -> SUBSET Trace]
    BY DEF GhTypes, TypeOK
<1>1. ASSUME NEW s \in Process, WriteDispatcher(s) PROVE Paired'
    <2>1. PICK h \in ps[s].todo :
             /\ fallback' = [fallback EXCEPT ![P(s)][h] = "hazmat"]
             /\ managed' = IF ps[s].mode = "chain" THEN managed
                           ELSE [managed EXCEPT ![P(s)] = @ \cup {h}]
             /\ kept' = [kept EXCEPT ![P(s)] = @ \ Written(ps[s].mode, h)]
        BY <1>1 DEF WriteDispatcher
    <2>2. h \in Hook /\ P(s) \in Project
        BY DEF GhTypes, TypeOK, P
    <2>3. ASSUME NEW p \in Project, NEW g \in Hook
          PROVE  /\ g \in managed'[p] => g \in managed[p] \/ (p = P(s) /\ g = h)
                 /\ fallback'[p][g] = IF p = P(s) /\ g = h THEN "hazmat" ELSE fallback[p][g]
        BY <1>t, <2>1, <2>2
    <2>4. ASSUME NEW p \in Project, NEW g \in Hook, ~(p = P(s) /\ g = h),
                 <<"managed", g>> \in kept[p]
          PROVE  <<"managed", g>> \in kept'[p]
        BY <1>t, <2>1, <2>2, <2>4 DEF Written, Places
    <2> QED
        BY <2>3, <2>4 DEF Paired
<1>2. ASSUME NEW s \in Process, DropManagedDir(s) PROVE Paired'
    <2>1. /\ managed' = [managed EXCEPT ![P(s)] = {}] /\ fallback' = fallback
          /\ kept' = [kept EXCEPT ![P(s)] = @ \ ({"managed"} \X Hook)]
        BY <1>2 DEF DropManagedDir
    <2>2. ASSUME NEW p \in Project, NEW g \in Hook, g \in managed'[p]
          PROVE  g \in managed[p] /\ kept'[p] = kept[p]
        BY <1>t, <2>1, <2>2
    <2> QED
        BY <2>1, <2>2 DEF Paired
<1>3. ASSUME NEW s \in Process, RemoveDispatcher(s) PROVE Paired'
    <2>p. P(s) \in Project
        BY DEF GhTypes, TypeOK, P
    <2>1. ASSUME NEW h \in ps[s].todo, NEW stuck \in SUBSET Places,
                 managed' = IF "managed" \in stuck THEN managed
                            ELSE [managed EXCEPT ![P(s)] = @ \ {h}],
                 fallback' = IF "fallback" \in stuck THEN fallback
                             ELSE [fallback EXCEPT ![P(s)][h] = "none"],
                 kept' = [kept EXCEPT ![P(s)] =
                            (@ \ ((Places \ stuck) \X {h}))
                            \cup ((stuck \X {h}) \cap InRepository(P(s)))]
          PROVE  Paired'
        <3>2. h \in Hook
            BY DEF GhTypes, TypeOK
        <3>3. ASSUME NEW p \in Project, NEW g \in Hook, ~(p = P(s) /\ g = h)
              PROVE  /\ g \in managed'[p] => g \in managed[p]
                     /\ fallback'[p][g] = fallback[p][g]
                     /\ <<"managed", g>> \in kept[p] => <<"managed", g>> \in kept'[p]
            <4>1. (g \in managed'[p] => g \in managed[p]) /\ fallback'[p][g] = fallback[p][g]
                BY <1>t, <2>1, <2>p, <3>2, <3>3
            <4>2. PICK more : kept' = [kept EXCEPT ![P(s)] = (@ \ ((Places \ stuck) \X {h})) \cup more]
                BY <2>1
            <4>3. <<"managed", g>> \in kept[p] => <<"managed", g>> \in kept'[p]
                BY <1>t, <2>p, <3>2, <3>3, <4>2
            <4> QED
                BY <4>1, <4>3
        <3>4. h \in managed'[P(s)] => <<"managed", h>> \in kept'[P(s)]
            <4> SUFFICES ASSUME h \in managed'[P(s)] PROVE <<"managed", h>> \in kept'[P(s)]
                OBVIOUS
            <4>1. "managed" \in stuck /\ h \in managed[P(s)]
                BY <1>t, <2>1, <2>p, <3>2
            <4>2. <<"managed", h>> \in (stuck \X {h}) \cap InRepository(P(s))
                BY <4>1 DEF InRepository
            <4> QED
                BY <1>t, <2>1, <2>p, <4>2
        <3> QED
            BY <3>3, <3>4 DEF Paired
    <2>2. ASSUME NEW stuck \in SUBSET managed[P(s)],
                 managed' = [managed EXCEPT ![P(s)] = stuck],
                 kept' = [kept EXCEPT ![P(s)] =
                            (@ \ ({"managed"} \X Hook)) \cup ({"managed"} \X stuck)],
                 UNCHANGED fallback
          PROVE  Paired'
        <3>1. ASSUME NEW p \in Project, NEW g \in Hook, g \in managed'[p]
              PROVE  IF p = P(s) THEN <<"managed", g>> \in kept'[p]
                     ELSE g \in managed[p] /\ kept'[p] = kept[p]
            BY <1>t, <2>2, <2>p, <3>1
        <3> QED
            BY <2>2, <3>1 DEF Paired
    <2> QED
        BY <1>3, <2>1, <2>2 DEF RemoveDispatcher
<1>4. CASE UNCHANGED <<managed, fallback, kept>>
    BY <1>4 DEF Paired
<1>5. ASSUME NEW s \in Process, CommandStep(s),
             ~WriteDispatcher(s), ~RemoveDispatcher(s), ~DropManagedDir(s)
      PROVE  Paired'
    <2>1. UNCHANGED <<managed, fallback>>
        BY <1>5, ZenonT(40) DEF inRepo, CommandStep, Begin, Dispatch, Execute, Crash,
           Install, Inspect, Prompt, WriteSnapshot, LoadApprovals, SaveApproval, RemoveStale,
           Build, WriteWrapper, SetHooksPath, AddBlock, LoadForChain, SaveChain,
           Uninstall, UninstallInspect, UninstallLoad, UnsetHooksPath, SkipRepository,
           RemoveBlock, RemoveWrapper, LoadForRemoval, SaveRemoval, RemoveSnapshot,
           Rollback, RollbackLoad, RollbackNext, RollbackFile, RollbackRoot
    <2>2. \A p \in Project, h \in Hook :
             <<"managed", h>> \in kept[p] => <<"managed", h>> \in kept'[p]
        BY <1>5, KeptStays DEF Places
    <2> QED
        BY <2>1, <2>2 DEF Paired
<1>6. CASE Agent
    BY <1>4, <1>6 DEF Agent, AgentEditsBundle, AgentReroutes, AgentEditsOwner
<1> QED
    BY <1>1, <1>2, <1>3, <1>4, <1>5, <1>6 DEF vars, Next, CommandStep

\* The steps that are, or begin, the course of an install.
LEMMA InstallsOrNot ==
    ASSUME GhTypes, NEW s \in Process, CommandStep(s), ps'[s].pc \in Installing
    PROVE  \/ Build(s) \/ WriteDispatcher(s) \/ WriteWrapper(s) \/ SetHooksPath(s)
           \/ AddBlock(s) \/ DropManagedDir(s) \/ LoadForChain(s)
<1>1. ps[s].pc \in {"build", "dispatchers", "path", "blocks", "cLoad"}
    BY CommandMoves DEF Moved, Follows, Installing
<1>2. ~Crash(s)
    BY LeaveMoves, IdleFits DEF Crash, Installing
<1> QED
    BY <1>1, <1>2 DEF CommandStep, Begin, Dispatch, Execute, At,
       Install, Inspect, Prompt, WriteSnapshot, LoadApprovals, SaveApproval, RemoveStale,
       SaveChain, Uninstall, UninstallInspect, UninstallLoad, UnsetHooksPath, SkipRepository, RemoveBlock,
       RemoveDispatcher, RemoveWrapper, LoadForRemoval, SaveRemoval, RemoveSnapshot,
       Rollback, RollbackLoad, RollbackNext, RollbackFile, RollbackRoot

LEMMA InstallKeepsCourse ==
    ASSUME GhTypes, GhTypes', Paired, NEW s \in Process, InstallCourse(s), CommandStep(s)
    PROVE  InstallCourse(s)'
<1> SUFFICES ASSUME ps'[s].pc \in Installing PROVE InstallCourse(s)'
    BY DEF InstallCourse
<1> USE DEF At, P, Installing, Composing
<1>t. /\ ps[s].proj \in Project /\ Fit(ps[s]) /\ ps[s].todo \in SUBSET Hook
      /\ HooksOf \in [Bundle -> SUBSET Hook]
      /\ managed \in [Project -> SUBSET Hook]
      /\ fallback \in [Project -> [Hook -> {"none", "hazmat", "user"}]]
      /\ hooksPath \in [Project -> {"unset", "managed", "owner"}]
      /\ owner \in [Project -> [Hook -> OwnerFile]]
      /\ ps[s].chain \in SUBSET (Hook \X Body)
    BY GitHooksAssumption DEF GhTypes, TypeOK, Chain
<1>1. CASE Build(s)
    <2>1. /\ InstallAllowed(P(s), ps[s].mode)
          /\ Builds(s, "dispatchers", repo[P(s)], HooksOf[repo[P(s)]])
          /\ UNCHANGED <<repo, hooksPath, managed, fallback, owner, approvals>>
        <3>1. ~Leave(s)
            BY LeaveMoves, IdleFits
        <3> QED
            BY <1>1, <3>1 DEF Build, Builds, inRepo, onHost
    <2>2. repo[P(s)] \in Bundle /\ Approved(P(s)) /\ NoUnknownEntry(P(s))
          /\ PathAllows(P(s), ps[s].mode)
        BY <2>1 DEF InstallAllowed
    <2>3. /\ ps'[s].pc = "dispatchers" /\ ps'[s].content = repo[ps[s].proj]
          /\ ps'[s].todo = HooksOf[repo[ps[s].proj]] /\ ps'[s].proj = ps[s].proj
          /\ ps'[s].mode = ps[s].mode
        <3>1. "dispatchers" \in Steps
            BY DEF Steps
        <3>2. repo[P(s)] \in Bundle \cup {NoBundle} /\ HooksOf[repo[P(s)]] \in SUBSET Hook
            BY <1>t, <2>2
        <3>3. Builds(s, "dispatchers", repo[P(s)], HooksOf[repo[P(s)]])
            BY <2>1
        <3> DEFINE b == repo[P(s)]
                   hooks == HooksOf[b]
        <3> HIDE DEF b, hooks
        <3>4. /\ ps'[s].pc = "dispatchers" /\ ps'[s].content = b /\ ps'[s].todo = hooks
              /\ ps'[s].mode = ps[s].mode /\ ps'[s].proj = ps[s].proj
            <4>1. b \in Bundle \cup {NoBundle} /\ hooks \in SUBSET Hook
                  /\ Builds(s, "dispatchers", b, hooks)
                BY <3>2, <3>3 DEF b, hooks
            <4> QED
                BY <3>1, <4>1, BuildMoves
        <3> QED
            BY <3>4 DEF b, hooks
    <2>4. ps[s].mode = "chain" => hooksPath[ps[s].proj] = "owner"
        BY <2>2 DEF PathAllows
    <2> QED
        BY <2>1, <2>2, <2>3, <2>4 DEF InstallCourse, Approved, NoUnknownEntry
<1>2. CASE WriteDispatcher(s)
    <2>1. PICK h \in ps[s].todo :
             /\ fallback' = [fallback EXCEPT ![ps[s].proj][h] = "hazmat"]
             /\ managed' = IF ps[s].mode = "chain" THEN managed
                           ELSE [managed EXCEPT ![ps[s].proj] = @ \cup {h}]
             /\ ps' = [ps EXCEPT ![s].todo = @ \ {h}]
        BY <1>2 DEF WriteDispatcher
    <2>2. /\ ps[s].pc = "dispatchers"
          /\ UNCHANGED <<repo, hooksPath, owner, approvals>>
        BY <1>2 DEF WriteDispatcher, onHost
    <2>3. /\ ps'[s].pc = "dispatchers" /\ ps'[s].content = ps[s].content
          /\ ps'[s].todo = ps[s].todo \ {h} /\ ps'[s].proj = ps[s].proj
          /\ ps'[s].mode = ps[s].mode
        BY <2>1, <2>2, DoneMoves
    <2>4. /\ \A g \in Hook : g # h => fallback'[ps[s].proj][g] = fallback[ps[s].proj][g]
          /\ fallback'[ps[s].proj][h] = "hazmat"
          /\ managed[ps[s].proj] \subseteq managed'[ps[s].proj]
          /\ ps[s].mode # "chain" => h \in managed'[ps[s].proj]
        BY <1>t, <2>1
    <2>5. /\ repo[ps[s].proj] = ps[s].content /\ ps[s].content \in Bundle
          /\ approvals[ps[s].proj] # NoRecord /\ approvals[ps[s].proj].bundle = ps[s].content
          /\ ps[s].todo \subseteq HooksOf[ps[s].content]
          /\ \A g \in Hook \ HooksOf[ps[s].content] : fallback[ps[s].proj][g] = "none"
          /\ \A g \in HooksOf[ps[s].content] \ ps[s].todo : fallback[ps[s].proj][g] = "hazmat"
          /\ ps[s].mode = "chain" => hooksPath[ps[s].proj] = "owner"
          /\ ps[s].mode # "chain" =>
                HooksOf[ps[s].content] \ ps[s].todo \subseteq managed[ps[s].proj]
        BY <2>2 DEF InstallCourse
    <2>6. HooksOf[ps[s].content] \subseteq Hook
        BY <1>t, <2>5
    <2> QED
        BY <2>2, <2>3, <2>4, <2>5, <2>6 DEF InstallCourse
<1>3. CASE WriteWrapper(s)
    <2>1. /\ ps[s].pc = "dispatchers" /\ ps[s].todo = {}
          /\ UNCHANGED <<repo, hooksPath, managed, fallback, owner, approvals>>
        BY <1>3 DEF WriteWrapper, inRepo
    <2>c. ps[s].content \in Bundle /\ HooksOf[ps[s].content] \in SUBSET Hook
        BY <1>t, <2>1 DEF InstallCourse
    <2>k. ps[s].chain = {}
        BY <1>t, <2>1 DEF Fit
    <2>2. CASE ps[s].mode = "chain"
        <3>1. Turns(s, "blocks", HooksOf[ps[s].content])
            BY <1>3, <2>2 DEF WriteWrapper, Turns
        <3>2. /\ ps'[s].pc = "blocks" /\ ps'[s].content = ps[s].content
              /\ ps'[s].todo = HooksOf[ps[s].content] /\ ps'[s].proj = ps[s].proj
              /\ ps'[s].mode = ps[s].mode /\ ps'[s].chain = {}
            BY <1>t, <2>c, <2>k, <3>1, TodoGoMoves DEF Steps
        <3> QED
            BY <2>1, <2>2, <3>2 DEF InstallCourse
    <2>3. CASE ps[s].mode # "chain"
        <3>1. /\ ps'[s].pc = "path" /\ ps'[s].content = ps[s].content
              /\ ps'[s].proj = ps[s].proj /\ ps'[s].mode = ps[s].mode
            BY <1>3, <2>3, GoMoves DEF WriteWrapper, Go, Steps
        <3> QED
            BY <2>1, <2>3, <3>1 DEF InstallCourse
    <2> QED
        BY <2>2, <2>3
<1>4. CASE SetHooksPath(s)
    <2>1. /\ ps[s].pc = "path" /\ UNCHANGED <<repo, managed, fallback, owner, approvals>>
          /\ hooksPath' = [hooksPath EXCEPT ![ps[s].proj] = "managed"]
        BY <1>4 DEF SetHooksPath, onHost
    <2>2. /\ ps'[s].pc = "cLoad" /\ ps'[s].content = ps[s].content
          /\ ps'[s].proj = ps[s].proj /\ ps'[s].mode = ps[s].mode
        BY <1>4, GoMoves DEF SetHooksPath, Go, Steps
    <2>3. hooksPath'[ps[s].proj] = "managed"
        BY <1>t, <2>1
    <2> QED
        BY <2>1, <2>2, <2>3 DEF InstallCourse
<1>5. CASE AddBlock(s)
    <2>1. PICK h \in ps[s].todo :
             /\ owner' = [owner EXCEPT ![ps[s].proj][h] =
                             [body |-> BodyOf(owner[ps[s].proj][h]), mark |-> "block"]]
             /\ ps' = [ps EXCEPT ![s].todo = @ \ {h},
                                 ![s].chain = @ \cup {<<h, BodyOf(owner[ps[s].proj][h])>>}]
        <3>1. ~Leave(s)
            BY LeaveMoves, IdleFits
        <3> QED
            BY <1>5, <3>1 DEF AddBlock
    <2> DEFINE b == BodyOf(owner[ps[s].proj][h])
    <2>2. /\ ps[s].pc = "blocks"
          /\ UNCHANGED <<repo, hooksPath, managed, fallback, approvals>>
        BY <1>5 DEF AddBlock, onHost
    <2>3. h \in Hook /\ b \in Body
        BY <1>t, GitHooksAssumption DEF BodyOf, OwnerFile
    <2> HIDE DEF b
    <2>4. Chains(s, ps[s].todo \ {h}, ps[s].chain \cup {<<h, b>>})
        BY <2>1 DEF b, Chains, GhTypes, TypeOK
    <2>5. ps[s].todo \ {h} \in SUBSET Hook /\ ps[s].chain \cup {<<h, b>>} \in Chain
        BY <1>t, <2>3 DEF Chain
    <2>6. /\ ps'[s].pc = "blocks" /\ ps'[s].content = ps[s].content
          /\ ps'[s].todo = ps[s].todo \ {h} /\ ps'[s].proj = ps[s].proj
          /\ ps'[s].mode = ps[s].mode /\ ps'[s].chain = ps[s].chain \cup {<<h, b>>}
        BY <2>2, <2>4, <2>5, ChainMoves
    <2>7. /\ owner'[ps[s].proj][h] = [body |-> b, mark |-> "block"]
          /\ \A g \in Hook : g # h => owner'[ps[s].proj][g] = owner[ps[s].proj][g]
        BY <1>t, <2>1, <2>3 DEF b
    <2>8. /\ ps[s].todo \subseteq HooksOf[ps[s].content]
          /\ {x[1] : x \in ps[s].chain} = HooksOf[ps[s].content] \ ps[s].todo
          /\ \A x \in ps[s].chain : owner[ps[s].proj][x[1]] = [body |-> x[2], mark |-> "block"]
        BY <2>2 DEF InstallCourse
    <2>h. h \in ps[s].todo
        OBVIOUS
    <2>9. \A x \in ps[s].chain : x[1] \in Hook /\ x[1] # h
        BY <1>t, <2>8, <2>h
    <2>p. <<h, b>>[1] = h /\ <<h, b>>[2] = b
        OBVIOUS
    <2>10. {x[1] : x \in ps'[s].chain} = HooksOf[ps[s].content] \ ps'[s].todo
        <3>1. \A g : (\E x \in ps'[s].chain : g = x[1]) <=> (\E x \in ps[s].chain : g = x[1]) \/ g = h
            BY <2>6, <2>p
        <3>2. \A g : (\E x \in ps[s].chain : g = x[1]) <=> g \in HooksOf[ps[s].content] \ ps[s].todo
            BY <2>8
        <3>3. h \in HooksOf[ps[s].content]
            BY <2>8, <2>h
        <3> QED
            BY <2>6, <3>1, <3>2, <3>3
    <2>11. \A x \in ps'[s].chain : owner'[ps[s].proj][x[1]] = [body |-> x[2], mark |-> "block"]
        BY <2>6, <2>7, <2>8, <2>9, <2>p
    <2> QED
        BY <2>2, <2>6, <2>8, <2>10, <2>11 DEF InstallCourse
<1>6. CASE DropManagedDir(s)
    <2>1. /\ ps[s].pc = "blocks" /\ ps[s].todo = {}
          /\ UNCHANGED <<repo, hooksPath, fallback, owner, approvals>>
        BY <1>6 DEF DropManagedDir, onHost
    <2>2. /\ ps'[s].pc = "cLoad" /\ ps'[s].content = ps[s].content
          /\ ps'[s].proj = ps[s].proj /\ ps'[s].mode = ps[s].mode /\ ps'[s].chain = ps[s].chain
        BY <1>6, GoMoves DEF DropManagedDir, Go, Steps
    <2> QED
        BY <2>1, <2>2 DEF InstallCourse
<1>7. CASE LoadForChain(s)
    <2>1. /\ ps[s].pc = "cLoad" /\ Rereads(s, "cSave", approvals)
          /\ UNCHANGED <<repo, hooksPath, managed, fallback, owner, approvals>>
        BY <1>7 DEF LoadForChain, inRepo, onHost, Rereads
    <2>2. /\ ps'[s].pc = "cSave" /\ ps'[s].content = ps[s].content
          /\ ps'[s].proj = ps[s].proj /\ ps'[s].mode = ps[s].mode /\ ps'[s].chain = ps[s].chain
        <3>1. approvals \in [Project -> Record \cup {NoRecord}]
            BY DEF GhTypes, TypeOK
        <3> QED
            BY <2>1, <3>1, LoadedMoves DEF Steps
    <2> QED
        BY <2>1, <2>2 DEF InstallCourse
<1> QED
    BY <1>1, <1>2, <1>3, <1>4, <1>5, <1>6, <1>7, InstallsOrNot

\* While a command runs, the agent that edits between commands does not.
LEMMA AgentWaits ==
    ASSUME Agent, AgentEdits # "always"
    PROVE  (\A s \in Process : ps[s].pc = "idle")
BY DEF Agent, AgentEditsBundle, AgentReroutes, AgentEditsOwner, AgentMay, At

LEMMA InstallStep ==
    ASSUME ~Overlap, "partialRemoval" \notin Faults, "stuckState" \notin Faults, AgentEdits # "always"
    PROVE  GhTypes /\ GhTypes' /\ InstallInv /\ [Next]_vars => InstallInv'
<1> SUFFICES ASSUME GhTypes, GhTypes', InstallInv, [Next]_vars PROVE InstallInv'
    OBVIOUS
<1>a. Alone' /\ RecordInv' /\ Paired'
    BY AloneStep, RecordStep, PairedStep DEF InstallInv
<1>1. CASE \E s \in Process : CommandStep(s)
    <2>1. PICK s \in Process : CommandStep(s)
        BY <1>1
    <2>2. \A q \in Process : q # s => ps[q].pc = "idle" /\ ps'[q] = ps[q]
        BY <2>1, TakesTurn DEF InstallInv
    <2>3. \A q \in Process : q # s => InstallCourse(q)'
        BY <2>2 DEF InstallCourse, Installing
    <2> QED
        BY <1>a, <2>1, <2>3, InstallKeepsCourse DEF InstallInv
<1>2. CASE Agent
    <2>1. \A s \in Process : ps'[s].pc = "idle"
        BY <1>2, AgentWaits DEF Agent, AgentEditsBundle, AgentReroutes, AgentEditsOwner
    <2> QED
        BY <1>a, <2>1 DEF InstallInv, InstallCourse, Installing
<1>3. CASE UNCHANGED vars
    BY <1>a, <1>3 DEF vars, InstallInv, InstallCourse
<1> QED
    BY <1>1, <1>2, <1>3 DEF Next, CommandStep

LEMMA InstallInit == Init => InstallInv
<1> SUFFICES ASSUME Init PROVE InstallInv
    OBVIOUS
<1>1. \A s \in Process : InstallCourse(s)
    BY IdleFits DEF Init, InstallCourse, Installing
<1>2. Paired
    BY DEF Init, Paired
<1> QED
    BY <1>1, <1>2, RecordInit DEF InstallInv, RecordInv

\* What SaveChain saves over is what LoadForChain has read, and what it leaves is valid.
LEMMA SavedValidates ==
    ASSUME GhTypes, GhTypes', InstallInv, RecordInv', NEW s \in Process, NEW p \in Project,
           p = P(s), SaveChain(s), ps[s].loaded[p] # NoRecord
    PROVE  \/ Valid(p)'
           \/ \E h \in Hook \ HooksOf[repo[p]] : <<"managed", h>> \in kept[p]
<1> SUFFICES ASSUME \A h \in Hook \ HooksOf[repo[p]] : <<"managed", h>> \notin kept[p]
             PROVE  Valid(p)'
    OBVIOUS
<1> USE DEF P
<1>b. PICK b : b = ps[s].content
    OBVIOUS
<1>c. PICK c : c = IF ps[s].mode = "chain" THEN ps[s].chain ELSE NoChain
    OBVIOUS
<1>1. /\ ps[s].pc = "cSave" /\ ps[s].loaded = approvals
      /\ UNCHANGED <<repo, hooksPath, managed, fallback, owner, snapshot>>
      /\ approvals' = [approvals EXCEPT ![p].chain = c]
    BY <1>c DEF SaveChain, At, inRepo, InstallInv, RecordInv, InCourse
<1>2. /\ repo[p] = b /\ b \in Bundle
      /\ approvals[p] # NoRecord /\ approvals[p].bundle = b
      /\ \A h \in Hook \ HooksOf[b] : fallback[p][h] = "none"
      /\ \A h \in HooksOf[b] : fallback[p][h] = "hazmat"
      /\ ps[s].mode = "chain" =>
            /\ hooksPath[p] = "owner"
            /\ {x[1] : x \in ps[s].chain} = HooksOf[b]
            /\ \A x \in ps[s].chain : owner[p][x[1]] = [body |-> x[2], mark |-> "block"]
      /\ ps[s].mode # "chain" => hooksPath[p] = "managed" /\ HooksOf[b] \subseteq managed[p]
    BY <1>1, <1>b DEF InstallInv, InstallCourse, Installing, Composing
<1>3. p \in Project /\ approvals \in [Project -> Record \cup {NoRecord}] /\ HooksOf[b] \subseteq Hook
    BY <1>2, GitHooksAssumption DEF GhTypes, TypeOK
<1>4. ps[s].chain \in SUBSET (Hook \X Body) /\ managed[p] \subseteq Hook
    BY DEF GhTypes, TypeOK, Chain
<1>5. managed[p] \subseteq HooksOf[b]
    BY <1>2, <1>3, <1>4 DEF InstallInv, Paired
<1>6. approvals'[p].bundle = b /\ approvals'[p].chain = c /\ approvals'[p] # NoRecord
    <2>1. approvals[p] \in Record
        BY <1>2, <1>3
    <2>2. /\ [approvals[p] EXCEPT !.chain = c].bundle = b
          /\ [approvals[p] EXCEPT !.chain = c].chain = c
        BY <1>2, <2>1 DEF Record
    <2>3. approvals'[p] = [approvals[p] EXCEPT !.chain = c]
        BY <1>1, <1>3
    <2>4. c \in {NoChain} \cup Chain
        BY <1>4, <1>c DEF Chain
    <2>5. [approvals[p] EXCEPT !.chain = c] \in Record
        BY <2>1, <2>4 DEF Record
    <2>6. [approvals[p] EXCEPT !.chain = c] # NoRecord
        BY <2>5, GitHooksAssumption DEF Record, Chain
    <2> QED
        BY <2>2, <2>3, <2>6
<1>7. snapshot'[p][b] = "whole"
    BY <1>3, <1>6 DEF RecordInv, RecordedSnapshotWhole
<1>8. FallbackLayout(p, HooksOf[b])'
    BY <1>1, <1>2 DEF FallbackLayout
<1>9. IF approvals'[p].chain # NoChain THEN ChainLayout(p, HooksOf[b])'
      ELSE hooksPath'[p] = "managed" /\ managed'[p] = HooksOf[b]
    <2>1. CASE ps[s].mode = "chain"
        <3>1. c = ps[s].chain /\ c # NoChain
            BY <1>4, <1>c, <2>1, GitHooksAssumption
        <3>2. /\ hooksPath'[p] = "owner"
              /\ {x[1] : x \in approvals'[p].chain} = HooksOf[b]
            BY <1>1, <1>2, <1>6, <2>1, <3>1
        <3>3. \A x \in approvals'[p].chain : owner'[p][x[1]] = [body |-> x[2], mark |-> "block"]
            BY <1>1, <1>2, <1>6, <2>1, <3>1
        <3>4. ChainLayout(p, HooksOf[b])'
            BY <3>2, <3>3 DEF ChainLayout
        <3> QED
            BY <1>6, <3>1, <3>4
    <2>2. CASE ps[s].mode # "chain"
        <3>1. c = NoChain
            BY <1>c, <2>2
        <3>2. managed'[p] = HooksOf[b] /\ hooksPath'[p] = "managed"
            BY <1>1, <1>2, <1>5, <2>2
        <3>3. approvals'[p].chain = NoChain
            BY <1>6, <3>1
        <3> QED
            BY <3>2, <3>3
    <2> QED
        BY <2>1, <2>2
<1>10. repo'[p] = b
    BY <1>1, <1>2
<1> QED
    BY <1>2, <1>6, <1>7, <1>8, <1>9, <1>10 DEF Valid, Approved

\* installProjectHookRuntime: an install that ends well leaves a runtime that validates,
\* for commands that take their turns and an agent that edits between them, except where
\* the managed directory holds a dispatcher that an uninstall could not remove.
THEOREM InstallsValidate ==
    ASSUME ~Overlap, "partialRemoval" \notin Faults, "stuckState" \notin Faults, AgentEdits # "always"
    PROVE  Spec => InstalledValidates
<1>1. InstallInv /\ InstallInv' /\ GhTypes /\ GhTypes' /\ [Next]_vars =>
         [\A s \in Process, p \in Project :
             (p = P(s) /\ SaveChain(s) /\ ps[s].loaded[p] # NoRecord) =>
                \/ Valid(p)'
                \/ \E h \in Hook \ HooksOf[repo[p]] : <<"managed", h>> \in kept[p]]_vars
    BY SavedValidates DEF InstallInv
<1>2. InstallInv /\ GhTypes /\ GhTypes' /\ [Next]_vars => InstallInv'
    BY InstallStep
<1> QED
    BY <1>1, <1>2, InstallInit, TypesInit, TypesStep, PTL DEF Spec, InstalledValidates

-----------------------------------------------------------------------------
(* An uninstall that ends.                                                 *)

\* Hazmat's entries in .git/hooks are those of a bundle on record, or are left from an
\* uninstall that could not remove them.
Accounted ==
    \A p \in Project, h \in Hook :
       fallback[p][h] = "hazmat" =>
          \/ approvals[p] # NoRecord /\ h \in HooksOf[approvals[p].bundle]
          \/ <<"fallback", h>> \in kept[p]

\* The dispatchers are gone, but for those that could not be removed.
Dispatched(p) ==
    /\ \A h \in managed[p] : <<"managed", h>> \in kept[p]
    /\ \A h \in Hook : fallback[p][h] = "hazmat" => <<"fallback", h>> \in kept[p]

\* What an uninstall has removed is gone, and what it has listed is all there is.
UninstallCourse(s) ==
    LET p == ps[s].proj
    IN  /\ ps[s].pc \in {"uPath", "uBlocks"} => ps[s].rec = approvals[p]
        /\ ps[s].pc \in {"uBlocks", "uHooks", "uWrapper", "uaLoad", "uaSave", "uSnap"} =>
              (hooksPath[p] = "managed" => <<"path">> \in kept[p])
        /\ ps[s].pc = "uHooks" =>
              \A h \in Hook : fallback[p][h] = "hazmat" =>
                                 h \in ps[s].todo \/ <<"fallback", h>> \in kept[p]
        /\ ps[s].pc \in {"uWrapper", "uaLoad", "uaSave", "uSnap"} => Dispatched(p)
        /\ ps[s].pc \in {"uaLoad", "uaSave", "uSnap"} =>
              (wrapper[p] => <<"wrapper">> \in kept[p])

UninstallInv == InstallInv /\ Accounted /\ \A s \in Process : UninstallCourse(s)

\* The bundles differ in content only.
OneHookSet == \A a, b \in Bundle : HooksOf[a] = HooksOf[b]

Uninstalling == {"uPath", "uBlocks", "uHooks", "uWrapper", "uaLoad", "uaSave", "uSnap"}

LEMMA UninstallsOrNot ==
    ASSUME GhTypes, NEW s \in Process, CommandStep(s), ps'[s].pc \in Uninstalling
    PROVE  \/ UninstallLoad(s) \/ UnsetHooksPath(s) \/ SkipRepository(s) \/ RemoveBlock(s)
           \/ RemoveDispatcher(s) \/ RemoveWrapper(s) \/ LoadForRemoval(s) \/ SaveRemoval(s)
<1>1. ps[s].pc \in {"uLoad", "uPath", "uBlocks", "uHooks", "uWrapper", "uaLoad", "uaSave"}
    BY CommandMoves DEF Moved, Follows, Uninstalling
<1>2. ~Crash(s)
    BY LeaveMoves, IdleFits DEF Crash, Uninstalling
<1> QED
    BY <1>1, <1>2 DEF CommandStep, Begin, Dispatch, Execute, At,
       Install, Inspect, Prompt, WriteSnapshot, LoadApprovals, SaveApproval, RemoveStale,
       Build, WriteDispatcher, WriteWrapper, SetHooksPath, AddBlock, DropManagedDir,
       LoadForChain, SaveChain, Uninstall, UninstallInspect, RemoveSnapshot,
       Rollback, RollbackLoad, RollbackNext, RollbackFile, RollbackRoot

LEMMA UninstallKeepsCourse ==
    ASSUME GhTypes, GhTypes', Accounted, NEW s \in Process, UninstallCourse(s), CommandStep(s),
           "rollback" \notin Modes
    PROVE  UninstallCourse(s)'
<1> SUFFICES ASSUME ps'[s].pc \in Uninstalling PROVE UninstallCourse(s)'
    BY DEF UninstallCourse, Uninstalling
<1> USE DEF At, P, Uninstalling
<1>t. /\ ps[s].proj \in Project /\ ps[s].todo \in SUBSET Hook /\ ps[s].mode # "rollback"
      /\ approvals \in [Project -> Record \cup {NoRecord}]
      /\ HooksOf \in [Bundle -> SUBSET Hook]
      /\ managed \in [Project -> SUBSET Hook]
      /\ wrapper \in [Project -> BOOLEAN]
      /\ fallback \in [Project -> [Hook -> {"none", "hazmat", "user"}]]
      /\ hooksPath \in [Project -> {"unset", "managed", "owner"}]
      /\ kept \in [Project -> SUBSET Trace]
    BY GitHooksAssumption DEF GhTypes, TypeOK, Fit
<1>f. ~Finish(s)
    BY <1>t, LeaveMoves, IdleFits DEF Finish
<1>1. CASE UninstallLoad(s)
    <2>1. Recalls(s, "uPath", approvals[ps[s].proj]) /\ approvals' = approvals
        BY <1>1 DEF UninstallLoad, onHost, Recalls
    <2>2. /\ ps'[s].pc = "uPath" /\ ps'[s].proj = ps[s].proj
          /\ ps'[s].rec = approvals[ps[s].proj]
        BY <1>t, <2>1, RecMoves DEF Steps
    <2> QED
        BY <2>1, <2>2 DEF UninstallCourse
<1>2. CASE UnsetHooksPath(s)
    <2> DEFINE hooks == {c[1] : c \in ChainOf(ps[s].rec)}
    <2>1. /\ ps[s].pc = "uPath" /\ approvals' = approvals
          /\ hooksPath' = [hooksPath EXCEPT ![ps[s].proj] = IF @ = "managed" THEN "unset" ELSE @]
          /\ Turns(s, "uBlocks", hooks)
        BY <1>2 DEF UnsetHooksPath, onHost, Turns
    <2>2. hooks \in SUBSET Hook
        BY DEF ChainOf, GhTypes, TypeOK, Record, Chain
    <2> HIDE DEF hooks
    <2>3. ps'[s].pc = "uBlocks" /\ ps'[s].proj = ps[s].proj /\ ps'[s].rec = ps[s].rec
        BY <2>1, <2>2, TodoGoMoves DEF Steps
    <2>4. hooksPath'[ps[s].proj] # "managed"
        BY <1>t, <2>1
    <2> QED
        BY <2>1, <2>3, <2>4 DEF UninstallCourse
<1>3. CASE RemoveBlock(s)
    <2>1. /\ ps[s].pc = "uBlocks"
          /\ UNCHANGED <<hooksPath, managed, fallback, kept, wrapper, approvals>>
          /\ ps[s].rec = approvals[ps[s].proj]
          /\ hooksPath[ps[s].proj] = "managed" => <<"path">> \in kept[ps[s].proj]
        BY <1>3 DEF RemoveBlock, onHost, UninstallCourse
    <2>2. CASE \E h \in ps[s].todo : ps' = [ps EXCEPT ![s].todo = @ \ {h}]
        <3>1. ps'[s].pc = "uBlocks" /\ ps'[s].proj = ps[s].proj /\ ps'[s].rec = ps[s].rec
            BY <2>1, <2>2, DoneMoves
        <3> QED
            BY <2>1, <3>1 DEF UninstallCourse
    <2>3. CASE ps' = [ps EXCEPT ![s].pc = "uHooks", ![s].todo = HooksOfRecord(ps[s].rec)]
        <3>1. HooksOfRecord(ps[s].rec) \in SUBSET Hook
            BY <1>t, <2>1 DEF HooksOfRecord, Record
        <3>2. Turns(s, "uHooks", HooksOfRecord(ps[s].rec))
            BY <2>3 DEF Turns
        <3>3. /\ ps'[s].pc = "uHooks" /\ ps'[s].proj = ps[s].proj
              /\ ps'[s].todo = HooksOfRecord(ps[s].rec)
            BY <3>1, <3>2, TodoGoMoves DEF Steps
        <3>4. \A h \in Hook : fallback[ps[s].proj][h] = "hazmat" =>
                 h \in HooksOfRecord(ps[s].rec) \/ <<"fallback", h>> \in kept[ps[s].proj]
            BY <1>t, <2>1 DEF Accounted, HooksOfRecord
        <3> QED
            BY <2>1, <3>3, <3>4 DEF UninstallCourse
    <2> QED
        BY <1>3, <1>f, <2>2, <2>3 DEF RemoveBlock
<1>4. CASE RemoveDispatcher(s)
    <2>1. /\ ps[s].pc = "uHooks" /\ UNCHANGED <<hooksPath, wrapper, approvals>>
          /\ hooksPath[ps[s].proj] = "managed" => <<"path">> \in kept[ps[s].proj]
          /\ \A h \in Hook : fallback[ps[s].proj][h] = "hazmat" =>
                h \in ps[s].todo \/ <<"fallback", h>> \in kept[ps[s].proj]
        BY <1>4 DEF RemoveDispatcher, onHost, UninstallCourse
    <2>2. ASSUME NEW h \in ps[s].todo, NEW stuck \in SUBSET Places,
                 fallback' = IF "fallback" \in stuck THEN fallback
                             ELSE [fallback EXCEPT ![ps[s].proj][h] = "none"],
                 kept' = [kept EXCEPT ![ps[s].proj] =
                            (@ \ ((Places \ stuck) \X {h}))
                            \cup ((stuck \X {h}) \cap InRepository(ps[s].proj))],
                 ps' = [ps EXCEPT ![s].todo = @ \ {h}]
          PROVE  UninstallCourse(s)'
        <3>1. /\ ps'[s].pc = "uHooks" /\ ps'[s].proj = ps[s].proj
              /\ ps'[s].todo = ps[s].todo \ {h}
            BY <2>1, <2>2, DoneMoves
        <3>2. ASSUME NEW g \in Hook, g # h
              PROVE  /\ fallback'[ps[s].proj][g] = fallback[ps[s].proj][g]
                     /\ <<"fallback", g>> \in kept[ps[s].proj] =>
                           <<"fallback", g>> \in kept'[ps[s].proj]
            <4>1. PICK more : kept' = [kept EXCEPT ![ps[s].proj] =
                                         (@ \ ((Places \ stuck) \X {h})) \cup more]
                BY <2>2
            <4>2. fallback'[ps[s].proj][g] = fallback[ps[s].proj][g]
                BY <1>t, <2>2, <3>2
            <4>3. <<"fallback", g>> \in kept[ps[s].proj] => <<"fallback", g>> \in kept'[ps[s].proj]
                BY <1>t, <3>2, <4>1
            <4> QED
                BY <4>2, <4>3
        <3>3. fallback'[ps[s].proj][h] = "hazmat" => <<"fallback", h>> \in kept'[ps[s].proj]
            <4> SUFFICES ASSUME fallback'[ps[s].proj][h] = "hazmat"
                         PROVE  <<"fallback", h>> \in kept'[ps[s].proj]
                OBVIOUS
            <4>1. h \in Hook /\ "fallback" \in stuck /\ fallback[ps[s].proj][h] = "hazmat"
                BY <1>t, <2>2
            <4>2. <<"fallback", h>> \in (stuck \X {h}) \cap InRepository(ps[s].proj)
                BY <4>1 DEF InRepository
            <4> QED
                BY <1>t, <2>2, <4>2
        <3>4. <<"path">> \in kept[ps[s].proj] => <<"path">> \in kept'[ps[s].proj]
            <4>1. PICK more : kept' = [kept EXCEPT ![ps[s].proj] =
                                         (@ \ ((Places \ stuck) \X {h})) \cup more]
                BY <2>2
            <4>2. <<"path">> \notin (Places \ stuck) \X {h}
                OBVIOUS
            <4> QED
                BY <1>t, <4>1, <4>2
        <3>5. \A g \in Hook : fallback'[ps[s].proj][g] = "hazmat" =>
                 g \in ps'[s].todo \/ <<"fallback", g>> \in kept'[ps[s].proj]
            BY <2>1, <3>1, <3>2, <3>3
        <3> QED
            BY <2>1, <3>1, <3>4, <3>5 DEF UninstallCourse
    <2>3. ASSUME ps[s].todo = {}, Go(s, "uWrapper"), UNCHANGED fallback,
                 NEW stuck \in SUBSET managed[ps[s].proj],
                 managed' = [managed EXCEPT ![ps[s].proj] = stuck],
                 kept' = [kept EXCEPT ![ps[s].proj] =
                            (@ \ ({"managed"} \X Hook)) \cup ({"managed"} \X stuck)]
          PROVE  UninstallCourse(s)'
        <3>1. ps'[s].pc = "uWrapper" /\ ps'[s].proj = ps[s].proj
            BY <2>3, GoMoves DEF Go, Steps
        <3>2. \A h \in managed'[ps[s].proj] : <<"managed", h>> \in kept'[ps[s].proj]
            BY <1>t, <2>3
        <3>3. \A h \in Hook : <<"fallback", h>> \in kept[ps[s].proj] =>
                                  <<"fallback", h>> \in kept'[ps[s].proj]
            BY <1>t, <2>3
        <3>4. <<"path">> \in kept[ps[s].proj] => <<"path">> \in kept'[ps[s].proj]
            BY <1>t, <2>3
        <3> QED
            BY <2>1, <2>3, <3>1, <3>2, <3>3, <3>4 DEF UninstallCourse, Dispatched
    <2> QED
        BY <1>4, <2>2, <2>3 DEF RemoveDispatcher
<1>5. CASE RemoveWrapper(s)
    <2>1. /\ ps[s].pc = "uWrapper" /\ UNCHANGED <<hooksPath, managed, fallback, approvals>>
          /\ hooksPath[ps[s].proj] = "managed" => <<"path">> \in kept[ps[s].proj]
          /\ Dispatched(ps[s].proj)
        BY <1>5 DEF RemoveWrapper, UninstallCourse
    <2>2. ps'[s].pc = "uaLoad" /\ ps'[s].proj = ps[s].proj
        BY <1>5, GoMoves DEF RemoveWrapper, Go, Steps
    <2>3. CASE /\ wrapper' = [wrapper EXCEPT ![ps[s].proj] = FALSE]
               /\ kept' = [kept EXCEPT ![ps[s].proj] = @ \ {<<"wrapper">>}]
        <3>1. ~wrapper'[ps[s].proj]
            BY <1>t, <2>3, Zenon
        <3>2. kept'[ps[s].proj] = kept[ps[s].proj] \ {<<"wrapper">>}
            BY <1>t, <2>3
        <3>3. Dispatched(ps[s].proj)'
            BY <1>t, <2>1, <3>2, <2>2 DEF Dispatched
        <3>4. <<"path">> \in kept[ps[s].proj] => <<"path">> \in kept'[ps[s].proj]
            BY <3>2
        <3> QED
            BY <2>1, <2>2, <3>1, <3>3, <3>4 DEF UninstallCourse, Dispatched
    <2>4. CASE /\ kept' = [kept EXCEPT ![ps[s].proj] = @ \cup {<<"wrapper">>}]
               /\ UNCHANGED wrapper
        <3>1. kept'[ps[s].proj] = kept[ps[s].proj] \cup {<<"wrapper">>}
            BY <1>t, <2>4
        <3> QED
            BY <2>1, <2>2, <3>1 DEF UninstallCourse, Dispatched
    <2> QED
        BY <1>5, <2>3, <2>4 DEF RemoveWrapper
<1>6. CASE LoadForRemoval(s)
    <2>1. /\ ps[s].pc = "uaLoad" /\ Rereads(s, "uaSave", approvals)
          /\ UNCHANGED <<hooksPath, managed, fallback, kept, wrapper, approvals>>
        BY <1>6 DEF LoadForRemoval, inRepo, onHost, Rereads
    <2>2. ps'[s].pc = "uaSave" /\ ps'[s].proj = ps[s].proj
        BY <1>t, <2>1, LoadedMoves DEF Steps
    <2> QED
        BY <2>1, <2>2 DEF UninstallCourse, Dispatched
<1>7. CASE SaveRemoval(s)
    <2>1. ps[s].pc = "uaSave" /\ UNCHANGED <<hooksPath, managed, fallback, kept, wrapper>>
        BY <1>7 DEF SaveRemoval, inRepo
    <2>2. ps'[s].pc = "uSnap" /\ ps'[s].proj = ps[s].proj
        BY <1>7, GoMoves DEF SaveRemoval, Go, Steps
    <2> QED
        BY <2>1, <2>2 DEF UninstallCourse, Dispatched
<1>8. CASE SkipRepository(s)
    <2>1. /\ ps[s].pc = "uPath" /\ UNCHANGED <<hooksPath, managed, fallback, wrapper, approvals>>
          /\ kept' = [kept EXCEPT ![ps[s].proj] = @ \cup InRepository(ps[s].proj)]
        BY <1>8 DEF SkipRepository, onHost
    <2>2. ps'[s].pc = "uWrapper" /\ ps'[s].proj = ps[s].proj
        BY <1>8, GoMoves DEF SkipRepository, Go, Steps
    <2>3. kept'[ps[s].proj] = kept[ps[s].proj] \cup InRepository(ps[s].proj)
        BY <1>t, <2>1
    <2>4. /\ \A h \in managed[ps[s].proj] : <<"managed", h>> \in InRepository(ps[s].proj)
          /\ \A h \in Hook : fallback[ps[s].proj][h] = "hazmat" =>
                                 <<"fallback", h>> \in InRepository(ps[s].proj)
          /\ hooksPath[ps[s].proj] = "managed" => <<"path">> \in InRepository(ps[s].proj)
        BY DEF InRepository
    <2> QED
        BY <2>1, <2>2, <2>3, <2>4 DEF UninstallCourse, Dispatched
<1> QED
    BY <1>1, <1>2, <1>3, <1>4, <1>5, <1>6, <1>7, <1>8, UninstallsOrNot

\* No entry appears without a record, and no record goes before its entries.
LEMMA AccountedKept ==
    ASSUME GhTypes, InstallInv, Accounted, NEW s \in Process, UninstallCourse(s), CommandStep(s),
           OneHookSet, "rollback" \notin Modes, "tornSave" \notin Faults
    PROVE  Accounted'
<1> USE DEF At, P
<1>t. /\ ps[s].proj \in Project /\ Fit(ps[s]) /\ ps[s].mode # "rollback"
      /\ ps[s].todo \in SUBSET Hook
      /\ approvals \in [Project -> Record \cup {NoRecord}]
      /\ fallback \in [Project -> [Hook -> {"none", "hazmat", "user"}]]
      /\ \A p \in Project : approvals[p] # NoRecord => approvals[p].bundle \in Bundle
    BY DEF GhTypes, TypeOK, Record, Fit
<1>k. kept \in [Project -> SUBSET Trace]
    BY DEF GhTypes, TypeOK
<1>1. ASSUME UNCHANGED <<approvals, fallback>>,
             \A p \in Project, h \in Hook :
                <<"fallback", h>> \in kept[p] => <<"fallback", h>> \in kept'[p]
      PROVE  Accounted'
    BY <1>1 DEF Accounted
<1>2. CASE SaveApproval(s)
    <2>1. ps[s].loaded = approvals /\ UNCHANGED <<fallback, kept>> /\ ps[s].content \in Bundle
        BY <1>2, <1>t DEF SaveApproval, InstallInv, RecordInv, InCourse, inRepo, Fit, Holding
    <2>2. approvals' = [approvals EXCEPT ![ps[s].proj] =
                           [bundle |-> ps[s].content, chain |-> NoChain]]
        BY <1>2, <2>1 DEF SaveApproval
    <2>3. /\ approvals'[ps[s].proj] = [bundle |-> ps[s].content, chain |-> NoChain]
          /\ \A p \in Project : p # ps[s].proj => approvals'[p] = approvals[p]
        BY <1>t, <2>2
    <2>4. approvals'[ps[s].proj] # NoRecord /\ approvals'[ps[s].proj].bundle = ps[s].content
        BY <2>1, <2>3, GitHooksAssumption
    <2> QED
        BY <1>t, <2>1, <2>3, <2>4 DEF Accounted, OneHookSet
<1>3. CASE SaveChain(s)
    <2>1. ps[s].loaded = approvals /\ UNCHANGED <<fallback, kept>>
        BY <1>3 DEF SaveChain, InstallInv, RecordInv, InCourse, inRepo
    <2>2. CASE UNCHANGED approvals
        BY <2>1, <2>2, <1>1
    <2>3. CASE ~UNCHANGED approvals
        <3>c. PICK c : c = IF ps[s].mode = "chain" THEN ps[s].chain ELSE NoChain
            OBVIOUS
        <3>1. approvals[ps[s].proj] # NoRecord
              /\ approvals' = [approvals EXCEPT ![ps[s].proj].chain = c]
            BY <1>3, <2>1, <2>3, <3>c DEF SaveChain
        <3>2. approvals[ps[s].proj] \in Record /\ c \in {NoChain} \cup Chain
            BY <1>t, <3>1, <3>c DEF GhTypes, TypeOK
        <3>3. /\ [approvals[ps[s].proj] EXCEPT !.chain = c] \in Record
              /\ [approvals[ps[s].proj] EXCEPT !.chain = c].bundle = approvals[ps[s].proj].bundle
            BY <3>2 DEF Record
        <3>4. [approvals[ps[s].proj] EXCEPT !.chain = c] # NoRecord
            BY <3>3, GitHooksAssumption DEF Record, Chain
        <3>5. /\ approvals'[ps[s].proj] = [approvals[ps[s].proj] EXCEPT !.chain = c]
              /\ \A p \in Project : p # ps[s].proj => approvals'[p] = approvals[p]
            BY <1>t, <3>1
        <3> QED
            BY <2>1, <3>1, <3>3, <3>4, <3>5 DEF Accounted
    <2> QED
        BY <2>2, <2>3
<1>4. CASE SaveRemoval(s)
    <2>1. /\ ps[s].pc = "uaSave" /\ ps[s].loaded = approvals /\ UNCHANGED <<fallback, kept>>
          /\ approvals' = [approvals EXCEPT ![ps[s].proj] = NoRecord]
        BY <1>4 DEF SaveRemoval, InstallInv, RecordInv, InCourse, inRepo
    <2>2. \A h \in Hook : fallback[ps[s].proj][h] = "hazmat" => <<"fallback", h>> \in kept[ps[s].proj]
        BY <2>1 DEF UninstallCourse, Dispatched
    <2>3. \A p \in Project : p # ps[s].proj => approvals'[p] = approvals[p]
        BY <1>t, <2>1
    <2> QED
        BY <2>1, <2>2, <2>3 DEF Accounted
<1>5. CASE WriteDispatcher(s)
    <2>1. /\ approvals[ps[s].proj] # NoRecord /\ approvals[ps[s].proj].bundle = ps[s].content
          /\ ps[s].todo \subseteq HooksOf[ps[s].content] /\ approvals' = approvals
        BY <1>5 DEF WriteDispatcher, InstallInv, InstallCourse, Installing, onHost
    <2>2. PICK h \in ps[s].todo :
             /\ fallback' = [fallback EXCEPT ![ps[s].proj][h] = "hazmat"]
             /\ kept' = [kept EXCEPT ![ps[s].proj] = @ \ Written(ps[s].mode, h)]
        BY <1>5 DEF WriteDispatcher
    <2>4. ASSUME NEW p \in Project, NEW g \in Hook, ~(p = ps[s].proj /\ g = h),
                 <<"fallback", g>> \in kept[p]
          PROVE  <<"fallback", g>> \in kept'[p]
        BY <1>t, <1>k, <2>2, <2>4 DEF Written, Places
    <2>3. \A p \in Project, g \in Hook :
             fallback'[p][g] = IF p = ps[s].proj /\ g = h THEN "hazmat" ELSE fallback[p][g]
        BY <1>t, <2>2
    <2> QED
        BY <2>1, <2>2, <2>3, <2>4 DEF Accounted
<1>6. CASE RemoveDispatcher(s)
    <2>1. approvals' = approvals
        BY <1>6 DEF RemoveDispatcher, onHost
    <2>2. ASSUME NEW stuck,
                 kept' = [kept EXCEPT ![P(s)] =
                            (@ \ ({"managed"} \X Hook)) \cup ({"managed"} \X stuck)],
                 UNCHANGED fallback
          PROVE  Accounted'
        <3>1. \A p \in Project, h \in Hook :
                 <<"fallback", h>> \in kept[p] => <<"fallback", h>> \in kept'[p]
            BY <1>t, <1>k, <2>2
        <3> QED
            BY <1>1, <2>1, <2>2, <3>1
    <2>3. ASSUME NEW h \in ps[s].todo, NEW stuck \in SUBSET Places,
                 fallback' = IF "fallback" \in stuck THEN fallback
                             ELSE [fallback EXCEPT ![P(s)][h] = "none"],
                 kept' = [kept EXCEPT ![P(s)] =
                            (@ \ ((Places \ stuck) \X {h}))
                            \cup ((stuck \X {h}) \cap InRepository(P(s)))]
          PROVE  Accounted'
        <3>1. PICK more : kept' = [kept EXCEPT ![ps[s].proj] =
                                     (@ \ ((Places \ stuck) \X {h})) \cup more]
            BY <2>3
        <3>2. \A p \in Project, g \in Hook : fallback'[p][g] \in {"none", fallback[p][g]}
            BY <1>t, <2>3
        <3>3. ASSUME NEW p \in Project, NEW g \in Hook, ~(p = ps[s].proj /\ g = h),
                     <<"fallback", g>> \in kept[p]
              PROVE  <<"fallback", g>> \in kept'[p]
            BY <1>t, <1>k, <3>1, <3>3
        <3>4. CASE "fallback" \in stuck
            <4>1. <<"fallback", h>> \in kept[ps[s].proj] => <<"fallback", h>> \in kept'[ps[s].proj]
                BY <1>t, <1>k, <3>1, <3>4
            <4> QED
                BY <2>1, <3>2, <3>3, <4>1 DEF Accounted
        <3>5. CASE "fallback" \notin stuck
            <4>1. fallback'[ps[s].proj][h] = "none"
                BY <1>t, <2>3, <3>5
            <4> QED
                BY <2>1, <3>2, <3>3, <4>1 DEF Accounted
        <3> QED
            BY <3>4, <3>5
    <2> QED
        BY <1>6, <2>2, <2>3 DEF RemoveDispatcher
<1>7. CASE Crash(s)
    BY <1>1, <1>7 DEF Crash, May, inRepo
<1>9. CASE DropManagedDir(s)
    <2>1. /\ UNCHANGED <<approvals, fallback>>
          /\ kept' = [kept EXCEPT ![ps[s].proj] = @ \ ({"managed"} \X Hook)]
        BY <1>9 DEF DropManagedDir, onHost
    <2>2. \A p \in Project, h \in Hook :
             <<"fallback", h>> \in kept[p] => <<"fallback", h>> \in kept'[p]
        BY <1>t, <1>k, <2>1
    <2> QED
        BY <1>1, <2>1, <2>2
<1>8. ~RollbackFile(s)
    BY <1>t DEF RollbackFile, Fit, Sweeping
<1>10. CASE /\ ~SaveApproval(s) /\ ~SaveChain(s) /\ ~SaveRemoval(s) /\ ~WriteDispatcher(s)
            /\ ~RemoveDispatcher(s) /\ ~Crash(s) /\ ~DropManagedDir(s)
    <2>1. UNCHANGED <<approvals, fallback>>
        BY <1>8, <1>10, ZenonT(40)
        DEF CommandStep, Begin, Dispatch, Execute, onHost, inRepo,
            Install, Inspect, Prompt, WriteSnapshot, LoadApprovals, RemoveStale, Build,
            WriteWrapper, SetHooksPath, AddBlock, LoadForChain,
            Uninstall, UninstallInspect, UninstallLoad, UnsetHooksPath, SkipRepository,
            RemoveBlock, RemoveWrapper, LoadForRemoval, RemoveSnapshot,
            Rollback, RollbackLoad, RollbackNext, RollbackRoot
    <2>2. \A p \in Project, h \in Hook :
             <<"fallback", h>> \in kept[p] => <<"fallback", h>> \in kept'[p]
        BY <1>10, KeptStays DEF Places
    <2> QED
        BY <1>1, <2>1, <2>2
<1> QED
    BY <1>2, <1>3, <1>4, <1>5, <1>6, <1>7, <1>9, <1>10

LEMMA UninstallStep ==
    ASSUME ~Overlap, "partialRemoval" \notin Faults, "stuckState" \notin Faults, "tornSave" \notin Faults,
           AgentEdits # "always", "rollback" \notin Modes, OneHookSet
    PROVE  GhTypes /\ GhTypes' /\ UninstallInv /\ [Next]_vars => UninstallInv'
<1> SUFFICES ASSUME GhTypes, GhTypes', UninstallInv, [Next]_vars PROVE UninstallInv'
    OBVIOUS
<1>a. InstallInv'
    BY InstallStep DEF UninstallInv
<1>1. CASE \E s \in Process : CommandStep(s)
    <2>1. PICK s \in Process : CommandStep(s)
        BY <1>1
    <2>2. \A q \in Process : q # s => ps[q].pc = "idle" /\ ps'[q] = ps[q]
        BY <2>1, TakesTurn DEF UninstallInv, InstallInv
    <2>3. \A q \in Process : q # s => UninstallCourse(q)'
        BY <2>2 DEF UninstallCourse
    <2> QED
        BY <1>a, <2>1, <2>3, UninstallKeepsCourse, AccountedKept DEF UninstallInv
<1>2. CASE Agent
    <2>1. /\ \A s \in Process : ps'[s].pc = "idle"
          /\ UNCHANGED <<fallback, kept, approvals>>
        BY <1>2, AgentWaits DEF Agent, AgentEditsBundle, AgentReroutes, AgentEditsOwner, onHost
    <2> QED
        BY <1>a, <2>1 DEF UninstallInv, UninstallCourse, Accounted
<1>3. CASE UNCHANGED vars
    BY <1>a, <1>3 DEF vars, UninstallInv, UninstallCourse, Accounted, Dispatched
<1> QED
    BY <1>1, <1>2, <1>3 DEF Next, CommandStep

LEMMA UninstallInit == Init => UninstallInv
<1> SUFFICES ASSUME Init PROVE UninstallInv
    OBVIOUS
<1>1. \A s \in Process : UninstallCourse(s)
    BY IdleFits DEF Init, UninstallCourse
<1>2. Accounted
    BY DEF Init, Accounted
<1> QED
    BY <1>1, <1>2, InstallInit DEF UninstallInv

\* uninstallProjectHookRuntime: when it is done, also after attempts that were cut short,
\* the record is gone, and of the wrapper, the managed hooks path and the dispatchers only
\* what a removal has failed on or a missing .git directory has hidden is left.  It goes by
\* the hooks of the bundle on record: hence the one set of hooks, and no torn or dropped
\* approvals file, which would lose the list.
THEOREM UninstallsAreWhole ==
    ASSUME ~Overlap, "partialRemoval" \notin Faults, "stuckState" \notin Faults, "tornSave" \notin Faults,
           AgentEdits # "always", "rollback" \notin Modes, OneHookSet
    PROVE  Spec => UninstallRemovesRuntime
<1>1. UninstallInv /\ GhTypes /\ GhTypes' /\ [Next]_vars =>
         [\A s \in Process, p \in Project :
             (p = P(s) /\ RemoveSnapshot(s)) =>
                /\ approvals'[p] = NoRecord
                /\ hooksPath'[p] = "managed" => <<"path">> \in kept'[p]
                /\ \A h \in managed'[p] : <<"managed", h>> \in kept'[p]
                /\ wrapper'[p] => <<"wrapper">> \in kept'[p]
                /\ \A h \in Hook :
                      fallback'[p][h] = "hazmat" => <<"fallback", h>> \in kept'[p]]_vars
    <2> SUFFICES ASSUME UninstallInv, NEW s \in Process, NEW p \in Project, p = P(s),
                        RemoveSnapshot(s)
                 PROVE  /\ approvals'[p] = NoRecord
                        /\ hooksPath'[p] = "managed" => <<"path">> \in kept'[p]
                        /\ \A h \in managed'[p] : <<"managed", h>> \in kept'[p]
                        /\ wrapper'[p] => <<"wrapper">> \in kept'[p]
                        /\ \A h \in Hook :
                              fallback'[p][h] = "hazmat" => <<"fallback", h>> \in kept'[p]
        BY DEF vars
    <2>1. /\ ps[s].pc = "uSnap"
          /\ UNCHANGED <<approvals, hooksPath, managed, fallback, kept, wrapper>>
        BY DEF RemoveSnapshot, At, inRepo
    <2> QED
        BY <2>1 DEF UninstallInv, UninstallCourse, Dispatched, InstallInv, RecordInv, InCourse, P
<1>2. UninstallInv /\ GhTypes /\ GhTypes' /\ [Next]_vars => UninstallInv'
    BY UninstallStep
<1> QED
    BY <1>1, <1>2, UninstallInit, TypesInit, TypesStep, PTL DEF Spec, UninstallRemovesRuntime
=============================================================================
