-------------------------------- MODULE GitTrust --------------------------------
(***************************************************************************)
(* Which repositories the agent's git trusts (git_safe_directory.go and    *)
(* internal/setup/git_safe_directory.go).  Setup and rollback rewrite the  *)
(* lines that hazmat manages in the system's gitconfig, which they read    *)
(* before; a session that finds its repository untrusted adds it to the    *)
(* agent's own gitconfig.  The host user and the agent edit both files.    *)
(***************************************************************************)
CONSTANTS GtDir,     \* directories
          GtBelow,   \* GtBelow[d]: the directories below d
          GtRoots,   \* what session.read_dirs may list
          GtForeign, \* the entries others write into the system's gitconfig
          GtSession

\* An entry names a directory, or everything below it.
GtEntry == [dir : GtDir, below : BOOLEAN]

ASSUME GitTrustAssumption ==
    /\ GtBelow \in [GtDir -> SUBSET GtDir] /\ GtRoots \subseteq GtDir
    /\ GtForeign \subseteq GtEntry

\* A line of the system's gitconfig; hazmat's end with its marker.
GtLine == [entry : GtEntry, managed : BOOLEAN]

VARIABLES
    gtSystem,   \* the safe.directory lines of the system's gitconfig
    gtAgent,    \* the entries of the agent's .gitconfig
    gtReadDirs, \* session.read_dirs
    gtSetup,    \* "idle", or the setup or rollback that is to write
    gtWrites,   \* the lines it will write
    gtNewer,    \* lines that came into the file since it was read
    gtStep,     \* of a session: "idle", "plan", "ensure", "append", "verify",
                \* "running" or "failed"
    gtHalf,     \* the file its check reads next: "system" or "agent"
    gtRepo,     \* its repository
    gtTaken     \* the sessions whose repository lost its trust since they began

gtHost == <<gtReadDirs, gtSetup, gtWrites, gtNewer>>
gtSess == <<gtStep, gtHalf, gtRepo>>

gtVars == <<gtSystem, gtAgent, gtHost, gtSess, gtTaken>>

GtInit ==
    /\ gtSystem \in SUBSET [entry : GtForeign, managed : {FALSE}] /\ gtAgent = {}
    /\ gtReadDirs \in SUBSET GtRoots
    /\ gtSetup = "idle" /\ gtWrites = {} /\ gtNewer = {}
    /\ gtStep = [s \in GtSession |-> "idle"]
    /\ gtHalf = [s \in GtSession |-> "system"]
    /\ gtRepo \in [GtSession -> GtDir]
    /\ gtTaken = {}

EntriesOf(lines) == {l.entry : l \in lines}

\* What git itself takes for trusted: the directory, or one it is under.
GitTrusts(system, agent, repo) ==
    \E e \in EntriesOf(system) \cup agent :
        IF e.below THEN repo \in GtBelow[e.dir] ELSE repo = e.dir

\* Slip: an entry for what is below a directory is taken to cover it too.
CoversBase(entries, repo) ==
    \/ [dir |-> repo, below |-> FALSE] \in entries
    \/ \E e \in entries : e.below /\ (repo = e.dir \/ repo \in GtBelow[e.dir])

safeDirectoryCovers(entries, repo) ==
    \/ [dir |-> repo, below |-> FALSE] \in entries
    \/ \E e \in entries : e.below /\ repo \in GtBelow[e.dir]

\* Whatever changes the files, the sessions whose trust ends with it are noted.
Noting ==
    gtTaken' = gtTaken \cup {s \in GtSession :
                   /\ GitTrusts(gtSystem, gtAgent, gtRepo[s])
                   /\ ~GitTrusts(gtSystem', gtAgent', gtRepo[s])}

----------------------------------------------------------------------------
(* Setup and rollback.                                                     *)

ManagedLines(dirs) == [entry : [dir : dirs, below : {TRUE}], managed : {TRUE}]

\* Slip: the whole section is rewritten, not only the lines with the marker.
RewriteSection(lines, wanted) == ManagedLines(wanted)

rewriteHazmatSafeDirectoryConfig(lines, wanted) ==
    {l \in lines : ~l.managed} \cup ManagedLines(wanted)

\* The file is read; there is nothing to do for an unchanged one, nor, for
\* setup, when no read directories are configured.
ReadConfig(job) ==
    /\ gtSetup = "idle"
    /\ job = "setup" => gtReadDirs # {}
    /\ gtWrites' = rewriteHazmatSafeDirectoryConfig(gtSystem,
                       IF job = "setup" THEN gtReadDirs ELSE {})
    /\ gtWrites' # gtSystem /\ gtSetup' = job /\ gtNewer' = {}
    /\ UNCHANGED <<gtSystem, gtAgent, gtReadDirs, gtSess, gtTaken>>

SetupGitSafeDirectory == ReadConfig("setup")

RollbackGitSafeDirectory == ReadConfig("rollback")

\* The whole file is written; or a step before that fails.
WriteConfig ==
    /\ gtSetup # "idle" /\ gtSetup' = "idle" /\ gtWrites' = {} /\ gtNewer' = {}
    /\ gtSystem' \in {gtWrites, gtSystem}
    /\ UNCHANGED <<gtAgent, gtReadDirs, gtSess>> /\ Noting

----------------------------------------------------------------------------
(* A session.                                                              *)

GtBegin(s) ==
    /\ gtStep[s] \in {"idle", "running", "failed"}
    /\ \E repo \in GtDir : gtRepo' = [gtRepo EXCEPT ![s] = repo]
    /\ gtStep' = [gtStep EXCEPT ![s] = "plan"]
    /\ gtHalf' = [gtHalf EXCEPT ![s] = "system"]
    /\ gtTaken' = gtTaken \ {s}
    /\ UNCHANGED <<gtSystem, gtAgent, gtHost>>

\* A plan that finds the repository trusted has nothing to apply; applying it
\* checks again before the entry is added, and once more after.
Otherwise == [plan |-> "ensure", ensure |-> "append", verify |-> "failed"]

Judge(s, ok) ==
    /\ gtStep' = [gtStep EXCEPT ![s] = IF ok THEN "running" ELSE Otherwise[@]]
    /\ gtHalf' = [gtHalf EXCEPT ![s] = "system"]

\* gitSafeDirectoryTrustedForAgent: the system's file, then the agent's.
\* A file that cannot be read means that the check has no answer.
CheckTrust(s) ==
    /\ gtStep[s] \in DOMAIN Otherwise
    /\ \/ gtHalf[s] = "system" /\ safeDirectoryCovers(EntriesOf(gtSystem), gtRepo[s])
            /\ Judge(s, TRUE)
       \/ gtHalf[s] = "system" /\ ~safeDirectoryCovers(EntriesOf(gtSystem), gtRepo[s])
            /\ gtHalf' = [gtHalf EXCEPT ![s] = "agent"] /\ UNCHANGED gtStep
       \/ gtHalf[s] = "agent" /\ Judge(s, safeDirectoryCovers(gtAgent, gtRepo[s]))
       \/ Judge(s, FALSE)
    /\ UNCHANGED <<gtSystem, gtAgent, gtHost, gtRepo, gtTaken>>

\* git config --add, as the agent.
appendAgentGlobalSafeDirectoryEntry(s) ==
    /\ gtStep[s] = "append"
    /\ \/ /\ gtAgent' = gtAgent \cup {[dir |-> gtRepo[s], below |-> FALSE]}
          /\ gtStep' = [gtStep EXCEPT ![s] = "verify"]
       \/ gtStep' = [gtStep EXCEPT ![s] = "failed"] /\ UNCHANGED gtAgent
    /\ UNCHANGED <<gtSystem, gtHost, gtHalf, gtRepo, gtTaken>>

----------------------------------------------------------------------------
\* The host user edits the configuration and the system's gitconfig; the agent
\* its own.
HostEdits ==
    /\ \/ \E l \in [entry : GtForeign, managed : {FALSE}] :
            /\ gtSystem' = IF l \in gtSystem THEN gtSystem \ {l} ELSE gtSystem \cup {l}
            /\ gtNewer' = IF l \in gtSystem \/ gtSetup = "idle" THEN gtNewer \ {l}
                          ELSE gtNewer \cup {l}
            /\ UNCHANGED gtReadDirs
       \/ gtReadDirs' \in SUBSET GtRoots /\ UNCHANGED <<gtSystem, gtNewer>>
    /\ UNCHANGED <<gtAgent, gtSetup, gtWrites, gtSess>> /\ Noting

AgentEdits ==
    /\ \E d \in GtDir, below \in BOOLEAN :
         gtAgent' \in {gtAgent \cup {[dir |-> d, below |-> below]},
                       gtAgent \ {[dir |-> d, below |-> below]}}
    /\ UNCHANGED <<gtSystem, gtHost, gtSess>> /\ Noting

GtNext ==
    \/ SetupGitSafeDirectory \/ RollbackGitSafeDirectory \/ WriteConfig
    \/ \E s \in GtSession : GtBegin(s) \/ CheckTrust(s)
                              \/ appendAgentGlobalSafeDirectoryEntry(s)
    \/ HostEdits \/ AgentEdits

GtSpec == GtInit /\ [][GtNext]_gtVars

----------------------------------------------------------------------------
GtTypeOK ==
    /\ gtSystem \subseteq GtLine /\ gtAgent \subseteq GtEntry
    /\ gtReadDirs \subseteq GtRoots
    /\ gtSetup \in {"idle", "setup", "rollback"}
    /\ gtWrites \subseteq GtLine /\ gtNewer \subseteq GtLine
    /\ gtStep \in [GtSession -> DOMAIN Otherwise \cup
                                  {"idle", "append", "running", "failed"}]
    /\ gtHalf \in [GtSession -> {"system", "agent"}]
    /\ gtRepo \in [GtSession -> GtDir] /\ gtTaken \subseteq GtSession

\* While a session runs its repository is one that the agent's git trusts, or
\* the trust was taken away since the session began, by an edit or by a setup
\* or a rollback.
SessionTrustsRepo ==
    \A s \in GtSession : gtStep[s] = "running" =>
        GitTrusts(gtSystem, gtAgent, gtRepo[s]) \/ s \in gtTaken

\* Setup and rollback take no line of others out of the system's gitconfig that
\* was there when they read it, and a rollback that wrote leaves none of theirs.
ForeignTrustKept ==
    [][gtSetup # "idle" /\ gtSetup' = "idle" =>
         /\ \A l \in gtSystem \ gtSystem' : l.managed \/ l \in gtNewer
         /\ gtSetup = "rollback" /\ gtSystem' # gtSystem =>
              \A l \in gtSystem' : ~l.managed]_gtVars

\* Sessions rely on lines that setup and rollback rewrite: neither a session nor
\* another program loses the trust it has in the gitconfig that both share
\* (git_safe_directory.go).
TrustHolds == []SessionTrustsRepo /\ ForeignTrustKept
=============================================================================
