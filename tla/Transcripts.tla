---------------------------- MODULE Transcripts ----------------------------
(***************************************************************************)
(* Harness transcripts that cross the boundary between the host user and   *)
(* the agent user: "--resume" and "--continue" copy host transcripts into  *)
(* the agent's home before a session, "hazmat export claude session" hands *)
(* one back. Both read files that a running harness may be appending to.   *)
(* A transcript is its set of records and its modification time; time is   *)
(* counted in half seconds, because the agent's files are read with stat   *)
(* in whole seconds and the host's with full precision. For Codex the      *)
(* agent's directory is shared and read with full precision, and its       *)
(* session index is merged entry by entry.                                 *)
(***************************************************************************)
EXTENDS Naturals, FiniteSets

CONSTANTS
    Transcript,  \* identifiers of the sessions of one project
    MaxRecords,  \* records ever appended, on either side
    MaxTime,     \* the clock stops there
    NoTranscript

ASSUME TranscriptAssumption ==
    NoTranscript \notin Transcript /\ MaxRecords \in Nat /\ MaxTime \in Nat \ {0}

VARIABLES
    trHarness,  \* "claude" or "codex"
    trClock,    \* half seconds
    trCount,    \* records appended so far
    trHost,     \* trHost[t]: the transcript in the host user's home
    trAgent,    \* trAgent[t]: the transcript in the agent's home
    trTodo,     \* transcripts the resume has listed and not yet handled
    trSeen,     \* trSeen[t]: the host file as it was listed
    trStat,     \* the agent's file as it was inspected, for the transcript in hand
    trHand,     \* the transcript in hand, or NoTranscript
    trWrite,    \* it is to be written
    trIndex,    \* Codex's session index: the host's, the agent's, the agent's as read, the merge
    trExport,   \* where the export is
    trPick,     \* the transcript it exports
    trStage,    \* the staged copy: transcript and sidecars
    trSide,     \* the sidecars in the host user's home
    trIndexed,  \* transcripts the host's index lists
    trRacing,   \* the agent's transcript has changed since the export copied it
    trRaced     \* transcripts the host has from an export that was so overtaken

trVars == <<trHarness, trClock, trCount, trHost, trAgent, trTodo, trSeen, trStat, trHand,
            trWrite, trIndex, trExport, trPick, trStage, trSide, trIndexed, trRacing, trRaced>>
trResume == <<trTodo, trSeen, trStat, trHand, trWrite>>
trExporting == <<trExport, trPick, trStage, trIndexed>>
trRaces == <<trRacing, trRaced>>

\* Where a file mentions the agent's directory: nowhere, in the strings of its
\* JSON, in a key, or in bytes that are not JSON.
Mention == {"none", "value", "key", "raw"}

Absent == [kind |-> "missing", recs |-> {}, at |-> 0, whole |-> TRUE]
File(recs, at) == [kind |-> "file", recs |-> recs, at |-> at, whole |-> TRUE]

NoEntries == [t \in Transcript |-> 0]

NoStage == [file |-> Absent, mention |-> "none", side |-> "absent", ready |-> FALSE]

TrInit ==
    /\ trHarness \in {"claude", "codex"}
    /\ trClock = 1 /\ trCount = 0
    /\ trHost = [t \in Transcript |-> Absent]
    /\ \E kind \in {"missing", "symlink", "other"} :
         trAgent = [t \in Transcript |-> [Absent EXCEPT !.kind = kind]]
    /\ trTodo = {} /\ trSeen = [t \in Transcript |-> Absent]
    /\ trStat = Absent /\ trHand = NoTranscript /\ trWrite = FALSE
    /\ trIndex = [host |-> NoEntries, agent |-> NoEntries, read |-> NoEntries, merged |-> NoEntries]
    /\ trExport = "idle" /\ trPick = NoTranscript /\ trStage = NoStage
    /\ trSide = "old"
    /\ trIndexed = {} /\ trRacing = FALSE /\ trRaced = {}

----------------------------------------------------------------------------
(* The harnesses.                                                          *)

\* A harness appends a record to its transcript; a reader may meet the file in
\* the middle of the last line.
Appended(file, whole) ==
    [kind |-> "file", recs |-> file.recs \union {trCount + 1}, at |-> trClock, whole |-> whole]

HostAppends(t) ==
    /\ trCount < MaxRecords /\ trCount' = trCount + 1
    /\ trHost' = [trHost EXCEPT ![t] = Appended(trHost[t], TRUE)]
    /\ trIndex' = [trIndex EXCEPT !.host[t] = IF trHarness = "codex" THEN trClock ELSE 0]
    /\ trRaced' = trRaced \ {t}
    /\ UNCHANGED <<trHarness, trClock, trAgent, trResume, trExporting, trSide, trRacing>>

\* The export has a copy of t that it has yet to install.
Staged(t) == trExport \in {"sidecar", "normalise", "install"} /\ trPick = t

AgentAppends(t) ==
    /\ trCount < MaxRecords /\ trCount' = trCount + 1
    /\ trAgent[t].kind \in {"missing", "file"}
    /\ \E whole \in BOOLEAN : trAgent' = [trAgent EXCEPT ![t] = Appended(trAgent[t], whole)]
    /\ trIndex' = [trIndex EXCEPT !.agent[t] = IF trHarness = "codex" THEN trClock ELSE 0]
    /\ trRacing' = (trRacing \/ (Staged(t) /\ trExport # "install"))
    /\ trRaced' = trRaced \ {t}
    /\ UNCHANGED <<trHarness, trClock, trHost, trResume, trExporting, trSide>>

AgentEndsLine(t) ==
    /\ ~trAgent[t].whole /\ trAgent' = [trAgent EXCEPT ![t].whole = TRUE]
    /\ UNCHANGED <<trHarness, trClock, trCount, trHost, trResume, trExporting, trSide, trIndex,
                   trRaces>>

Tick ==
    /\ trClock < MaxTime /\ trClock' = trClock + 1
    /\ UNCHANGED <<trHarness, trCount, trHost, trAgent, trResume, trExporting, trSide, trIndex,
                   trRaces>>

----------------------------------------------------------------------------
(* Resume.                                                                 *)

Present(files) == {t \in Transcript : files[t].kind = "file"}

Latest(files) == {t \in Present(files) : \A u \in Present(files) : files[u].at <= files[t].at}

\* selectResumeSessionFiles: the one named, or the latest, or all of them.
Selected(files) ==
    {{t} : t \in Present(files)} \union {{t} : t \in Latest(files)} \union {Present(files)}

\* Slip: the host's index is installed as it stands.
TakeHostIndex ==
    /\ trHarness = "codex" /\ trTodo = {} /\ trIndex.merged = NoEntries
    /\ trIndex.host # NoEntries
    /\ trIndex' = [trIndex EXCEPT !.read = trIndex.agent, !.merged = trIndex.host]
    /\ UNCHANGED <<trHarness, trClock, trCount, trHost, trAgent, trResume, trExporting, trSide,
                   trRaces>>

\* syncCodexSessionIndex: nothing to do when the host has no entry; otherwise
\* both indexes are read, and of each entry the newer is kept.
MergeIndex ==
    /\ trHarness = "codex" /\ trTodo = {} /\ trIndex.merged = NoEntries
    /\ trIndex.host # NoEntries
    /\ trIndex' = [trIndex EXCEPT
         !.read = trIndex.agent,
         !.merged = [t \in Transcript |->
            IF trIndex.host[t] > trIndex.agent[t] THEN trIndex.host[t] ELSE trIndex.agent[t]]]
    /\ UNCHANGED <<trHarness, trClock, trCount, trHost, trAgent, trResume, trExporting, trSide,
                   trRaces>>

\* writeCodexSessionIndex replaces the agent's index.
WriteIndex ==
    /\ trIndex.merged # NoEntries
    /\ trIndex' = [trIndex EXCEPT !.agent = trIndex.merged, !.read = NoEntries, !.merged = NoEntries]
    /\ UNCHANGED <<trHarness, trClock, trCount, trHost, trAgent, trResume, trExporting, trSide,
                   trRaces>>

\* listResumeSessionFiles: the host's files, with their times and sizes.
ListHost ==
    /\ trTodo = {}
    /\ trTodo' \in Selected(trHost) \ {{}}
    /\ trSeen' = trHost
    /\ UNCHANGED <<trHarness, trClock, trCount, trHost, trAgent, trStat, trHand, trWrite,
                   trExporting, trSide, trIndex, trRaces>>

\* defaultAgentResumeSessionFileInfo reads whole seconds; Lstat does not.
Truncated(at) == IF trHarness = "claude" THEN (at \div 2) * 2 ELSE at

Inspect(t) ==
    /\ t \in trTodo /\ trHand = NoTranscript
    /\ trHand' = t
    /\ trStat' = [trAgent[t] EXCEPT !.at = Truncated(trAgent[t].at)]
    /\ UNCHANGED <<trHarness, trClock, trCount, trHost, trAgent, trTodo, trSeen, trWrite,
                   trExporting, trSide, trIndex, trRaces>>

\* Sizes as listed and inspected, contents as they are now.
SameContents(t) ==
    /\ Cardinality(trSeen[t].recs) = Cardinality(trStat.recs)
    /\ trHost[t].recs = trAgent[t].recs

\* Slip: a newer file of the same size is taken for an earlier copy.
RefreshSameSize(t) ==
    \/ trStat.kind \in {"missing", "symlink"}
    \/ trSeen[t].at > trStat.at
    \/ trSeen[t].at < trStat.at /\ Cardinality(trSeen[t].recs) = Cardinality(trStat.recs)

\* shouldRefreshAgentResumeSessionFile, shouldRefreshResumeSessionFile.
ShouldRefresh(t) ==
    \/ trStat.kind \in {"missing", "symlink"}
    \/ trSeen[t].at > trStat.at
    \/ trSeen[t].at < trStat.at /\ SameContents(t)

\* The listing is done with.
TrForget == trSeen' = IF trTodo' = {} THEN [t \in Transcript |-> Absent] ELSE trSeen

\* A destination that is neither a file nor a link ends the whole resume; one
\* that is not to be refreshed is left.
Decide(t) ==
    /\ trHand = t /\ ~trWrite
    /\ \/ /\ trStat.kind # "other" /\ ShouldRefresh(t)
          /\ trWrite' = TRUE /\ UNCHANGED <<trTodo, trHand, trStat>>
       \/ /\ trStat.kind = "other" \/ ~ShouldRefresh(t)
          /\ trTodo' = IF trStat.kind = "other" THEN {} ELSE trTodo \ {t}
          /\ trHand' = NoTranscript /\ trStat' = Absent /\ UNCHANGED trWrite
    /\ TrForget
    /\ UNCHANGED <<trHarness, trClock, trCount, trHost, trAgent, trExporting, trSide, trIndex,
                   trRaces>>

\* defaultAgentWriteResumeSessionFile, copyResumeSessionFileWithMode: the
\* content of now under the time that was listed, put in place by a rename.
Write(t) ==
    /\ trHand = t /\ trWrite
    /\ trAgent' = [trAgent EXCEPT ![t] = File(trHost[t].recs, Truncated(trSeen[t].at))]
    /\ trTodo' = trTodo \ {t} /\ trHand' = NoTranscript /\ trStat' = Absent /\ trWrite' = FALSE
    /\ TrForget
    /\ trRacing' = (trRacing \/ Staged(t))
    /\ UNCHANGED <<trHarness, trClock, trCount, trHost, trExporting, trSide, trIndex, trRaced>>

----------------------------------------------------------------------------
(* Export.                                                                 *)

\* The transcript named, or the latest.
ExportSelects ==
    /\ trHarness = "claude" /\ trExport = "idle"
    /\ \E t \in Present(trAgent) : trPick' = t
    /\ trExport' = "copy" /\ trStage' = NoStage
    /\ UNCHANGED <<trHarness, trClock, trCount, trHost, trAgent, trResume, trSide, trIndexed,
                   trIndex, trRaces>>

\* exportAgentClaudeSessionBundle, copyAgentClaudeFile: the manifest, then one
\* file after another, here the transcript. The copy is a new file, with the
\* time of the copying.
StageTranscript ==
    /\ trExport = "copy" /\ trAgent[trPick].kind = "file"
    /\ \E m \in Mention :
         trStage' = [NoStage EXCEPT !.file = [trAgent[trPick] EXCEPT !.at = trClock], !.mention = m]
    /\ trExport' = "sidecar" /\ trRacing' = FALSE
    /\ UNCHANGED <<trHarness, trClock, trCount, trHost, trAgent, trResume, trPick, trSide,
                   trIndexed, trIndex, trRaced>>

StageSidecar ==
    /\ trExport = "sidecar"
    /\ \E m \in Mention \union {"absent"} : trStage' = [trStage EXCEPT !.side = m]
    /\ trExport' = "normalise"
    /\ UNCHANGED <<trHarness, trClock, trCount, trHost, trAgent, trResume, trPick, trSide,
                   trIndexed, trIndex, trRaces>>

\* What is left of a mention after the strings of the JSON are rewritten; a
\* file that is not JSON is left as it is.
Rewritten(m) == IF m = "value" THEN "none" ELSE m

\* Slip: a sidecar is kept as long as it is JSON.
KeptIfJSON(side) == IF side = "raw" THEN "absent" ELSE Rewritten(side)

\* A sidecar in which the path is left is dropped.
KeptSidecar(side) == IF Rewritten(side) \in {"key", "raw"} THEN "absent" ELSE Rewritten(side)

\* normalizeStagedClaudeSessionBundlePaths: a transcript that cannot be
\* cleaned, or does not parse, fails the export; one that is rewritten has the
\* time of the rewriting.
Normalise ==
    /\ trExport = "normalise"
    /\ trStage.file.whole /\ Rewritten(trStage.mention) \notin {"key", "raw"}
    /\ trStage' = [trStage EXCEPT
         !.file.at = IF trStage.mention = Rewritten(trStage.mention) THEN @ ELSE trClock,
         !.mention = Rewritten(trStage.mention),
         !.side = KeptSidecar(trStage.side),
         !.ready = TRUE]
    /\ trExport' = "install"
    /\ UNCHANGED <<trHarness, trClock, trCount, trHost, trAgent, trResume, trPick, trSide,
                   trIndexed, trIndex, trRaces>>

ExportFails ==
    /\ trExport \in {"copy", "sidecar", "normalise"}
    /\ trExport' = "idle" /\ trPick' = NoTranscript /\ trStage' = NoStage
    /\ trRacing' = FALSE
    /\ UNCHANGED <<trHarness, trClock, trCount, trHost, trAgent, trResume, trSide, trIndexed,
                   trIndex, trRaced>>

\* installStagedClaudeSessionBundle: the transcript first, whatever the host's
\* copy holds, with the time of the staged copy; then the sidecars are removed
\* and, if any, copied.
InstallTranscript ==
    /\ trExport = "install"
    /\ trHost' = [trHost EXCEPT ![trPick] = File(trStage.file.recs, trStage.file.at)]
    /\ trExport' = "clear"
    /\ trRaced' = IF trRacing THEN trRaced \union {trPick} ELSE trRaced \ {trPick}
    /\ trRacing' = FALSE
    /\ UNCHANGED <<trHarness, trClock, trCount, trAgent, trResume, trPick, trStage, trSide,
                   trIndexed, trIndex>>

ClearSidecars ==
    /\ trExport = "clear"
    /\ trSide' = "absent"
    /\ trExport' = IF trStage.side = "absent" THEN "index" ELSE "bundle"
    /\ UNCHANGED <<trHarness, trClock, trCount, trHost, trAgent, trResume, trPick, trStage,
                   trIndexed, trIndex, trRaces>>

CopySidecars ==
    /\ trExport = "bundle"
    /\ trSide' = trStage.side
    /\ trExport' = "index"
    /\ UNCHANGED <<trHarness, trClock, trCount, trHost, trAgent, trResume, trPick, trStage,
                   trIndexed, trIndex, trRaces>>

\* upsertClaudeSessionsIndex.
UpsertIndex ==
    /\ trExport = "index"
    /\ trIndexed' = trIndexed \union {trPick}
    /\ trExport' = "idle" /\ trPick' = NoTranscript /\ trStage' = NoStage
    /\ UNCHANGED <<trHarness, trClock, trCount, trHost, trAgent, trResume, trSide, trIndex,
                   trRaces>>

\* The export dies, or one of its last steps fails.
ExportDies ==
    /\ trExport \in {"install", "clear", "bundle", "index"}
    /\ trExport' = "idle" /\ trPick' = NoTranscript /\ trStage' = NoStage
    /\ trRacing' = FALSE
    /\ UNCHANGED <<trHarness, trClock, trCount, trHost, trAgent, trResume, trSide, trIndexed,
                   trIndex, trRaced>>

TrNext ==
    \/ Tick \/ ListHost \/ MergeIndex \/ WriteIndex
    \/ \E t \in Transcript :
         \/ HostAppends(t) \/ AgentAppends(t) \/ AgentEndsLine(t)
         \/ Inspect(t) \/ Decide(t) \/ Write(t)
    \/ ExportSelects \/ StageTranscript \/ StageSidecar \/ Normalise \/ ExportFails
    \/ InstallTranscript \/ ClearSidecars \/ CopySidecars \/ UpsertIndex \/ ExportDies

TrSpec == TrInit /\ [][TrNext]_trVars

----------------------------------------------------------------------------
FileType == [kind : {"missing", "symlink", "other", "file"}, recs : SUBSET (1..MaxRecords),
             at : 0..MaxTime, whole : BOOLEAN]

\* The state has its types, and at most one transcript is in hand.
TrTypeOK ==
    /\ trHarness \in {"claude", "codex"} /\ trClock \in 1..MaxTime /\ trCount \in 0..MaxRecords
    /\ trHost \in [Transcript -> FileType] /\ trAgent \in [Transcript -> FileType]
    /\ trSeen \in [Transcript -> FileType] /\ trStat \in FileType
    /\ trTodo \subseteq Transcript /\ trHand \in trTodo \union {NoTranscript}
    /\ trWrite => trHand # NoTranscript
    /\ trExport \in {"idle", "copy", "sidecar", "normalise", "install", "clear", "bundle", "index"}
    /\ trPick \in IF trExport = "idle" THEN {NoTranscript} ELSE Transcript
    /\ trIndexed \subseteq Transcript /\ trRacing \in BOOLEAN /\ trRaced \subseteq Transcript

\* A resume does not overwrite a continuation that is newer than the host's
\* transcript, and a merge of Codex's index loses and ages no entry, provided
\* the agent did not write, and no export replaced the host's file, while the
\* resume was deciding: syncResumeSession promises that "Newer divergent files
\* are kept intact". Newer means by a whole second, as stat shows it for Claude.
NewerContinuationKept ==
    [][/\ \A t \in Transcript :
            /\ trWrite /\ trHand = t /\ trAgent'[t] # trAgent[t] /\ ~trWrite'
            /\ trAgent[t].recs = trStat.recs /\ trSeen[t].recs \subseteq trHost[t].recs
            /\ Truncated(trAgent[t].at) > trSeen[t].at
            => trAgent[t].recs \subseteq trAgent'[t].recs
       /\ trIndex.merged # NoEntries /\ trIndex'.merged = NoEntries /\ trIndex.agent = trIndex.read
            => \A t \in Transcript : trIndex'.agent[t] >= trIndex.agent[t]]_trVars

\* A resume overwrites no continuation of the transcript the host has, one that
\* holds all of its records and more, provided the host's file is the one it has
\* listed and the agent did not write since it looked. Excepted is what the code
\* cannot tell apart, since an exported transcript has the time of the export
\* (export.go:430): what the agent wrote while the export was under way, or in
\* the same second.
ContinuationKept ==
    [][\A t \in Transcript :
            /\ trWrite /\ trHand = t /\ ~trWrite'
            /\ trAgent[t].recs = trStat.recs /\ trSeen[t] = trHost[t]
            /\ trHost[t].recs \subseteq trAgent[t].recs /\ trAgent'[t].recs # trAgent[t].recs
            => t \in trRaced \/ trAgent[t].at \div 2 = trHost[t].at \div 2]_trVars

\* What an export has installed on the host's side mentions no path of the
\* agent: not in the transcript, which would fail the export, and not in a
\* sidecar, which would be left out.
ExportMentionsNoAgentPath ==
    /\ trSide \in {"absent", "old", "none"}
    /\ trExport \in {"clear", "bundle", "index"} => trStage.mention = "none"

\* What docs/usage.md says of a resume: "Existing agent-local files are not
\* overwritten, so contained continuations stay independent once they diverge".
\* Files written within the same second are left aside.
DivergedContinuationKept ==
    [][\A t \in Transcript :
         trWrite /\ trHand = t /\ trHand' = NoTranscript /\ trAgent[t].kind = "file"
         /\ trSeen[t].at \div 2 # trAgent[t].at \div 2
         => \/ trAgent[t].recs \subseteq trAgent'[t].recs
            \/ trAgent[t].recs # trStat.recs]_trVars

\* What passing transcripts between the homes owes both: newer continuations
\* stay, and what is exported is fit to be read.
TranscriptsKept ==
    []ExportMentionsNoAgentPath /\ NewerContinuationKept /\ ContinuationKept
=============================================================================
