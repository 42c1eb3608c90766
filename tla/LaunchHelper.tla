---- MODULE LaunchHelper ----
(***************************************************************************)
(* The macOS launch helper: the host writes a policy file and builds an    *)
(* argument list (internal/runtime/darwin), and hazmat-launch, in its Go   *)
(* version or the experimental C one, takes that list apart again, checks  *)
(* the policy, sandboxes itself and execs the command.                     *)
(*                                                                         *)
(* Words of the argument list are strings; an option consumes the words    *)
(* the code consumes, one option per step.  Every system call may fail,    *)
(* and then the helper exits without going further.                        *)
(***************************************************************************)
EXTENDS Naturals, Sequences

CONSTANTS LhWord,       \* words
          CommandLines, \* the words a session may ask to run; a command may
                        \* well take the helper's own options
          EnvLists      \* the NAME=value pairs of a session's environment

\* The words the host adds.
HostWords == {"--hazmat-launch-profile", "--hazmat-current-user", "policy",
              "--hazmat-metadata-json", "{}", "--hazmat-session-temp", "tmp",
              "--hazmat-direct-exec", "--hazmat-working-dir", "dir",
              "--hazmat-env", "--", "/usr/bin/env", "-i", "/bin/zsh", "-lc",
              "script", "zsh"}

ASSUME LaunchHelperAssumption ==
    /\ HostWords \subseteq LhWord
    /\ CommandLines \subseteq Seq(LhWord) /\ CommandLines # {}
    /\ EnvLists \subseteq Seq(LhWord) /\ EnvLists # {}

\* The helper that is installed.
Helpers == {"hazmat-launch", "hazmat-launch-fast"}

VARIABLES
    lhReq,      \* what the session asked for
    lhHelper,   \* which helper runs
    lhFile,     \* the policy file: "none", "narrow" (mode masked), "ready"
    lhPc,       \* "write", "chmod", "mode", "parse", "policy", "read", "temp",
                \* "sandbox", "metadata", "exec", "direct", "running", "dead"
    lhWords,    \* the words not yet parsed
    lhParsed,   \* the helper's parsed options
    lhTemp,     \* TRUE once the session's temp directory is made
    lhSandbox,  \* TRUE once sandbox_init took the policy
    lhMetadata  \* TRUE once the metadata line is out

lhVars == <<lhReq, lhHelper, lhFile, lhPc, lhWords, lhParsed, lhTemp,
            lhSandbox, lhMetadata>>

NothingParsed == [profile |-> FALSE, current |-> FALSE, metadata |-> FALSE,
                  temp |-> FALSE, direct |-> FALSE, dir |-> FALSE,
                  env |-> <<>>, command |-> <<>>]

-----------------------------------------------------------------------------
(* The host's side.                                                        *)

Option(asked, words) == IF asked THEN words ELSE <<>>

\* "--hazmat-env" before each pair.
EnvWords(pairs) ==
    [i \in 1 .. 2 * Len(pairs) |->
        IF i % 2 = 1 THEN "--hazmat-env" ELSE pairs[i \div 2]]

\* Slip: no "--" between the options and the command.
WithoutTerminator(req) ==
    <<"--hazmat-direct-exec", "--hazmat-working-dir", "dir">>
      \o EnvWords(req.env) \o req.args
DirectExecWords(req) ==
    <<"--hazmat-direct-exec", "--hazmat-working-dir", "dir">>
      \o EnvWords(req.env) \o <<"--">> \o req.args

\* Without direct exec env and a shell are the command and the pairs are
\* their words.
CommandLaunchHelperArgsWithoutBinary(req) ==
    <<"policy">>
      \o Option(req.metadata, <<"--hazmat-metadata-json", "{}">>)
      \o Option(req.temp, <<"--hazmat-session-temp", "tmp">>)
      \o (IF req.direct
          THEN DirectExecWords(req)
          ELSE <<"/usr/bin/env", "-i">> \o req.env
                 \o <<"/bin/zsh", "-lc", "script", "zsh">> \o req.args)

\* The command as the request means it.
Meant(req) ==
    IF req.direct THEN req.args
    ELSE <<"/usr/bin/env", "-i">> \o req.env
           \o <<"/bin/zsh", "-lc", "script", "zsh">> \o req.args

CommandSudoArgs(req) ==
    Option(req.profile, <<"--hazmat-launch-profile">>)
      \o Option(req.current, <<"--hazmat-current-user">>)
      \o CommandLaunchHelperArgsWithoutBinary(req)

\* A current-user launch has no session temp directory.
LhInit ==
    /\ lhReq \in {r \in [profile : BOOLEAN, current : BOOLEAN, metadata : BOOLEAN,
                         temp : BOOLEAN, direct : BOOLEAN,
                         env : EnvLists, args : CommandLines] :
                      r.current => ~r.temp}
    /\ lhHelper \in Helpers
    /\ lhFile = "none"
    /\ lhPc = "write"
    /\ lhWords = CommandSudoArgs(lhReq)
    /\ lhParsed = NothingParsed
    /\ lhTemp = FALSE
    /\ lhSandbox = FALSE
    /\ lhMetadata = FALSE

\* The policy is compiled and written; the umask may narrow its mode.
PreparePolicy ==
    /\ lhPc = "write"
    /\ lhFile' \in {"narrow", "ready"}
    /\ lhPc' = "chmod"
    /\ UNCHANGED <<lhReq, lhHelper, lhWords, lhParsed, lhTemp, lhSandbox, lhMetadata>>

\* The mode is set, and the helper is started; a failure removes the file.
ChmodPolicy ==
    /\ lhPc = "chmod"
    /\ \/ lhFile' = "ready" /\ lhPc' = "mode"
       \/ lhFile' = "none" /\ lhPc' = "dead"
    /\ UNCHANGED <<lhReq, lhHelper, lhWords, lhParsed, lhTemp, lhSandbox, lhMetadata>>

-----------------------------------------------------------------------------
(* The helper.                                                             *)

\* The helper exits.  Anywhere: each of its calls may fail.
Die ==
    /\ lhPc \in {"mode", "parse", "policy", "read", "temp", "sandbox",
                "metadata", "exec", "direct"}
    /\ lhPc' = "dead"
    /\ UNCHANGED <<lhReq, lhHelper, lhFile, lhWords, lhParsed, lhTemp, lhSandbox,
                   lhMetadata>>

\* The words in front of the policy path.  The C helper knows the profile
\* option only, and only once; the Go helper takes both, in any order.
parseHelperModeArgs ==
    /\ lhPc = "mode"
    /\ IF lhWords # <<>> /\ Head(lhWords) = "--hazmat-launch-profile"
          /\ (lhHelper = "hazmat-launch-fast" => ~lhParsed.profile)
       THEN /\ lhParsed' = [lhParsed EXCEPT !.profile = TRUE]
            /\ lhWords' = Tail(lhWords)
            /\ UNCHANGED lhPc
       ELSE IF lhWords # <<>> /\ Head(lhWords) = "--hazmat-current-user"
                 /\ lhHelper = "hazmat-launch"
       THEN /\ lhParsed' = [lhParsed EXCEPT !.current = TRUE]
            /\ lhWords' = Tail(lhWords)
            /\ UNCHANGED lhPc
       ELSE \* the policy path, which the pattern must match, and more words
            /\ lhPc' = IF Len(lhWords) >= 2 /\ Head(lhWords) = "policy"
                       THEN "parse" ELSE "dead"
            /\ lhWords' = IF lhWords = <<>> THEN <<>> ELSE Tail(lhWords)
            /\ UNCHANGED lhParsed
    /\ UNCHANGED <<lhReq, lhHelper, lhFile, lhTemp, lhSandbox, lhMetadata>>

\* The options that take a value, and what they set.
Takes(word, value) ==
    CASE word = "--hazmat-metadata-json" -> [lhParsed EXCEPT !.metadata = TRUE]
      [] word = "--hazmat-session-temp"  -> [lhParsed EXCEPT !.temp = TRUE]
      [] word = "--hazmat-working-dir"   -> [lhParsed EXCEPT !.dir = TRUE]
      [] word = "--hazmat-env" -> [lhParsed EXCEPT !.env = Append(@, value)]
ValueOptions == {"--hazmat-metadata-json", "--hazmat-session-temp",
                 "--hazmat-working-dir", "--hazmat-env"}

\* The words needed after an option: its value, and behind the metadata a
\* command as well.
Needed(word) == IF word = "--hazmat-metadata-json" THEN 3 ELSE 2

\* One option of the launch mode.
parseOption ==
    /\ lhPc = "parse"
    /\ lhWords # <<>>
    /\ \/ /\ Head(lhWords) \in ValueOptions
          /\ Len(lhWords) >= Needed(Head(lhWords))
          /\ lhParsed' = Takes(Head(lhWords), lhWords[2])
          /\ lhWords' = SubSeq(lhWords, 3, Len(lhWords))
       \/ /\ Head(lhWords) = "--hazmat-direct-exec"
          /\ lhParsed' = [lhParsed EXCEPT !.direct = TRUE]
          /\ lhWords' = Tail(lhWords)
    /\ UNCHANGED <<lhReq, lhHelper, lhFile, lhPc, lhTemp, lhSandbox, lhMetadata>>

\* The rest is the command, after "--" or from the first word that is no
\* option.  Without one, or for a direct exec with no directory, it exits.
parseCommand ==
    /\ lhPc = "parse"
    /\ IF lhWords = <<>> THEN TRUE
       ELSE Head(lhWords) \notin ValueOptions \cup {"--hazmat-direct-exec"}
    /\ LET command == IF lhWords # <<>> /\ Head(lhWords) = "--"
                      THEN Tail(lhWords) ELSE lhWords
       IN  /\ lhParsed' = [lhParsed EXCEPT !.command = command]
           /\ lhPc' = IF command = <<>> \/ (lhParsed.direct /\ ~lhParsed.dir)
                      THEN "dead" ELSE "policy"
    /\ lhWords' = <<>>
    /\ UNCHANGED <<lhReq, lhHelper, lhFile, lhTemp, lhSandbox, lhMetadata>>

\* The path is stat'ed, its owner and its mode compared.  The expected owner
\* is the invoking user of sudo, or on the current-user lane the user itself.
StatPolicy ==
    /\ lhPc = "policy"
    /\ lhFile = "ready"
    /\ lhPc' = "read"
    /\ UNCHANGED <<lhReq, lhHelper, lhFile, lhWords, lhParsed, lhTemp, lhSandbox,
                   lhMetadata>>

\* Then it is opened and read, and must deny by default.
ReadPolicy ==
    /\ lhPc = "read"
    /\ lhFile = "ready"
    /\ lhPc' = IF lhParsed.temp THEN "temp" ELSE "sandbox"
    /\ UNCHANGED <<lhReq, lhHelper, lhFile, lhWords, lhParsed, lhTemp, lhSandbox,
                   lhMetadata>>

\* The directory must be a new one of a generated name.
prepareSessionTempDir ==
    /\ lhPc = "temp"
    /\ lhTemp' = TRUE
    /\ lhPc' = "sandbox"
    /\ UNCHANGED <<lhReq, lhHelper, lhFile, lhWords, lhParsed, lhSandbox, lhMetadata>>

\* Slip: the metadata is written first.
MetadataFirst ==
    /\ lhPc = "sandbox"
    /\ lhSandbox' = lhSandbox
    /\ lhMetadata' = lhParsed.metadata
    /\ lhPc' = "metadata"
    /\ UNCHANGED <<lhReq, lhHelper, lhFile, lhWords, lhParsed, lhTemp>>
sandboxInit ==
    /\ lhPc = "sandbox"
    /\ lhSandbox' = TRUE
    /\ lhPc' = IF lhParsed.metadata THEN "metadata" ELSE "exec"
    /\ UNCHANGED <<lhReq, lhHelper, lhFile, lhWords, lhParsed, lhTemp, lhMetadata>>

WriteMetadata ==
    /\ lhPc = "metadata"
    /\ lhMetadata' = TRUE
    /\ lhPc' = "exec"
    /\ UNCHANGED <<lhReq, lhHelper, lhFile, lhWords, lhParsed, lhTemp, lhSandbox>>

\* A direct exec replaces the environment by the pairs and changes the
\* directory.
setDirectEnv ==
    /\ lhPc = "exec"
    /\ lhParsed.direct
    /\ lhPc' = "direct"
    /\ UNCHANGED <<lhReq, lhHelper, lhFile, lhWords, lhParsed, lhTemp, lhSandbox,
                   lhMetadata>>

\* The command is looked up and takes the helper's place.
execCommand ==
    /\ lhPc = IF lhParsed.direct THEN "direct" ELSE "exec"
    /\ lhPc' = "running"
    /\ UNCHANGED <<lhReq, lhHelper, lhFile, lhWords, lhParsed, lhTemp, lhSandbox,
                   lhMetadata>>

\* The host's launch returned and its artifact is cleaned up.
CleanupPolicy ==
    /\ lhPc \in {"running", "dead"}
    /\ lhFile # "none"
    /\ lhFile' = "none"
    /\ UNCHANGED <<lhReq, lhHelper, lhPc, lhWords, lhParsed, lhTemp, lhSandbox,
                   lhMetadata>>

LhNext ==
    \/ PreparePolicy \/ ChmodPolicy \/ Die \/ parseHelperModeArgs
    \/ parseOption \/ parseCommand \/ StatPolicy \/ ReadPolicy
    \/ prepareSessionTempDir \/ sandboxInit \/ WriteMetadata
    \/ setDirectEnv \/ execCommand
    \/ CleanupPolicy

LhSpec == LhInit /\ [][LhNext]_lhVars

-----------------------------------------------------------------------------

\* Every variable keeps its type.
LhTypeOK ==
    /\ lhHelper \in Helpers
    /\ lhFile \in {"none", "narrow", "ready"}
    /\ lhPc \in {"write", "chmod", "mode", "parse", "policy", "temp", "sandbox",
                 "read", "metadata", "exec", "direct", "running", "dead"}
    /\ lhTemp \in BOOLEAN /\ lhSandbox \in BOOLEAN /\ lhMetadata \in BOOLEAN

\* Host and helper agree on the argument list, whichever helper is installed:
\* what runs is the command asked for, with the environment and the temp
\* directory asked for, sandboxed, and no metadata line claims a sandbox that
\* was not applied (native_launch_darwin.go:44).
RunsWhatWasAsked ==
    /\ lhPc = "running" =>
          /\ lhSandbox
          /\ lhParsed.command = Meant(lhReq)
          /\ lhParsed.direct = lhReq.direct
          /\ lhReq.direct => lhParsed.env = lhReq.env
          /\ lhTemp = lhReq.temp
          /\ lhMetadata = lhReq.metadata
          /\ lhParsed.current = lhReq.current
    /\ lhMetadata => lhSandbox
====
