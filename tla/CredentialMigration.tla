------------------------ MODULE CredentialMigration ------------------------
(***************************************************************************)
(* The old places of credentials and the commands that empty them into the *)
(* host-owned secret store: "hazmat migrate credentials", the launch of a  *)
(* session, "hazmat config agent"; and the inventory that says what still  *)
(* needs repair. Every one reads, decides and writes without a lock, and   *)
(* every file is truncated and then filled, so a crash leaves it empty.    *)
(* The harness credentials the same command moves are in HarnessAuth.      *)
(***************************************************************************)
EXTENDS Naturals, FiniteSets, Sequences

CONSTANTS
    CmProc,        \* processes
    EnvVar,        \* provider API-key variables
    MaxCmCommands    \* commands begun

\* The slots of the store that are not variables have names of their own.
ASSUME CmAssumption ==
    EnvVar \cap {"access", "recovery", "secret", "https", "ssh"} = {}

Secret == {"x", "y", "z"}
Slot == EnvVar \union {"access", "recovery", "secret"}
Fields == {"access", "recovery", "password"}

VARIABLES
    cmDisk,    \* every file that holds a credential
    cmRun,     \* cmRun[p]: the command p runs and what it has read
    cmQuiet,   \* history: no other process changed a file since p last read
    cmCount    \* commands begun so far

cmVars == <<cmDisk, cmRun, cmQuiet, cmCount>>

Clean == [export |-> [v \in EnvVar |-> "none"],   \* agent's .zshrc
          store |-> [s \in Slot |-> "none"],      \* ~/.hazmat/secrets
          arch |-> [s \in Slot |-> {}],           \* .conflicts beside it
          conf |-> [f \in Fields |-> "none"],     \* backup.cloud of config.yaml
          file |-> "none",                        \* the legacy cloud key file
          host |-> {}, agent |-> {},              \* Git HTTPS lines
          helper |-> FALSE,                       \* agent's .gitconfig names a helper
          old |-> {}, new |-> {}, karch |-> {},   \* Git SSH key directories
          oldRoot |-> "none", newRoot |-> FALSE]

Idle == [prog |-> "none", at |-> "idle", todo |-> {}, var |-> "none", got |-> {},
         saw |-> {}, trouble |-> FALSE, alone |-> FALSE]

\* What older versions leave: API keys, Git HTTPS, cloud or Git SSH residue.
CmInit ==
    /\ \/ \E e \in [EnvVar -> {"none", "x", "bad"}], s \in [EnvVar -> {"none", "x", "y"}] :
            cmDisk = [Clean EXCEPT !.export = e,
                        !.store = [i \in Slot |-> IF i \in EnvVar THEN s[i] ELSE "none"]]
       \/ \E a \in SUBSET {"l1", "l2"}, h \in SUBSET {"l2", "l3"}, b \in BOOLEAN :
            cmDisk = [Clean EXCEPT !.agent = a, !.host = h, !.helper = b]
       \/ \E c \in [Fields -> {"none", "x"}], f \in {"none", "blank", "x"},
             s \in {"none", "x", "y"} :
            cmDisk = [Clean EXCEPT !.conf = c, !.file = f, !.store["secret"] = s]
       \/ \E o \in SUBSET {"d1", "d2", "note"}, n \in SUBSET {"d1"}, r \in BOOLEAN,
             root \in {"dir", "other"} :
            /\ (root = "other" => o = {}) /\ (~r => n = {})
            /\ cmDisk = [Clean EXCEPT !.old = o, !.oldRoot = root, !.newRoot = r,
                                      !.new = n \X {"new"}]
    /\ cmRun = [p \in CmProc |-> Idle] /\ cmQuiet = [p \in CmProc |-> TRUE] /\ cmCount = 0

----------------------------------------------------------------------------
(* Steps. Each writes one file, or fails to, or crashes having truncated   *)
(* the file: torn is the disk it then leaves.                              *)

Reading == {"keys", "ask", "https", "cloud", "cloudFile", "ssh"}
Settled == {"helper", "session", "done", "crashed"}

\* What was read is of use only until the next thing is read.
At(run, at) == IF at \in Reading \union Settled
               THEN [run EXCEPT !.at = at, !.var = "none", !.got = {}, !.saw = {}]
               ELSE [run EXCEPT !.at = at]

Goes(p, at) == cmRun' = [cmRun EXCEPT ![p] = At(@, at)]
Reads(p, at, got, saw) ==
    cmRun' = [cmRun EXCEPT ![p].at = at, ![p].got = got, ![p].saw = saw]
Fails(p, at) ==
    cmRun' = [cmRun EXCEPT ![p] = [At(@, at) EXCEPT !.trouble = TRUE]] /\ UNCHANGED cmDisk
Dies(p, torn) == cmDisk' = torn /\ Goes(p, "crashed")

CmWrites(p, next, disk, onError, torn) ==
    \/ cmDisk' = disk /\ Goes(p, next)
    \/ Fails(p, onError)
    \/ Dies(p, torn)

\* A process starts a command; nobody is alone any more.
CmStart(p, prog, at) ==
    /\ cmRun[p].at = "idle" /\ cmCount < MaxCmCommands
    /\ cmRun' = [q \in CmProc |->
          IF q = p THEN [Idle EXCEPT !.prog = prog, !.at = at, !.todo = IF at = "keys" THEN EnvVar ELSE {},
                            !.alone = \A r \in CmProc \ {p} : cmRun[r].at = "idle"]
          ELSE [cmRun[q] EXCEPT !.alone = FALSE]]
    /\ UNCHANGED cmDisk

runMigrateCredentials(p) == CmStart(p, "migrate", "keys") \/ CmStart(p, "cloud", "cloud")
LaunchSession(p) == CmStart(p, "launch", "keys")
runConfigAgent(p) == CmStart(p, "config", "ask")

----------------------------------------------------------------------------
(* Provider API keys.                                                      *)

CmPresent(value) == value \in Secret

\* The next variable. A launch looks for the export only when the store has
\* nothing; the migration compares the two.
NextKey(p) ==
    LET run == cmRun[p] IN
    /\ run.at = "keys"
    /\ IF run.todo = {} THEN Goes(p, "https")
       ELSE \E v \in run.todo :
              LET old == cmDisk.export[v]   stored == cmDisk.store[v]
                  skip == \/ old = "none"
                          \/ run.prog = "launch" /\ (CmPresent(stored) \/ old = "bad")
                  at == IF skip THEN "keys"
                        ELSE IF old = "bad" THEN "keys"
                        ELSE IF ~CmPresent(stored) THEN "keyStore"
                        ELSE IF stored = old THEN "keyRemove" ELSE "keyArchive"
              IN cmRun' = [cmRun EXCEPT ![p] =
                    At([run EXCEPT !.todo = @ \ {v}, !.var = v, !.got = {old},
                          !.trouble = @ \/ (~skip /\ old = "bad")], at)]
    /\ UNCHANGED cmDisk

storeHostAPIKey(p) ==
    /\ cmRun[p].at = "keyStore"
    /\ \E value \in cmRun[p].got :
         CmWrites(p, "keyRemove", [cmDisk EXCEPT !.store[cmRun[p].var] = value],
                "keys", [cmDisk EXCEPT !.store[cmRun[p].var] = "blank"])

preserveSecretStoreConflict(p) ==
    /\ cmRun[p].at = "keyArchive"
    /\ LET v == cmRun[p].var IN
       CmWrites(p, "keyRemove", [cmDisk EXCEPT !.arch[v] = @ \union cmRun[p].got], "keys", cmDisk)

\* updateAgentFile rewrites .zshrc in place without the variable's line.
removeLegacyAPIKeyExports(p) ==
    /\ cmRun[p].at = "keyRemove"
    /\ CmWrites(p, "keys", [cmDisk EXCEPT !.export[cmRun[p].var] = "none"], "keys",
              [cmDisk EXCEPT !.export = [v \in EnvVar |-> "none"]])

----------------------------------------------------------------------------
(* "hazmat config agent". It asks about every variable first: Enter keeps  *)
(* what it shows, which migrates an export, or the user types a new key.   *)

collectHarnessAPIKey(v) ==
    LET stored == cmDisk.store[v]   old == cmDisk.export[v] IN
    IF CmPresent(stored) THEN {"none", "z"}
    ELSE IF CmPresent(old) THEN {old, "z"} ELSE {"none", "z"}

CmAsk(p) ==
    /\ cmRun[p].at = "ask"
    /\ \E answer \in [EnvVar -> Secret \union {"none"}] :
         /\ \A v \in EnvVar : answer[v] \in collectHarnessAPIKey(v)
         /\ LET typed == {v \in EnvVar : answer[v] # "none"} IN
            cmRun' = [cmRun EXCEPT ![p] = [@ EXCEPT
               !.at = "configStore", !.todo = typed,
               !.got = {<<v, answer[v]>> : v \in typed},
               \* removableLegacyAPIKeyEnvVars
               !.saw = typed \union {v \in EnvVar : CmPresent(cmDisk.store[v])}]]
    /\ UNCHANGED cmDisk

StoreAnswers(p) ==
    LET run == cmRun[p] IN
    /\ run.at = "configStore"
    /\ \/ run.todo = {} /\ Goes(p, "configRemove") /\ UNCHANGED cmDisk
       \/ \E answer \in run.got :
            LET v == answer[1] IN
            /\ v \in run.todo
            /\ \/ /\ cmDisk' = [cmDisk EXCEPT !.store[v] = answer[2]]
                  /\ cmRun' = [cmRun EXCEPT ![p].todo = @ \ {v}]
               \/ Fails(p, "done")
               \/ Dies(p, [cmDisk EXCEPT !.store[v] = "blank"])

\* Every export of a variable with a stored key goes, without an archive.
RemoveExports(p) ==
    /\ cmRun[p].at = "configRemove"
    /\ CmWrites(p, "helper",
              [cmDisk EXCEPT !.export = [v \in EnvVar |->
                                  IF v \in cmRun[p].saw THEN "none" ELSE @[v]]],
              "done", [cmDisk EXCEPT !.export = [v \in EnvVar |-> "none"]])

----------------------------------------------------------------------------
(* Git HTTPS.                                                              *)

AfterHTTPS(p) == IF cmRun[p].prog = "launch" THEN "session" ELSE "helper"
HTTPSError(p) == IF cmRun[p].prog = "launch" THEN "done" ELSE "helper"

ReadHTTPS(p) ==
    /\ cmRun[p].at = "https"
    /\ IF cmDisk.agent = {} THEN Goes(p, AfterHTTPS(p))
       ELSE Reads(p, IF cmDisk.agent \subseteq cmDisk.host THEN "httpsRemove" ELSE "httpsWrite",
                  cmDisk.agent, cmDisk.host)
    /\ UNCHANGED cmDisk

\* Slip: the lines of the agent replace those of the host.
WriteLegacyLines(p) ==
    /\ cmRun[p].at = "httpsWrite"
    /\ CmWrites(p, "httpsRemove", [cmDisk EXCEPT !.host = cmRun[p].got],
              HTTPSError(p), [cmDisk EXCEPT !.host = {}])

\* mergeGitCredentialStoreLines, of what was read.
mergeGitCredentialStoreLines(p) ==
    /\ cmRun[p].at = "httpsWrite"
    /\ CmWrites(p, "httpsRemove", [cmDisk EXCEPT !.host = cmRun[p].saw \union cmRun[p].got],
              HTTPSError(p), [cmDisk EXCEPT !.host = {}])

RemoveHTTPS(p) ==
    /\ cmRun[p].at = "httpsRemove"
    /\ CmWrites(p, AfterHTTPS(p), [cmDisk EXCEPT !.agent = {}], HTTPSError(p), cmDisk)

\* Slip: the helper is removed only when there are lines it may have written.
HelperWithLines(p) ==
    /\ cmRun[p].at = "helper"
    /\ IF cmDisk.host = {} THEN Goes(p, "cloud") /\ UNCHANGED cmDisk
       ELSE CmWrites(p, "cloud", [cmDisk EXCEPT !.helper = FALSE], "cloud", cmDisk)

RemoveHelper(p) ==
    LET next == IF cmRun[p].prog = "config" THEN "done" ELSE "cloud" IN
    /\ cmRun[p].at = "helper"
    /\ IF ~cmDisk.helper THEN Goes(p, next) /\ UNCHANGED cmDisk
       ELSE CmWrites(p, next, [cmDisk EXCEPT !.helper = FALSE], next, [cmDisk EXCEPT !.helper = FALSE])

\* The session's broker: git credential-store, which replaces its file whole.
runGitHTTPSCredentialStore(p) ==
    /\ cmRun[p].at = "session"
    /\ \/ cmDisk' = [cmDisk EXCEPT !.host = @ \union {"l4"}] /\ UNCHANGED cmRun
       \/ \E l \in cmDisk.host : cmDisk' = [cmDisk EXCEPT !.host = @ \ {l}] /\ Goes(p, "erased")

CmEndSession(p) ==
    \/ cmRun[p].at = "session" /\ Goes(p, "done") /\ UNCHANGED cmDisk
    \/ cmRun[p].at = "erased" /\ Goes(p, "session") /\ UNCHANGED cmDisk

----------------------------------------------------------------------------
(* Cloud backup.                                                           *)

\* The keys the configuration still has. A password is the recovery key of
\* one that has none.
CloudKeys ==
    LET recovery == IF cmDisk.conf["recovery"] # "none" THEN "recovery" ELSE "password" IN
    {k \in {<<"access", cmDisk.conf["access"]>>, <<"recovery", cmDisk.conf[recovery]>>} :
       k[2] # "none"}

ReadConfig(p) ==
    /\ cmRun[p].at = "cloud"
    /\ Reads(p, IF CloudKeys = {} THEN "cloudFile" ELSE "cloudSave", CloudKeys, {})
    /\ UNCHANGED cmDisk

\* The access key, then the recovery key, whatever the store holds.
saveCloudStoredCredential(p) ==
    LET run == cmRun[p] IN
    /\ run.at = "cloudSave"
    /\ \E k \in run.got :
         /\ k[1] = "recovery" => Cardinality(run.got) = 1
         /\ \/ /\ cmDisk' = [cmDisk EXCEPT !.store[k[1]] = k[2]]
               /\ cmRun' = [cmRun EXCEPT ![p].got = @ \ {k},
                               ![p].at = IF run.got = {k} THEN "cloudScrub" ELSE @]
            \/ Fails(p, "cloudFile")
            \/ Dies(p, [cmDisk EXCEPT !.store[k[1]] = "blank"])

ScrubConfig(p) ==
    LET scrubbed == [cmDisk EXCEPT !.conf = [f \in Fields |-> "none"]] IN
    /\ cmRun[p].at = "cloudScrub"
    /\ CmWrites(p, "cloudFile", scrubbed, "cloudFile", scrubbed)

AfterCloud(p) == IF cmRun[p].prog = "cloud" THEN "done" ELSE "ssh"

\* The stored secret key exists, even when a crash left it empty.
ReadCloudFile(p) ==
    LET stored == cmDisk.store["secret"] IN
    /\ cmRun[p].at = "cloudFile"
    /\ IF cmDisk.file = "none" THEN Goes(p, AfterCloud(p)) /\ UNCHANGED cmDisk
       ELSE IF cmDisk.file = "blank" \/ stored = cmDisk.file
            THEN Goes(p, "cloudRemove") /\ UNCHANGED cmDisk
       ELSE IF stored = "none"
            THEN CmWrites(p, "cloudRemove", [cmDisk EXCEPT !.store["secret"] = cmDisk.file],
                        AfterCloud(p), [cmDisk EXCEPT !.store["secret"] = "blank"])
       ELSE CmWrites(p, "cloudRemove", [cmDisk EXCEPT !.arch["secret"] = @ \union {cmDisk.file}],
                   AfterCloud(p), cmDisk)

RemoveCloudFile(p) ==
    /\ cmRun[p].at = "cloudRemove"
    /\ CmWrites(p, AfterCloud(p), [cmDisk EXCEPT !.file = "none"], AfterCloud(p), cmDisk)

----------------------------------------------------------------------------
(* Git SSH key directories. Renames, so a crash tears nothing.             *)

ReadOldRoot(p) ==
    /\ cmRun[p].at = "ssh"
    /\ IF cmDisk.oldRoot = "none" THEN Goes(p, "done") /\ UNCHANGED cmDisk
       ELSE IF cmDisk.oldRoot = "other" THEN Fails(p, "done")
       ELSE IF ~cmDisk.newRoot
            THEN CmWrites(p, "done", [cmDisk EXCEPT !.newRoot = TRUE, !.new = cmDisk.old \X {"old"},
                                      !.old = {}, !.oldRoot = "none"], "done", cmDisk)
       ELSE Reads(p, "sshEntry", cmDisk.old, {}) /\ UNCHANGED cmDisk

\* A directory the new root lacks moves there; anything else is archived.
MoveEntry(p) ==
    LET run == cmRun[p]
        moved(k) == [run EXCEPT !.got = @ \ {k}]
        fits(k) == k # "note" /\ \A n \in cmDisk.new : n[1] # k
    IN
    /\ run.at = "sshEntry" /\ run.got # {}
    /\ \E k \in run.got :
         \/ /\ k \in cmDisk.old
            /\ cmDisk' = IF fits(k) THEN [cmDisk EXCEPT !.old = @ \ {k}, !.new = @ \union {<<k, "old">>}]
                         ELSE [cmDisk EXCEPT !.old = @ \ {k}, !.karch = @ \union {<<k, "old">>}]
            /\ cmRun' = [cmRun EXCEPT ![p] = moved(k)]
         \/ /\ cmRun' = [cmRun EXCEPT ![p] = [moved(k) EXCEPT !.trouble = TRUE]]
            /\ UNCHANGED cmDisk
    
\* An old root that is not empty stays, with a warning.
RemoveOldRoot(p) ==
    /\ cmRun[p].at = "sshEntry" /\ cmRun[p].got = {}
    /\ IF cmDisk.old = {} THEN cmDisk' = [cmDisk EXCEPT !.oldRoot = "none"] /\ Goes(p, "done")
       ELSE Fails(p, "done")

Finish(p) ==
    /\ cmRun[p].at \in {"done", "crashed"}
    /\ cmRun' = [cmRun EXCEPT ![p] = Idle] /\ UNCHANGED cmDisk

Step(p) ==
    \/ runMigrateCredentials(p) \/ LaunchSession(p) \/ runConfigAgent(p)
    \/ NextKey(p) \/ storeHostAPIKey(p) \/ preserveSecretStoreConflict(p)
    \/ removeLegacyAPIKeyExports(p) \/ CmAsk(p) \/ StoreAnswers(p) \/ RemoveExports(p)
    \/ ReadHTTPS(p) \/ mergeGitCredentialStoreLines(p) \/ RemoveHTTPS(p) \/ RemoveHelper(p)
    \/ runGitHTTPSCredentialStore(p) \/ CmEndSession(p)
    \/ ReadConfig(p) \/ saveCloudStoredCredential(p) \/ ScrubConfig(p) \/ ReadCloudFile(p)
    \/ RemoveCloudFile(p) \/ ReadOldRoot(p) \/ MoveEntry(p) \/ RemoveOldRoot(p) \/ Finish(p)

CmNext == \E p \in CmProc :
    /\ Step(p)
    /\ cmQuiet' = [q \in CmProc |-> IF q = p THEN cmQuiet[q] \/ cmRun'[p].at \in Reading
                                   ELSE cmQuiet[q] /\ cmDisk' = cmDisk]
    /\ cmCount' = cmCount + (IF cmRun[p].at = "idle" THEN 1 ELSE 0)

CmSpec == CmInit /\ [][CmNext]_cmVars

----------------------------------------------------------------------------
(* The inventory of "hazmat status": what each credential still leaves in  *)
(* an old place.                                                           *)

LegacyResidue(s) ==
    CASE s \in EnvVar -> cmDisk.export[s] # "none"
      [] s = "access" -> cmDisk.conf["access"] # "none"
      [] s = "recovery" -> \E f \in {"recovery", "password"} : cmDisk.conf[f] # "none"
      [] s = "secret" -> cmDisk.file # "none"
      [] s = "https" -> cmDisk.agent # {} \/ cmDisk.helper
      [] s = "ssh" -> cmDisk.oldRoot # "none"

Status(s) ==
    IF LegacyResidue(s) THEN "needs-repair"
    ELSE IF s \in Slot /\ cmDisk.store[s] # "none" THEN "configured" ELSE "not-configured"

----------------------------------------------------------------------------
\* Every credential some file holds.
Held(d) ==
    {<<v, d.export[v]>> : v \in {w \in EnvVar : CmPresent(d.export[w])}}
    \union {<<s, d.store[s]>> : s \in {t \in Slot : CmPresent(d.store[t])}}
    \union (UNION {{s} \X d.arch[s] : s \in Slot})
    \union {<<f, d.conf[f]>> : f \in {g \in {"access", "recovery"} : d.conf[g] # "none"}}
    \union (IF CmPresent(d.file) THEN {<<"secret", d.file>>} ELSE {})
    \union ({"https"} \X (d.host \union d.agent))
    \union {<<k, "old">> : k \in d.old} \union d.new \union d.karch

\* The state has its types.
CmTypeOK ==
    /\ cmDisk.export \in [EnvVar -> Secret \union {"none", "bad"}]
    /\ cmDisk.store \in [Slot -> Secret \union {"none", "blank"}]
    /\ cmDisk.conf \in [Fields -> Secret \union {"none"}]
    /\ \A p \in CmProc : cmRun[p].trouble \in BOOLEAN /\ cmRun[p].alone \in BOOLEAN

\* No order of commands, failures and crashes makes a credential disappear from
\* the disk, but for four cases: the process was killed inside the write of a
\* file; another process changed a file between the read and the write; the
\* user erased it through Git; or "config agent", where the user was shown the
\* key in force.
NothingLostQuietly ==
    [][\A c \in Held(cmDisk) \ Held(cmDisk') : \E p \in CmProc :
         \/ cmRun'[p].at = "crashed" /\ cmRun[p].at # "crashed"
         \/ cmRun'[p] # cmRun[p] /\ ~cmQuiet[p]
         \/ cmRun'[p].at = "erased" /\ cmRun[p].at = "session" /\ c[1] = "https"
         \/ cmRun[p].at \in {"configStore", "configRemove"} /\ c[1] \in EnvVar]_cmVars

\* A migration that ran alone and reported neither an error nor a warning
\* leaves nothing the inventory would call in need of repair.
MigratedIsClean ==
    \A p \in CmProc :
        cmRun[p].prog = "migrate" /\ cmRun[p].at = "done" /\ cmRun[p].alone /\ ~cmRun[p].trouble
        => \A s \in Slot \union {"https", "ssh"} : Status(s) # "needs-repair"

\* What a migration owes the credentials: none disappears, and what it reports
\* clean is clean.
CredentialsKept == []MigratedIsClean /\ NothingLostQuietly
=============================================================================
