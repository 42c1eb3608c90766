---------------------------- MODULE Configuration ----------------------------
(***************************************************************************)
(* ~/.hazmat/config.yaml: the commands that load it, change it and write   *)
(* it back whole, with no lock and no rename; the migration of the cloud   *)
(* backup secrets out of it; and what a session makes of the SSH keys it   *)
(* names when Git asks for a host.                                         *)
(***************************************************************************)
EXTENDS Naturals, FiniteSets

CONSTANTS Command, MaxCommands

ConfigurationAssumption == MaxCommands \in Nat
ASSUME ConfigurationAssumption

KeyName == {"k1", "k2"}
ProfileName == {"P", "Q"}
Source == ProfileName \union {"inline"}

\* Host patterns. w1 and w2 are wildcards that share the host h1, and
\* neither matches the text of the other.
Host == {"h1", "h2"}
Pattern == {"h1", "h2", "w1", "w2"}

\* filepath.Match: the patterns and hosts, as texts, that a pattern matches.
Matches(p) == CASE p = "w1" -> {"w1", "h1", "h2"}
                [] p = "w2" -> {"w2", "h1"}
                [] OTHER -> {p}

\* What a command may be given: no host or one pattern.
HostArg == {{}} \union {{p} : p \in Pattern \ {"h2"}}

NoKey == [from |-> "none", hosts |-> {}]
NoProfile == {"undefined"}
NoAnswer == [host |-> "none", key |-> "none"]

VARIABLES
    cfgFile,   \* what the file says, while it loads
    cfgText,   \* what it is: empty, what one command saved, mixed of two, or broken
    cloudAt,   \* where the cloud access and recovery keys are
    secretAt,  \* where the cloud secret key is
    cmdStep,   \* cmdStep[c]: where command c is
    cmdCopy,   \* cmdCopy[c]: the configuration it has in memory
    cmdCount,  \* commands begun so far
    sessKeys,  \* the SSH keys of the running session, or {}
    sshAnswer  \* what the last Git request of the session was given

cfgVars == <<cfgFile, cfgText, cloudAt, secretAt, cmdStep, cmdCopy, cmdCount,
             sessKeys, sshAnswer>>

KeyEntry == {NoKey} \union [from : Source, hosts : HostArg]
ConfigRecord == [profiles : [ProfileName -> HostArg \union {NoProfile}],
                 keys : [KeyName -> KeyEntry],
                 exposed : BOOLEAN,    \* the access lists cover inline keys
                 legacy : BOOLEAN]     \* cloud keys are still in the file

\* defaultConfig, or the file of an earlier version with its cloud keys.
DefaultConfig(legacy) ==
    [profiles |-> [n \in ProfileName |-> NoProfile],
     keys |-> [k \in KeyName |-> NoKey], exposed |-> FALSE, legacy |-> legacy]

\* What earlier commands may have left: nothing, or a key with its profile.
EarlierConfigs(legacy) ==
    {DefaultConfig(legacy)} \union
    {[DefaultConfig(legacy) EXCEPT !.profiles["P"] = h,
                                   !.keys["k1"] = [from |-> "P", hosts |-> {}]] :
        h \in {{"h1"}, {"w1"}}}

CfgInit ==
    /\ \E old \in BOOLEAN :
         /\ cfgFile \in EarlierConfigs(old)
         /\ cloudAt = (IF old THEN {"config"} ELSE {})
         /\ secretAt = (IF old THEN {"file"} ELSE {})
    /\ cfgText = "saved"
    /\ cmdStep = [c \in Command |-> "idle"]
    /\ cmdCopy = [c \in Command |-> DefaultConfig(FALSE)]
    /\ cmdCount = 0 /\ sessKeys = {} /\ sshAnswer = NoAnswer

----------------------------------------------------------------------------
(* Validation: what loadConfig demands of profiles and project keys.       *)

UsedKeys(cfg) == {k \in KeyName : cfg.keys[k] # NoKey}

\* Declared hosts override the default hosts of the profile.
effectiveKeyHosts(cfg, k) ==
    LET key == cfg.keys[k] IN
    IF key.hosts # {} \/ key.from = "inline" THEN key.hosts
    ELSE cfg.profiles[key.from]

\* One host list holds a pattern that matches, as text, one of the other.
firstHostOverlap(a, b) ==
    \E p \in a, q \in b : q \in Matches(p) \/ p \in Matches(q)

ValidateProjectSSHConfig(cfg) ==
    /\ \A k \in UsedKeys(cfg) :
         cfg.keys[k].from = "inline" => cfg.keys[k].hosts # {}
    /\ \A j, k \in UsedKeys(cfg) :
         j # k => ~firstHostOverlap(cfg.keys[j].hosts, cfg.keys[k].hosts)

\* Slip: the hosts a key inherits from its profile are not compared.
RefsDefined(cfg) ==
    \A k \in UsedKeys(cfg) : cfg.keys[k].from \in ProfileName =>
        cfg.profiles[cfg.keys[k].from] # NoProfile

ValidateProjectSSHProfileRefs(cfg) ==
    /\ \A k \in UsedKeys(cfg) : cfg.keys[k].from \in ProfileName =>
         cfg.profiles[cfg.keys[k].from] # NoProfile
    /\ \A j, k \in UsedKeys(cfg) : j # k =>
         ~firstHostOverlap(effectiveKeyHosts(cfg, j), effectiveKeyHosts(cfg, k))

Loads(cfg) == ValidateProjectSSHConfig(cfg) /\ ValidateProjectSSHProfileRefs(cfg)

----------------------------------------------------------------------------
(* The commands, as what each makes of the configuration it loaded. One    *)
(* that refuses its arguments leaves no result and saves nothing.          *)

runConfigSSHAdd(cfg) ==
    {c \in {[cfg EXCEPT !.keys[k] = [from |-> s, hosts |-> h]] :
              k \in {n \in KeyName : cfg.keys[n] = NoKey},
              s \in {n \in Source : n \in ProfileName => cfg.profiles[n] # NoProfile},
              h \in HostArg} :
       ValidateProjectSSHConfig(c) /\ ValidateProjectSSHProfileRefs(c)}

runConfigSSHRemove(cfg) ==
    {[cfg EXCEPT !.keys[k] = NoKey] : k \in UsedKeys(cfg)}

\* Every key of the project goes.
runConfigSSHUnset(cfg) ==
    IF UsedKeys(cfg) = {} THEN {}
    ELSE {[cfg EXCEPT !.keys = [k \in KeyName |-> NoKey]]}

runConfigSSHProfileAdd(cfg) ==
    {[cfg EXCEPT !.profiles[n] = h] :
        n \in {m \in ProfileName : cfg.profiles[m] = NoProfile}, h \in HostArg}

findProfileReferrers(cfg, n) == {k \in KeyName : cfg.keys[k].from = n}

\* With --force the keys that refer to the profile are detached first.
runConfigSSHProfileRemove(cfg) ==
    {[cfg EXCEPT !.profiles[n] = NoProfile,
                 !.keys = [k \in KeyName |->
                    IF k \in findProfileReferrers(cfg, n) THEN NoKey ELSE @[k]]] :
        n \in {m \in ProfileName : cfg.profiles[m] # NoProfile}}

\* Slip: the projects go on naming the old profile.
RenameProfileOnly(cfg) ==
    {[cfg EXCEPT !.profiles[n] = NoProfile, !.profiles[m] = cfg.profiles[n]] :
        n \in {p \in ProfileName : cfg.profiles[p] # NoProfile},
        m \in {p \in ProfileName : cfg.profiles[p] = NoProfile}}

\* The profile's entry, and what the keys say of it, under its new name.
Renamed(cfg, n, m) ==
    [cfg EXCEPT !.profiles[n] = NoProfile, !.profiles[m] = cfg.profiles[n],
                !.keys = [k \in KeyName |->
                   IF k \in findProfileReferrers(cfg, n)
                   THEN [cfg.keys[k] EXCEPT !.from = m] ELSE cfg.keys[k]]]

runConfigSSHProfileRename(cfg) ==
    {Renamed(cfg, n, m) : n \in {p \in ProfileName : cfg.profiles[p] # NoProfile},
                          m \in {p \in ProfileName : cfg.profiles[p] = NoProfile}}

\* The access lists of the project gain or lose the directory of the keys.
runConfigAccess(cfg) == {[cfg EXCEPT !.exposed = ~@]}

\* Settings no other part of this module reads.
runConfigSet(cfg) == {cfg}

Results(cfg) ==
    runConfigSSHAdd(cfg) \union runConfigSSHRemove(cfg)
      \union runConfigSSHUnset(cfg) \union runConfigSSHProfileAdd(cfg)
      \union runConfigSSHProfileRemove(cfg) \union runConfigSSHProfileRename(cfg)
      \union runConfigAccess(cfg) \union runConfigSet(cfg)

----------------------------------------------------------------------------
(* Loading and saving.                                                     *)

CmdGo(c, here, there) ==
    cmdStep[c] = here /\ cmdStep' = [cmdStep EXCEPT ![c] = there]

\* What the process held goes with it.
Forget(c) == cmdCopy' = [cmdCopy EXCEPT ![c] = DefaultConfig(FALSE)]

\* loadConfig reads and validates the file; one that does not load ends the
\* command.  An empty file does not parse.
FileLoads == cfgText \in {"saved", "mixed"} /\ Loads(cfgFile)

Load(c) ==
    /\ cmdCount < MaxCommands /\ cmdCount' = cmdCount + 1
    /\ FileLoads
    /\ CmdGo(c, "idle", IF cfgFile.legacy THEN "migrate" ELSE "change")
    /\ cmdCopy' = [cmdCopy EXCEPT ![c] = [cfgFile EXCEPT !.legacy = FALSE]]
    /\ UNCHANGED <<cfgFile, cfgText, cloudAt, secretAt, sessKeys, sshAnswer>>

\* Slip: the keys are dropped from the file and stored once it is written.
MigrateLater(c) ==
    /\ CmdGo(c, "migrate", "truncateMigrated")
    /\ UNCHANGED <<cfgFile, cfgText, cloudAt, secretAt, cmdCopy, cmdCount,
                   sessKeys, sshAnswer>>

\* migrateCloudCredentialsIntoSecretStore: into the store, before the save.
Migrate(c) ==
    /\ CmdGo(c, "migrate", "truncateMigrated")
    /\ cloudAt' = cloudAt \union {"store"}
    /\ UNCHANGED <<cfgFile, cfgText, secretAt, cmdCopy, cmdCount, sessKeys,
                   sshAnswer>>

\* The command changes its copy, or refuses and ends.
Change(c) ==
    /\ \/ \E cfg \in Results(cmdCopy[c]) :
            /\ CmdGo(c, "change", "truncate")
            /\ cmdCopy' = [cmdCopy EXCEPT ![c] = cfg]
       \/ CmdGo(c, "change", "idle") /\ Forget(c)
    /\ UNCHANGED <<cfgFile, cfgText, cloudAt, secretAt, cmdCount, sessKeys,
                   sshAnswer>>

\* os.WriteFile empties the file ...
Truncate(c) ==
    /\ \/ CmdGo(c, "truncate", "write")
       \/ CmdGo(c, "truncateMigrated", "writeMigrated")
    /\ cfgText' = "empty" /\ cloudAt' = cloudAt \ {"config"}
    /\ UNCHANGED <<cfgFile, secretAt, cmdCopy, cmdCount, sessKeys, sshAnswer>>

\* What a text may be read as that begins as a and ends as b.
Mixed(a, b, ps, ks, e) ==
    [profiles |-> [n \in ProfileName |-> IF n \in ps THEN b.profiles[n] ELSE a.profiles[n]],
     keys |-> [k \in KeyName |-> IF k \in ks THEN b.keys[k] ELSE a.keys[k]],
     exposed |-> e, legacy |-> FALSE]

\* The text goes over the beginning of the file: where another command that
\* had emptied it too has written by then, the end of a longer text stays.
PutText(cfg) ==
    \/ cfgFile' = cfg /\ cfgText' = "saved"
    \/ /\ cfgText # "empty"
       /\ \/ /\ \E ps \in SUBSET ProfileName, ks \in SUBSET KeyName,
                    e \in {cfg.exposed, cfgFile.exposed} :
                   cfgFile' = Mixed(cfg, cfgFile, ps, ks, e)
             /\ cfgText' = "mixed"
          \/ cfgText' = "broken" /\ UNCHANGED cfgFile

\* ... and writes the copy, scrubbed of secrets.
WriteConfig(c) ==
    /\ \/ CmdGo(c, "write", "idle") /\ Forget(c)
       \/ CmdGo(c, "writeMigrated", "change") /\ UNCHANGED cmdCopy
    /\ PutText(cmdCopy[c])
    /\ UNCHANGED <<cloudAt, secretAt, cmdCount, sessKeys, sshAnswer>>

\* The command is killed wherever it is.
KillCommand(c) ==
    /\ cmdStep[c] # "idle" /\ cmdStep' = [cmdStep EXCEPT ![c] = "idle"]
    /\ Forget(c)
    /\ UNCHANGED <<cfgFile, cfgText, cloudAt, secretAt, cmdCount, sessKeys,
                   sshAnswer>>

\* runConfigEdit: the user repairs a file that no longer loads, or writes
\* one that does not; keys that are nowhere else are not thrown away.
EditConfig ==
    /\ cmdCount < MaxCommands /\ cmdCount' = cmdCount + 1
    /\ cfgText' = IF FileLoads THEN "broken" ELSE "saved"
    /\ cfgFile' = DefaultConfig(FALSE)
    /\ cloudAt' = cloudAt \ {"config"}
    /\ cloudAt # {"config"}
    /\ UNCHANGED <<secretAt, cmdStep, cmdCopy, sessKeys, sshAnswer>>

----------------------------------------------------------------------------
(* The cloud secret key, which an earlier version kept in a file.          *)

\* loadCloudSecretKey: the store answers, or the file is moved into it.
LoadCloudSecretKey(c) ==
    /\ cmdCount < MaxCommands /\ cmdCount' = cmdCount + 1
    /\ secretAt = {"file"}
    /\ CmdGo(c, "idle", "removeSecret") /\ secretAt' = {"file", "store"}
    /\ UNCHANGED <<cfgFile, cfgText, cloudAt, cmdCopy, sessKeys, sshAnswer>>

\* saveCloudSecretKey: after the store is written, the file is removed.
SaveCloudSecretKey(c) ==
    /\ CmdGo(c, "removeSecret", "idle") /\ secretAt' = secretAt \ {"file"}
    /\ UNCHANGED <<cfgFile, cfgText, cloudAt, cmdCopy, cmdCount, sessKeys,
                   sshAnswer>>

\* runConfigCloud: the three keys go to the store; the settings are saved.
ConfigCloud(c) ==
    /\ CmdGo(c, "change", "truncate")
    /\ cloudAt' = cloudAt \union {"store"} /\ secretAt' = {"store"}
    /\ UNCHANGED <<cfgFile, cfgText, cmdCopy, cmdCount, sessKeys, sshAnswer>>

----------------------------------------------------------------------------
(* A session: the keys it is prepared with, and the host of a Git request. *)

\* resolveProjectSSHKeys: no key may lie in what the session can read.
ResolveKeys ==
    /\ FileLoads /\ sessKeys = {}
    /\ \A k \in UsedKeys(cfgFile) :
         ~(cfgFile.exposed /\ cfgFile.keys[k].from = "inline")
    /\ sessKeys' = {[name |-> k, hosts |-> effectiveKeyHosts(cfgFile, k)] :
                       k \in UsedKeys(cfgFile)}
    /\ sshAnswer' = NoAnswer
    /\ UNCHANGED <<cfgFile, cfgText, cloudAt, secretAt, cmdStep, cmdCopy, cmdCount>>

Matching(h) == {k \in sessKeys : \E p \in k.hosts : h \in Matches(p)}

\* selectSessionGitSSHKey: exactly one key matches, or the request fails.
SelectKey(h) ==
    /\ sessKeys # {}
    /\ sshAnswer' = [host |-> h, key |->
           IF Cardinality(Matching(h)) = 1
           THEN (CHOOSE k \in Matching(h) : TRUE).name ELSE "refused"]
    /\ UNCHANGED <<cfgFile, cfgText, cloudAt, secretAt, cmdStep, cmdCopy,
                   cmdCount, sessKeys>>

CloseSession ==
    /\ sessKeys # {} /\ sessKeys' = {} /\ sshAnswer' = NoAnswer
    /\ UNCHANGED <<cfgFile, cfgText, cloudAt, secretAt, cmdStep, cmdCopy, cmdCount>>

CfgNext ==
    \/ \E c \in Command :
         \/ Load(c) \/ Migrate(c) \/ Change(c) \/ Truncate(c) \/ WriteConfig(c)
         \/ KillCommand(c) \/ LoadCloudSecretKey(c) \/ SaveCloudSecretKey(c)
         \/ ConfigCloud(c)
    \/ EditConfig \/ ResolveKeys \/ CloseSession
    \/ \E h \in Host : SelectKey(h)

CfgSpec == CfgInit /\ [][CfgNext]_cfgVars

----------------------------------------------------------------------------
(* Properties.                                                             *)

\* The type of the state.
CfgTypeOK ==
    /\ cfgFile \in ConfigRecord /\ cfgText \in {"empty", "saved", "mixed", "broken"}
    /\ cloudAt \subseteq {"config", "store"} /\ secretAt \subseteq {"file", "store"}
    /\ cmdStep \in [Command -> {"idle", "migrate", "change", "truncate", "write",
                     "truncateMigrated", "writeMigrated", "removeSecret"}]
    /\ cmdCopy \in [Command -> ConfigRecord] /\ cmdCount \in 0..MaxCommands
    /\ \A k \in sessKeys : k.hosts \in HostArg
    /\ sshAnswer \in [host : Host, key : KeyName \union {"refused"}] \union {NoAnswer}

\* Whatever commands ran and overlapped, what a command saved loads again
\* (saveConfig does not validate what loadConfig will): no key names a
\* profile that is gone, and no two keys name overlapping hosts.  What is
\* excepted is a file two commands had both emptied before either wrote.
SavedConfigLoads == cfgText = "saved" => Loads(cfgFile)

\* A Git request for a host that a key of the session names is answered by
\* that key: two keys can only meet, and the request be refused, where both
\* reach the host by a wildcard (wildcardHostOverlap compares the texts).
NamedHostGetsItsKey ==
    \A k \in sessKeys : sshAnswer.host \in k.hosts => sshAnswer.key = k.name

\* The cloud keys an earlier version left in the configuration or its
\* credential file are never lost on their way into the secret store,
\* wherever a command is killed and whatever overlaps it.
CloudKeysSurvive ==
    [][(cloudAt # {} => cloudAt' # {}) /\ (secretAt # {} => secretAt' # {})]_cfgVars

\* What is kept in config.yaml: what one command saved loads, a host named by a
\* key that a session loaded gets that key, and the cloud keys that leave it arrive.
ConfigurationKept ==
    []SavedConfigLoads /\ []NamedHostGetsItsKey /\ CloudKeysSurvive
=============================================================================
