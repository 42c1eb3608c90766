----------------------------- MODULE HostProofs -----------------------------
(***************************************************************************)
(* What holds of the components that keep and repair the host, for every   *)
(* value of their constants: component by component, and then of their     *)
(* composition in MCHost, of which each component is a part.               *)
(***************************************************************************)
EXTENDS MCHost, RepoSetupProofs, PlanescapeProviderProofs, Integers, FiniteSetTheorems,
        SequenceTheorems, TLAPS

----------------------------------------------------------------------------
(* HostSetup.                                                              *)

\* What is on the host once the i-th setup step has returned.
Yields ==
    <<{}, {"devGroup"}, {"homeTraverse"}, {"localRepo"}, {"umask"}, {"seatbelt"},
      {"wrappers", "completions", "safeDirectory"}, Firewall, {"dnsBlocklist"},
      {"launchDaemon"}, {"launchHelper"}, {"sudoers"}, {}, {}, {}>>

\* Whoever is let in without the firewall is an entry that stuck; an account that
\* was made in one piece is whole; a setup has what its steps so far yield; and a
\* rollback past the sudoers entries, or past the account, has them removed or
\* knows that it has not.
HsInv ==
    /\ Firewall \subseteq hsHost \/ hsHost \intersect Sudoers \subseteq hsStuck
    /\ "userRecord" \in hsHost /\ ~hsTorn => Account \subseteq hsHost
    /\ hsTorn \in BOOLEAN
    /\ hsPhase \in {"setup", "rollback"} => hsStep \in Nat \ {0}
    /\ hsPhase = "setup" =>
         /\ \A i \in 1 .. hsStep - 1 : i <= 15 => Yields[i] \subseteq hsHost
         /\ hsStep > 1 => Account \subseteq hsHost \/ hsTorn
    /\ hsPhase = "rollback" =>
         /\ hsStep > 1 /\ "sudoers" \in hsHost => "sudoers" \in hsStuck
         /\ hsStep > 2 /\ "maintenanceSudoers" \in hsHost => "maintenanceSudoers" \in hsStuck
         /\ hsStep > 12 => "userRecord" \notin hsHost \/ hsTorn
    /\ InitConverges

LEMMA HsInvInit == HsInit => HsInv
BY DEF HsInit, HsInv, SetUpBy, Firewall, Sudoers, Account, Artifacts, InAgentHome, InitConverges

\* What a write list may name.
Names == Artifacts \union {"pfBackup"}

\* What a write list puts on the host as far as it gets.
Put(writes, k) == {writes[i] : i \in 1 .. k} \ {"pfBackup"}

LEMMA WrittenPuts ==
    ASSUME NEW writes \in Seq(Names), NEW k \in 0 .. Len(writes), Written(writes, k)
    PROVE  hsHost' = hsHost \union Put(writes, k)
<1>1. Range(SubSeq(writes, 1, k)) = {writes[i] : i \in 1 .. k}
    <2>1. k \in Nat /\ 1 \in Int /\ k <= Len(writes) /\ Len(writes) \in Nat
        OBVIOUS
    <2>2. /\ Len(SubSeq(writes, 1, k)) = k
          /\ DOMAIN SubSeq(writes, 1, k) = 1 .. k
          /\ \A i \in 1 .. k : SubSeq(writes, 1, k)[i] = writes[i]
        BY <2>1, SubSeqProperties
    <2> QED
        BY <2>2 DEF Range
<1> QED
    BY <1>1 DEF Written, Put

\* What lists of up to three names put.
LEMMA PutEmpty == <<>> \in Seq(Names) /\ Len(<<>>) = 0 /\ \A k \in 0 .. 0 : Put(<<>>, k) = {}
BY DEF Put

LEMMA PutOne ==
    ASSUME NEW S, NEW a \in S
    PROVE  /\ <<a>> \in Seq(S) /\ Len(<<a>>) = 1
           /\ \A k \in 0 .. 1 : Put(<<a>>, k) \subseteq {a} \ {"pfBackup"}
           /\ Put(<<a>>, 1) = {a} \ {"pfBackup"}
BY DEF Put

LEMMA PutTwo ==
    ASSUME NEW S, NEW a \in S, NEW b \in S
    PROVE  /\ <<a, b>> \in Seq(S) /\ Len(<<a, b>>) = 2
           /\ \A k \in 0 .. 2 : Put(<<a, b>>, k) \subseteq {a, b} \ {"pfBackup"}
           /\ Put(<<a, b>>, 2) = {a, b} \ {"pfBackup"}
<1> DEFINE w == <<a, b>>
<1>1. w \in Seq(S) /\ Len(w) = 2 /\ w[1] = a /\ w[2] = b
    <2>1. w \in Seq(S)
        OBVIOUS
    <2>2. Len(w) = 2
        OBVIOUS
    <2>3. w[1] = a
        OBVIOUS
    <2>4. w[2] = b
        OBVIOUS
    <2> QED
        BY <2>1, <2>2, <2>3, <2>4
<1>2. \A j \in 1 .. 2 : j = 1 \/ j = 2
    OBVIOUS
<1> HIDE DEF w
<1>3. /\ \A k \in 0 .. 2 : Put(w, k) \subseteq {a, b} \ {"pfBackup"}
      /\ Put(w, 2) = {a, b} \ {"pfBackup"}
    BY <1>1, <1>2 DEF Put
<1> QED
    BY <1>1, <1>3 DEF w

LEMMA PutThree ==
    ASSUME NEW S, NEW a \in S, NEW b \in S, NEW c \in S
    PROVE  /\ <<a, b, c>> \in Seq(S) /\ Len(<<a, b, c>>) = 3
           /\ \A k \in 0 .. 3 : Put(<<a, b, c>>, k) \subseteq {a, b, c} \ {"pfBackup"}
           /\ Put(<<a, b, c>>, 3) = {a, b, c} \ {"pfBackup"}
<1> DEFINE w == <<a, b, c>>
<1>1. w \in Seq(S) /\ Len(w) = 3 /\ w[1] = a /\ w[2] = b /\ w[3] = c
    <2>1. w \in Seq(S)
        OBVIOUS
    <2>2. Len(w) = 3
        OBVIOUS
    <2>3. w[1] = a
        OBVIOUS
    <2>4. w[2] = b
        OBVIOUS
    <2>5. w[3] = c
        OBVIOUS
    <2> QED
        BY <2>1, <2>2, <2>3, <2>4, <2>5
<1>2. \A j \in 1 .. 3 : j = 1 \/ j = 2 \/ j = 3
    OBVIOUS
<1> HIDE DEF w
<1>3. /\ \A k \in 0 .. 3 : Put(w, k) \subseteq {a, b, c} \ {"pfBackup"}
      /\ Put(w, 3) = {a, b, c} \ {"pfBackup"}
    BY <1>1, <1>2 DEF Put
<1> QED
    BY <1>1, <1>3 DEF w

\* The write lists by their number.
LEMMA WritesByNumber ==
    /\ Writes(SetupSteps[1]) = SetupAgentUser
    /\ Writes(SetupSteps[2]) = <<"devGroup">>
    /\ Writes(SetupSteps[3]) = <<"homeTraverse">>
    /\ Writes(SetupSteps[4]) = <<"localRepo">>
    /\ Writes(SetupSteps[5]) = <<"umask">>
    /\ Writes(SetupSteps[6]) = <<"seatbelt">>
    /\ Writes(SetupSteps[7]) = <<"wrappers", "completions", "safeDirectory">>
    /\ Writes(SetupSteps[8]) = SetupPfFirewall
    /\ Writes(SetupSteps[9]) = <<"dnsBlocklist">>
    /\ Writes(SetupSteps[10]) = <<"launchDaemon">>
    /\ Writes(SetupSteps[11]) = <<"launchHelper">>
    /\ Writes(SetupSteps[12]) = <<"sudoers">>
    /\ Writes(SetupSteps[13]) = OptionalMaintenance
    /\ Writes(SetupSteps[14]) = SelectedHarness
    /\ Writes(SetupSteps[15]) = <<>>
<1>1. SetupSteps[1] = "setupAgentUser"
    BY DEF SetupSteps
<1>2. SetupSteps[2] = "setupDevGroup"
    BY DEF SetupSteps
<1>3. SetupSteps[3] = "setupHomeDirTraverse"
    BY DEF SetupSteps
<1>4. SetupSteps[4] = "setupLocalRepo"
    BY DEF SetupSteps
<1>5. SetupSteps[5] = "setupHardeningGaps"
    BY DEF SetupSteps
<1>6. SetupSteps[6] = "setupSeatbelt"
    BY DEF SetupSteps
<1>7. SetupSteps[7] = "setupWrappers"
    BY DEF SetupSteps
<1>8. SetupSteps[8] = "setupPfFirewall"
    BY DEF SetupSteps
<1>9. SetupSteps[9] = "setupDNSBlocklist"
    BY DEF SetupSteps
<1>10. SetupSteps[10] = "setupLaunchDaemon"
    BY DEF SetupSteps
<1>11. SetupSteps[11] = "setupLaunchHelper"
    BY DEF SetupSteps
<1>12. SetupSteps[12] = "setupSudoers"
    BY DEF SetupSteps
<1>13. SetupSteps[13] = "maybeSetupOptionalMaintenance"
    BY DEF SetupSteps
<1>14. SetupSteps[14] = "setupSelectedHarness"
    BY DEF SetupSteps
<1>15. SetupSteps[15] = "setupAgentCredentials"
    BY DEF SetupSteps
<1> QED
    BY <1>1, <1>2, <1>3, <1>4, <1>5, <1>6, <1>7, <1>8,
       <1>9, <1>10, <1>11,
       <1>12, <1>13, <1>14, <1>15
    DEF Writes, SetupDevGroup, SetupHomeDirTraverse, SetupLocalRepo, SetupHardeningGaps,
        SetupSeatbelt, SetupWrappers, SetupDNSBlocklist, SetupLaunchDaemon, SetupLaunchHelper,
        SetupSudoers

\* The names of the lists are names.
LEMMA NamesAreNames ==
    {"userRecord", "agentHome", "hiddenAccount", "devGroup", "homeTraverse", "localRepo", "umask",
     "seatbelt", "wrappers", "completions", "safeDirectory", "pfAnchor", "pfBackup", "pfRegistered",
     "dnsBlocklist", "launchDaemon", "launchHelper", "sudoers", "maintenanceSudoers", "npmrc",
     "pipConf"} \subseteq Names
BY DEF Names, Artifacts, Sudoers, Firewall, Account, InAgentHome

\* The firewall's list, whichever of its two parts is there.
LEMMA FirewallList ==
    /\ SetupPfFirewall \in Seq(Names)
    /\ Firewall \subseteq hsHost \union Put(SetupPfFirewall, Len(SetupPfFirewall))
    /\ \A k \in 0 .. Len(SetupPfFirewall) : Put(SetupPfFirewall, k) \subseteq Firewall
<1>1. CASE "pfAnchor" \in hsHost /\ "pfRegistered" \in hsHost
    <2>1. SetupPfFirewall = <<>>
        BY <1>1 DEF SetupPfFirewall
    <2> QED
        BY <1>1, <2>1, PutEmpty DEF Firewall
<1>2. CASE "pfAnchor" \notin hsHost /\ "pfRegistered" \in hsHost
    <2>1. SetupPfFirewall = <<"pfAnchor">>
        BY <1>2 DEF SetupPfFirewall
    <2> QED
        BY <1>2, <2>1, NamesAreNames, PutOne DEF Firewall
<1>3. CASE "pfAnchor" \in hsHost /\ "pfRegistered" \notin hsHost
    <2>1. SetupPfFirewall = <<"pfBackup", "pfRegistered">>
        BY <1>3 DEF SetupPfFirewall
    <2> QED
        BY <1>3, <2>1, NamesAreNames, PutTwo DEF Firewall
<1>4. CASE "pfAnchor" \notin hsHost /\ "pfRegistered" \notin hsHost
    <2> DEFINE w == SetupPfFirewall
    <2>1. w = <<"pfAnchor">> \o <<"pfBackup", "pfRegistered">>
        BY <1>4 DEF SetupPfFirewall
    <2>2. w \in Seq(Names)
        BY <2>1, NamesAreNames
    <2>3. Len(w) = 3 /\ w[1] = "pfAnchor" /\ w[2] = "pfBackup" /\ w[3] = "pfRegistered"
        BY <2>1
    <2>4. \A j \in 1 .. 3 : j = 1 \/ j = 2 \/ j = 3
        OBVIOUS
    <2> HIDE DEF w
    <2>5. /\ \A k \in 0 .. 3 : Put(w, k) \subseteq {"pfAnchor", "pfRegistered"}
          /\ Put(w, 3) = {"pfAnchor", "pfRegistered"}
        BY <2>3, <2>4 DEF Put
    <2> QED
        BY <2>2, <2>3, <2>5 DEF w, Firewall
<1> QED
    BY <1>1, <1>2, <1>3, <1>4

\* What they may put, and what the whole of each puts.
LEMMA WriteLists ==
    ASSUME NEW i \in 1 .. 15
    PROVE  LET w == Writes(SetupSteps[i])
           IN  /\ w \in Seq(Names)
               /\ Yields[i] \subseteq hsHost \union Put(w, Len(w))
               /\ \A k \in 0 .. Len(w) :
                    /\ i \notin {12, 13} => Put(w, k) \intersect Sudoers = {}
                    /\ i # 1 => "userRecord" \notin Put(w, k)
               /\ i = 1 =>
                    /\ "userRecord" \in hsHost => w = <<>>
                    /\ "userRecord" \notin hsHost => w = <<"userRecord", "agentHome", "hiddenAccount">>
<1> DEFINE w == Writes(SetupSteps[i])
<1>1. Yields[1] = {} /\ Yields[13] = {} /\ Yields[14] = {} /\ Yields[15] = {}
    BY DEF Yields
<1>2. /\ Yields[2] = {"devGroup"}
      /\ Yields[3] = {"homeTraverse"}
      /\ Yields[4] = {"localRepo"}
      /\ Yields[5] = {"umask"}
      /\ Yields[6] = {"seatbelt"}
      /\ Yields[7] = {"wrappers", "completions", "safeDirectory"}
      /\ Yields[8] = Firewall
      /\ Yields[9] = {"dnsBlocklist"}
      /\ Yields[10] = {"launchDaemon"}
      /\ Yields[11] = {"launchHelper"}
      /\ Yields[12] = {"sudoers"}
    BY DEF Yields
<1>3. CASE i = 1
    <2>1. w = SetupAgentUser
        BY <1>3, WritesByNumber
    <2> QED
        BY <1>1, <1>3, <2>1, NamesAreNames, PutEmpty, PutThree DEF SetupAgentUser, Sudoers
<1>4. CASE i = 2
    <2>1. w = <<"devGroup">>
        BY <1>4, WritesByNumber
    <2>2. /\ w \in Seq(Names)
          /\ Put(w, Len(w)) = {"devGroup"}
          /\ \A k \in 0 .. Len(w) : Put(w, k) \subseteq {"devGroup"}
        BY <2>1, NamesAreNames, PutOne
    <2> QED
        BY <1>2, <1>4, <2>2 DEF Sudoers
<1>5. CASE i = 3
    <2>1. w = <<"homeTraverse">>
        BY <1>5, WritesByNumber
    <2>2. /\ w \in Seq(Names)
          /\ Put(w, Len(w)) = {"homeTraverse"}
          /\ \A k \in 0 .. Len(w) : Put(w, k) \subseteq {"homeTraverse"}
        BY <2>1, NamesAreNames, PutOne
    <2> QED
        BY <1>2, <1>5, <2>2 DEF Sudoers
<1>6. CASE i = 4
    <2>1. w = <<"localRepo">>
        BY <1>6, WritesByNumber
    <2>2. /\ w \in Seq(Names)
          /\ Put(w, Len(w)) = {"localRepo"}
          /\ \A k \in 0 .. Len(w) : Put(w, k) \subseteq {"localRepo"}
        BY <2>1, NamesAreNames, PutOne
    <2> QED
        BY <1>2, <1>6, <2>2 DEF Sudoers
<1>7. CASE i = 5
    <2>1. w = <<"umask">>
        BY <1>7, WritesByNumber
    <2>2. /\ w \in Seq(Names)
          /\ Put(w, Len(w)) = {"umask"}
          /\ \A k \in 0 .. Len(w) : Put(w, k) \subseteq {"umask"}
        BY <2>1, NamesAreNames, PutOne
    <2> QED
        BY <1>2, <1>7, <2>2 DEF Sudoers
<1>8. CASE i = 6
    <2>1. w = <<"seatbelt">>
        BY <1>8, WritesByNumber
    <2>2. /\ w \in Seq(Names)
          /\ Put(w, Len(w)) = {"seatbelt"}
          /\ \A k \in 0 .. Len(w) : Put(w, k) \subseteq {"seatbelt"}
        BY <2>1, NamesAreNames, PutOne
    <2> QED
        BY <1>2, <1>8, <2>2 DEF Sudoers
<1>9. CASE i = 7
    <2>1. w = <<"wrappers", "completions", "safeDirectory">>
        BY <1>9, WritesByNumber
    <2>2. /\ w \in Seq(Names)
          /\ Put(w, Len(w)) = {"wrappers", "completions", "safeDirectory"}
          /\ \A k \in 0 .. Len(w) : Put(w, k) \subseteq {"wrappers", "completions", "safeDirectory"}
        BY <2>1, NamesAreNames, PutThree
    <2> QED
        BY <1>2, <1>9, <2>2 DEF Sudoers
<1>10. CASE i = 8
    <2>1. w = SetupPfFirewall
        BY <1>10, WritesByNumber
    <2>2. /\ w \in Seq(Names)
          /\ Yields[8] \subseteq hsHost \union Put(w, Len(w))
          /\ \A k \in 0 .. Len(w) : Put(w, k) \subseteq Firewall
        BY <1>2, <2>1, FirewallList
    <2> QED
        BY <1>10, <2>2 DEF Sudoers, Firewall
<1>11. CASE i = 9
    <2>1. w = <<"dnsBlocklist">>
        BY <1>11, WritesByNumber
    <2>2. /\ w \in Seq(Names)
          /\ Put(w, Len(w)) = {"dnsBlocklist"}
          /\ \A k \in 0 .. Len(w) : Put(w, k) \subseteq {"dnsBlocklist"}
        BY <2>1, NamesAreNames, PutOne
    <2> QED
        BY <1>2, <1>11, <2>2 DEF Sudoers
<1>12. CASE i = 10
    <2>1. w = <<"launchDaemon">>
        BY <1>12, WritesByNumber
    <2>2. /\ w \in Seq(Names)
          /\ Put(w, Len(w)) = {"launchDaemon"}
          /\ \A k \in 0 .. Len(w) : Put(w, k) \subseteq {"launchDaemon"}
        BY <2>1, NamesAreNames, PutOne
    <2> QED
        BY <1>2, <1>12, <2>2 DEF Sudoers
<1>13. CASE i = 11
    <2>1. w = <<"launchHelper">>
        BY <1>13, WritesByNumber
    <2>2. /\ w \in Seq(Names)
          /\ Put(w, Len(w)) = {"launchHelper"}
          /\ \A k \in 0 .. Len(w) : Put(w, k) \subseteq {"launchHelper"}
        BY <2>1, NamesAreNames, PutOne
    <2> QED
        BY <1>2, <1>13, <2>2 DEF Sudoers
<1>14. CASE i = 12
    <2>1. w = <<"sudoers">>
        BY <1>14, WritesByNumber
    <2>2. /\ w \in Seq(Names)
          /\ Put(w, Len(w)) = {"sudoers"}
          /\ \A k \in 0 .. Len(w) : Put(w, k) \subseteq {"sudoers"}
        BY <2>1, NamesAreNames, PutOne
    <2> QED
        BY <1>2, <1>14, <2>2 DEF Sudoers
<1>15. CASE i = 13
    <2>1. w = OptionalMaintenance
        BY <1>15, WritesByNumber
    <2>2. /\ w \in Seq(Names)
          /\ \A k \in 0 .. Len(w) : Put(w, k) \subseteq {"maintenanceSudoers"}
        BY <2>1, NamesAreNames, PutEmpty, PutOne DEF OptionalMaintenance
    <2> QED
        BY <1>1, <1>15, <2>2 DEF Sudoers
<1>16. CASE i = 14
    <2>1. w = SelectedHarness
        BY <1>16, WritesByNumber
    <2>2. /\ w \in Seq(Names)
          /\ \A k \in 0 .. Len(w) : Put(w, k) \subseteq {"npmrc", "pipConf"}
        BY <2>1, NamesAreNames, PutEmpty, PutTwo DEF SelectedHarness
    <2> QED
        BY <1>1, <1>16, <2>2 DEF Sudoers
<1>17. CASE i = 15
    <2>1. w = <<>>
        BY <1>17, WritesByNumber
    <2>2. /\ w \in Seq(Names)
          /\ \A k \in 0 .. Len(w) : Put(w, k) \subseteq {}
        BY <2>1, NamesAreNames, PutEmpty
    <2> QED
        BY <1>1, <1>17, <2>2 DEF Sudoers
<1> QED
    BY <1>3, <1>4, <1>5, <1>6, <1>7, <1>8, <1>9, <1>10, <1>11,
       <1>12, <1>13, <1>14, <1>15, <1>16, <1>17

LEMMA SetupLength == Len(SetupSteps) = 15
BY DEF SetupSteps

\* However far a setup step gets, it lets nobody in before the firewall and leaves
\* no half of an account unnoticed.
LEMMA WritingIsSafe ==
    ASSUME HsInv, hsPhase = "setup", hsStep <= Len(SetupSteps),
           NEW k \in 0 .. Len(Writes(SetupSteps[hsStep])),
           Written(Writes(SetupSteps[hsStep]), k), UNCHANGED hsStuck
    PROVE  /\ hsStep \in 1 .. 15
           /\ hsHost \subseteq hsHost'
           /\ hsHost' = hsHost \union Put(Writes(SetupSteps[hsStep]), k)
           /\ Firewall \subseteq hsHost' \/ hsHost' \intersect Sudoers \subseteq hsStuck'
           /\ "userRecord" \in hsHost' /\ ~hsTorn =>
                \/ Account \subseteq hsHost'
                \/ /\ k \in 1 .. Len(Writes(SetupSteps[hsStep])) - 1
                   /\ Writes(SetupSteps[hsStep])[1] = "userRecord"
<1> DEFINE w == Writes(SetupSteps[hsStep])
<1>1. hsStep \in 1 .. 15
    BY SetupLength DEF HsInv
<1>2. w \in Seq(Names)
    BY <1>1, WriteLists
<1>3. hsHost' = hsHost \union Put(w, k)
    BY <1>2, WrittenPuts
<1>4. Firewall \subseteq hsHost' \/ hsHost' \intersect Sudoers \subseteq hsStuck'
    <2>1. CASE hsStep \in {12, 13}
        <3>1. Yields[8] \subseteq hsHost
            BY <1>1, <2>1 DEF HsInv
        <3> QED
            BY <3>1, <1>3 DEF Yields
    <2>2. CASE hsStep \notin {12, 13}
        <3>1. Put(w, k) \intersect Sudoers = {}
            BY <1>1, <2>2, WriteLists
        <3> QED
            BY <3>1, <1>3 DEF HsInv
    <2> QED
        BY <2>1, <2>2
<1>5. ASSUME "userRecord" \in hsHost', ~hsTorn
      PROVE  Account \subseteq hsHost' \/ (k \in 1 .. Len(w) - 1 /\ w[1] = "userRecord")
    <2>1. CASE "userRecord" \in hsHost
        BY <1>3, <1>5, <2>1 DEF HsInv
    <2>2. CASE "userRecord" \notin hsHost
        <3>1. hsStep = 1
            BY <1>1, <1>3, <1>5, <2>2, WriteLists
        <3>2. w = <<"userRecord", "agentHome", "hiddenAccount">>
            BY <1>1, <3>1, <2>2, WriteLists
        <3>3. k \in 0 .. 3 /\ Len(w) = 3 /\ w[1] = "userRecord"
            BY <3>2
        <3>4. k # 0
            BY <1>3, <1>5, <2>2 DEF Put
        <3>5. k = 3 => Account \subseteq hsHost'
            BY <1>3, <3>2 DEF Put, Account
        <3> QED
            BY <3>3, <3>4, <3>5
    <2> QED
        BY <2>1, <2>2
<1> QED
    BY <1>1, <1>3, <1>4, <1>5

LEMMA SetupStepKeeps == HsInv /\ RunSetupStep => HsInv'
<1> SUFFICES ASSUME HsInv, RunSetupStep
             PROVE  HsInv'
    OBVIOUS
<1> DEFINE w == Writes(SetupSteps[hsStep])
<1>1. hsPhase = "setup" /\ hsStep <= Len(SetupSteps) /\ Written(w, Len(w))
    BY DEF RunSetupStep
<1>2. hsStep' = hsStep + 1 /\ UNCHANGED <<hsPhase, hsStuck, hsTorn>>
    BY DEF RunSetupStep
<1>3. hsStep \in 1 .. 15
    BY <1>1, SetupLength DEF HsInv
<1>4. w \in Seq(Names)
    BY <1>3, WriteLists
<1>11. Len(w) \in 0 .. Len(w)
    <2>1. Len(w) \in Nat
        BY <1>4
    <2> QED
        BY <2>1
<1>5. /\ hsHost \subseteq hsHost'
      /\ hsHost' = hsHost \union Put(w, Len(w))
      /\ Firewall \subseteq hsHost' \/ hsHost' \intersect Sudoers \subseteq hsStuck'
      /\ "userRecord" \in hsHost' /\ ~hsTorn =>
           Account \subseteq hsHost' \/ (Len(w) \in 1 .. Len(w) - 1 /\ w[1] = "userRecord")
    BY <1>1, <1>2, <1>11, WritingIsSafe
<1>6. Len(w) \notin 1 .. Len(w) - 1
    BY <1>11
<1>7. Yields[hsStep] \subseteq hsHost'
    BY <1>3, <1>5, WriteLists
<1>8. \A i \in 1 .. hsStep' - 1 : i <= 15 => Yields[i] \subseteq hsHost'
    BY <1>1, <1>2, <1>3, <1>5, <1>7 DEF HsInv
<1>9. Account \subseteq hsHost' \/ hsTorn'
    <2>1. CASE hsStep = 1
        <3>1. "userRecord" \in hsHost'
            <4>1. "userRecord" \notin hsHost => w = <<"userRecord", "agentHome", "hiddenAccount">>
                BY <2>1, <1>3, WriteLists
            <4> QED
                BY <4>1, <1>5 DEF Put
        <3> QED
            BY <3>1, <1>2, <1>5, <1>6 DEF HsInv
    <2>2. CASE hsStep # 1
        BY <2>2, <1>1, <1>2, <1>3, <1>5 DEF HsInv
    <2> QED
        BY <2>1, <2>2
<1>10. InitConverges'
    BY <1>1, <1>2 DEF InitConverges
<1> QED
    BY <1>1, <1>2, <1>3, <1>5, <1>6, <1>8, <1>9, <1>10 DEF HsInv

LEMMA SetupFailsKeeps == HsInv /\ SetupStepFails => HsInv'
<1> SUFFICES ASSUME HsInv, SetupStepFails
             PROVE  HsInv'
    OBVIOUS
<1> DEFINE w == Writes(SetupSteps[hsStep])
<1>1. /\ hsPhase = "setup" /\ hsStep <= Len(SetupSteps)
      /\ hsPhase' = "idle" /\ UNCHANGED hsStuck
    BY DEF SetupStepFails, Ends
<1>2. PICK k \in 0 .. Len(w) :
        /\ Written(w, k)
        /\ hsTorn' = (hsTorn \/ (k \in 1 .. Len(w) - 1 /\ w[1] = "userRecord"))
    BY DEF SetupStepFails
<1>3. /\ Firewall \subseteq hsHost' \/ hsHost' \intersect Sudoers \subseteq hsStuck'
      /\ "userRecord" \in hsHost' /\ ~hsTorn =>
           Account \subseteq hsHost' \/ (k \in 1 .. Len(w) - 1 /\ w[1] = "userRecord")
    BY <1>1, <1>2, WritingIsSafe
<1>4. hsTorn' \in BOOLEAN
    BY <1>2 DEF HsInv
<1>5. "userRecord" \in hsHost' /\ ~hsTorn' => Account \subseteq hsHost'
    BY <1>2, <1>3
<1> QED
    BY <1>1, <1>3, <1>4, <1>5 DEF HsInv, InitConverges

\* The version is saved once every step has returned.
LEMMA SaveKeeps == HsInv /\ SaveVersion => HsInv'
<1> SUFFICES ASSUME HsInv, SaveVersion
             PROVE  HsInv'
    OBVIOUS
<1>1. /\ hsPhase = "setup" /\ hsStep > 15 /\ hsStep \in Nat
      /\ hsPhase' \in {"initialised", "idle"}
      /\ UNCHANGED <<hsHost, hsStuck, hsTorn>>
    BY SetupLength DEF SaveVersion, HsInv
<1>2. \A i \in 1 .. 15 : Yields[i] \subseteq hsHost
    BY <1>1 DEF HsInv
<1>3. /\ Yields[2] \subseteq hsHost /\ Yields[3] \subseteq hsHost /\ Yields[4] \subseteq hsHost
      /\ Yields[5] \subseteq hsHost /\ Yields[6] \subseteq hsHost /\ Yields[7] \subseteq hsHost
      /\ Yields[8] \subseteq hsHost /\ Yields[9] \subseteq hsHost /\ Yields[10] \subseteq hsHost
      /\ Yields[11] \subseteq hsHost /\ Yields[12] \subseteq hsHost
    BY <1>2
<1>4. {"devGroup", "homeTraverse", "localRepo", "umask", "seatbelt", "wrappers", "completions",
       "safeDirectory", "pfAnchor", "pfRegistered", "dnsBlocklist", "launchDaemon",
       "launchHelper", "sudoers"} \subseteq hsHost
    BY <1>3 DEF Yields, Firewall
<1>5. Account \subseteq hsHost \/ hsTorn
    BY <1>1 DEF HsInv
<1>6. InitConverges'
    BY <1>1, <1>4, <1>5
    DEF InitConverges, Artifacts, Account, Sudoers, Firewall, InAgentHome
<1> QED
    BY <1>1, <1>6 DEF HsInv

----------------------------------------------------------------------------
\* A removal that is of neither an entry nor the account.
Harmless(removes) == removes \intersect (Sudoers \union Account) = {}

\* What a concatenation has at each place.
LEMMA ConcatAt ==
    ASSUME NEW S, NEW s \in Seq(S), NEW t \in Seq(S)
    PROVE  /\ s \o t \in Seq(S)
           /\ Len(s) \in Nat /\ Len(t) \in Nat
           /\ Len(s \o t) = Len(s) + Len(t)
           /\ \A i \in 1 .. Len(s) : (s \o t)[i] = s[i]
           /\ \A i \in 1 .. Len(t) : (s \o t)[Len(s) + i] = t[i]
<1>1. s \o t \in Seq(S)
    OBVIOUS
<1>2. Len(s) \in Nat /\ Len(t) \in Nat
    OBVIOUS
<1>3. Len(s \o t) = Len(s) + Len(t)
    OBVIOUS
<1>4. \A i \in 1 .. Len(s) : (s \o t)[i] = s[i]
    OBVIOUS
<1>5. \A i \in 1 .. Len(t) : (s \o t)[Len(s) + i] = t[i]
    <2> TAKE i \in 1 .. Len(t)
    <2>1. Len(s) + i \in 1 .. Len(s) + Len(t)
        BY <1>2
    <2> QED
        BY <1>2, <2>1, ConcatProperties
<1> QED
    BY <1>1, <1>2, <1>3, <1>4, <1>5

\* What a step may remove.
Removals == SUBSET Artifacts

LEMMA RemovalsConcat ==
    \A s, t \in Seq(Removals) : \A i \in 1 .. Len(t) : (s \o t)[Len(s) + i] = t[i]
BY ConcatAt

\* n steps of which the first two are the entries, or none is.
EntriesFirst(s, n) ==
    /\ s \in Seq(Removals) /\ Len(s) = n /\ n >= 2
    /\ s[1] = {"sudoers"} /\ s[2] = {"maintenanceSudoers"}
    /\ \A i \in 1 .. n : i > 2 => Harmless(s[i])
AllHarmless(t, m) ==
    /\ t \in Seq(Removals) /\ Len(t) = m
    /\ \A i \in 1 .. m : Harmless(t[i])

LEMMA HarmlessFollow ==
    ASSUME NEW s, NEW t, NEW n \in Nat, NEW m \in Nat, EntriesFirst(s, n), AllHarmless(t, m)
    PROVE  EntriesFirst(s \o t, n + m)
<1>1. /\ s \in Seq(Removals) /\ Len(s) = n /\ n >= 2
      /\ t \in Seq(Removals) /\ Len(t) = m
    BY DEF EntriesFirst, AllHarmless
<1>8. s \in Seq(Removals) /\ t \in Seq(Removals)
    BY <1>1
<1>6. /\ s \o t \in Seq(Removals)
      /\ Len(s) \in Nat /\ Len(t) \in Nat
      /\ Len(s \o t) = Len(s) + Len(t)
      /\ \A i \in 1 .. Len(s) : (s \o t)[i] = s[i]
      /\ \A i \in 1 .. Len(t) : (s \o t)[Len(s) + i] = t[i]
    <2>1. /\ s \o t \in Seq(Removals)
          /\ Len(s) \in Nat /\ Len(t) \in Nat
          /\ Len(s \o t) = Len(s) + Len(t)
        BY <1>8, ConcatAt, Zenon
    <2>2. \A i \in 1 .. Len(s) : (s \o t)[i] = s[i]
        BY <1>8, ConcatAt, Zenon
    <2>3. \A i \in 1 .. Len(t) : (s \o t)[Len(s) + i] = t[i]
        BY <1>8, RemovalsConcat, Zenon
    <2> QED
        BY <2>1, <2>2, <2>3
<1>7. PICK u : u = s \o t
    OBVIOUS
<1>2. /\ u \in Seq(Removals)
      /\ Len(u) = Len(s) + Len(t)
      /\ \A i \in 1 .. Len(s) : u[i] = s[i]
      /\ \A i \in 1 .. Len(t) : u[Len(s) + i] = t[i]
    BY <1>6, <1>7, Zenon
<1>3. Len(u) = n + m /\ u[1] = s[1] /\ u[2] = s[2]
    BY <1>1, <1>2
<1>4. ASSUME NEW i \in 1 .. n + m, i > 2
      PROVE  Harmless(u[i])
    <2>1. CASE i <= n
        <3>1. i \in 1 .. n /\ u[i] = s[i]
            BY <1>1, <1>2, <2>1
        <3> QED
            BY <1>4, <3>1 DEF EntriesFirst
    <2>2. CASE i > n
        <3> DEFINE j == i - n
        <3>1. j \in 1 .. m /\ i = n + j
            BY <2>2
        <3> HIDE DEF j
        <3>2. u[i] = t[j]
            BY <1>1, <1>2, <3>1
        <3> QED
            BY <3>1, <3>2 DEF AllHarmless
    <2> QED
        BY <2>1, <2>2
<1>5. EntriesFirst(u, n + m)
    BY <1>1, <1>2, <1>3, <1>4 DEF EntriesFirst
<1> QED
    BY <1>5, <1>7

LEMMA CoreByNumber == EntriesFirst(CoreRollbackSteps, 11)
<1> DEFINE c0 == RollbackSudoers
           c1 == c0 \o RollbackLaunchDaemon
           c2 == c1 \o RollbackPfFirewall
           c3 == c2 \o RollbackDNSBlocklist
           c4 == c3 \o RollbackSeatbelt
           c5 == c4 \o RollbackWrappers
           c6 == c5 \o RollbackHomeDirTraverse
           c7 == c6 \o RollbackUmask
           c8 == c7 \o RollbackLocalRepo
<1>1. EntriesFirst(c0, 2)
    BY DEF EntriesFirst, RollbackSudoers, Removals, Artifacts, Sudoers
<1>2. AllHarmless(RollbackLaunchDaemon, 1)
    BY DEF AllHarmless, RollbackLaunchDaemon, Harmless, Removals, Artifacts, Sudoers, Account, Firewall, InAgentHome
<1>3. AllHarmless(RollbackPfFirewall, 2)
    BY DEF AllHarmless, RollbackPfFirewall, Harmless, Removals, Artifacts, Sudoers, Account, Firewall, InAgentHome
<1>4. AllHarmless(RollbackDNSBlocklist, 1)
    BY DEF AllHarmless, RollbackDNSBlocklist, Harmless, Removals, Artifacts, Sudoers, Account, Firewall, InAgentHome
<1>5. AllHarmless(RollbackSeatbelt, 1)
    BY DEF AllHarmless, RollbackSeatbelt, Harmless, Removals, Artifacts, Sudoers, Account, Firewall, InAgentHome
<1>6. AllHarmless(RollbackWrappers, 1)
    BY DEF AllHarmless, RollbackWrappers, Harmless, Removals, Artifacts, Sudoers, Account, Firewall, InAgentHome
<1>7. AllHarmless(RollbackHomeDirTraverse, 1)
    BY DEF AllHarmless, RollbackHomeDirTraverse, Harmless, Removals, Artifacts, Sudoers, Account, Firewall, InAgentHome
<1>8. AllHarmless(RollbackUmask, 1)
    BY DEF AllHarmless, RollbackUmask, Harmless, Removals, Artifacts, Sudoers, Account, Firewall, InAgentHome
<1>9. AllHarmless(RollbackLocalRepo, 1)
    BY DEF AllHarmless, RollbackLocalRepo, Harmless, Removals, Artifacts, Sudoers, Account, Firewall, InAgentHome
<1> HIDE DEF c0, c1, c2, c3, c4, c5, c6, c7, c8
<1>10. EntriesFirst(c1, 3)
    <2>1. EntriesFirst(c0 \o RollbackLaunchDaemon, 2 + 1)
        BY <1>1, <1>2, HarmlessFollow
    <2> QED
        BY <2>1 DEF c1
<1>11. EntriesFirst(c2, 5)
    <2>1. EntriesFirst(c1 \o RollbackPfFirewall, 3 + 2)
        BY <1>10, <1>3, HarmlessFollow
    <2> QED
        BY <2>1 DEF c2
<1>12. EntriesFirst(c3, 6)
    <2>1. EntriesFirst(c2 \o RollbackDNSBlocklist, 5 + 1)
        BY <1>11, <1>4, HarmlessFollow
    <2> QED
        BY <2>1 DEF c3
<1>13. EntriesFirst(c4, 7)
    <2>1. EntriesFirst(c3 \o RollbackSeatbelt, 6 + 1)
        BY <1>12, <1>5, HarmlessFollow
    <2> QED
        BY <2>1 DEF c4
<1>14. EntriesFirst(c5, 8)
    <2>1. EntriesFirst(c4 \o RollbackWrappers, 7 + 1)
        BY <1>13, <1>6, HarmlessFollow
    <2> QED
        BY <2>1 DEF c5
<1>15. EntriesFirst(c6, 9)
    <2>1. EntriesFirst(c5 \o RollbackHomeDirTraverse, 8 + 1)
        BY <1>14, <1>7, HarmlessFollow
    <2> QED
        BY <2>1 DEF c6
<1>16. EntriesFirst(c7, 10)
    <2>1. EntriesFirst(c6 \o RollbackUmask, 9 + 1)
        BY <1>15, <1>8, HarmlessFollow
    <2> QED
        BY <2>1 DEF c7
<1>17. EntriesFirst(c8, 11)
    <2>1. EntriesFirst(c7 \o RollbackLocalRepo, 10 + 1)
        BY <1>16, <1>9, HarmlessFollow
    <2> QED
        BY <2>1 DEF c8
<1> QED
    BY <1>17 DEF c0, c1, c2, c3, c4, c5, c6, c7, c8, CoreRollbackSteps

\* The rollback steps by their number: the sudoers entries first, the account late.
LEMMA RollbackByNumber ==
    /\ RollbackSteps[1] = {"sudoers"}
    /\ RollbackSteps[2] = {"maintenanceSudoers"}
    /\ \A i \in 1 .. Len(RollbackSteps) :
         /\ i > 2 => RollbackSteps[i] \intersect Sudoers = {}
         /\ i < 12 => RollbackSteps[i] \intersect Account = {}
         /\ i = 12 => RollbackSteps[i] = {"userRecord", "hiddenAccount"}
         /\ i > 12 => "userRecord" \notin RollbackSteps[i]
<1> DEFINE c == CoreRollbackSteps
           d == DestructiveRollbackSteps
<1>1. /\ c \in Seq(Removals) /\ Len(c) = 11
      /\ c[1] = {"sudoers"} /\ c[2] = {"maintenanceSudoers"}
      /\ \A i \in 1 .. 11 : i > 2 => Harmless(c[i])
    BY CoreByNumber DEF EntriesFirst
<1>2. d \in Seq(Removals)
    <2>1. CASE hsOptions.delete
        <3>1. /\ RollbackAgentUser \in Seq(Removals)
              /\ RollbackDevGroup \in Seq(Removals)
            BY DEF RollbackAgentUser, RollbackDevGroup, Removals, Artifacts, Account, InAgentHome
        <3> QED
            BY <2>1, <3>1 DEF DestructiveRollbackSteps
    <2>2. CASE ~hsOptions.delete
        BY <2>2 DEF DestructiveRollbackSteps
    <2> QED
        BY <2>1, <2>2
<1>3. \A i \in 1 .. Len(d) : /\ d[i] \intersect Sudoers = {}
                             /\ i = 1 => d[i] = {"userRecord", "hiddenAccount"}
                             /\ i > 1 => "userRecord" \notin d[i]
    <2>1. CASE hsOptions.delete
        <3>1. d = RollbackAgentUser \o RollbackDevGroup
            BY <2>1 DEF DestructiveRollbackSteps
        <3>2. /\ Len(d) = 3 /\ d[1] = {"userRecord", "hiddenAccount"}
              /\ d[2] = {"agentHome"} \union InAgentHome /\ d[3] = {"devGroup"}
            BY <3>1 DEF RollbackAgentUser, RollbackDevGroup
        <3>3. \A i \in 1 .. 3 : i = 1 \/ i = 2 \/ i = 3
            OBVIOUS
        <3> HIDE DEF d
        <3> QED
            BY <3>2, <3>3 DEF Sudoers, InAgentHome
    <2>2. CASE ~hsOptions.delete
        BY <2>2 DEF DestructiveRollbackSteps
    <2> QED
        BY <2>1, <2>2
<1> HIDE DEF c, d
<1>10. c \in Seq(Removals) /\ d \in Seq(Removals)
    BY <1>1, <1>2
<1>8. /\ c \o d \in Seq(Removals)
      /\ Len(c) \in Nat /\ Len(d) \in Nat
      /\ Len(c \o d) = Len(c) + Len(d)
      /\ \A i \in 1 .. Len(c) : (c \o d)[i] = c[i]
      /\ \A i \in 1 .. Len(d) : (c \o d)[Len(c) + i] = d[i]
    <2>1. /\ c \o d \in Seq(Removals)
          /\ Len(c) \in Nat /\ Len(d) \in Nat
          /\ Len(c \o d) = Len(c) + Len(d)
        BY <1>10, ConcatAt, Zenon
    <2>2. \A i \in 1 .. Len(c) : (c \o d)[i] = c[i]
        BY <1>10, ConcatAt, Zenon
    <2>3. \A i \in 1 .. Len(d) : (c \o d)[Len(c) + i] = d[i]
        BY <1>10, RemovalsConcat, Zenon
    <2> QED
        BY <2>1, <2>2, <2>3
<1>9. PICK u : u = c \o d
    OBVIOUS
<1>4. /\ Len(u) = Len(c) + Len(d) /\ Len(d) \in Nat
      /\ \A i \in 1 .. Len(c) : u[i] = c[i]
      /\ \A i \in 1 .. Len(d) : u[Len(c) + i] = d[i]
    BY <1>8, <1>9, Zenon
<1>5. RollbackSteps = u
    BY <1>9 DEF c, d, RollbackSteps
<1>6. u[1] = {"sudoers"} /\ u[2] = {"maintenanceSudoers"}
    BY <1>1, <1>4
<1>7. ASSUME NEW i \in 1 .. Len(u)
      PROVE  /\ i > 2 => u[i] \intersect Sudoers = {}
             /\ i < 12 => u[i] \intersect Account = {}
             /\ i = 12 => u[i] = {"userRecord", "hiddenAccount"}
             /\ i > 12 => "userRecord" \notin u[i]
    <2>1. CASE i \in {1, 2}
        BY <1>6, <2>1 DEF Account
    <2>2. CASE i \in 3 .. 11
        <3>1. Harmless(u[i])
            BY <1>1, <1>4, <2>2
        <3> QED
            BY <2>2, <3>1 DEF Harmless
    <2>3. CASE i > 11
        <3> DEFINE j == i - 11
        <3>1. j \in 1 .. Len(d) /\ i = 11 + j
            BY <1>1, <1>4, <2>3
        <3>2. (i = 12 <=> j = 1) /\ (i > 12 <=> j > 1)
            BY <1>4, <3>1
        <3> HIDE DEF j
        <3>3. u[i] = d[j]
            BY <1>1, <1>4, <3>1
        <3> QED
            BY <1>3, <2>3, <3>1, <3>2, <3>3
    <2> QED
        BY <1>1, <1>4, <2>1, <2>2, <2>3
<1> QED
    BY <1>5, <1>6, <1>7

LEMMA RollbackStepKeeps == HsInv /\ RunRollbackStep => HsInv'
<1> SUFFICES ASSUME HsInv, RunRollbackStep
             PROVE  HsInv'
    OBVIOUS
<1> DEFINE removes == RollbackSteps[hsStep]
<1>1. /\ hsPhase = "rollback" /\ hsPhase' = "rollback"
      /\ hsStep \in 1 .. Len(RollbackSteps) /\ hsStep \in Nat \ {0} /\ hsStep' = hsStep + 1
    BY DEF RunRollbackStep, HsInv
<1>2. PICK kept \in SUBSET (removes \intersect hsHost) :
        /\ hsHost' = hsHost \ ((removes \intersect hsHost) \ kept)
        /\ hsStuck' = (hsStuck \ ((removes \intersect hsHost) \ kept))
                        \union (kept \intersect Sudoers)
        /\ hsTorn' = (hsTorn \/ kept \intersect Account # {})
    BY DEF RunRollbackStep, Failing
<1>3. hsTorn' \in BOOLEAN
    BY <1>2 DEF HsInv
<1>4. hsHost' \subseteq hsHost
    BY <1>2
<1>5. \A x \in hsStuck : x \in hsHost' => x \in hsStuck'
    BY <1>2
<1>6. /\ "sudoers" \in hsHost' => "sudoers" \in hsStuck'
      /\ hsStep > 1 /\ "maintenanceSudoers" \in hsHost' => "maintenanceSudoers" \in hsStuck'
    <2>1. CASE hsStep = 1
        BY <2>1, <1>2, RollbackByNumber DEF Sudoers
    <2>2. CASE hsStep = 2
        BY <2>2, <1>1, <1>2, <1>4, <1>5, RollbackByNumber DEF Sudoers, HsInv
    <2>3. CASE hsStep > 2
        BY <2>3, <1>1, <1>4, <1>5 DEF HsInv
    <2> QED
        BY <1>1, <2>1, <2>2, <2>3
<1>7. Firewall \subseteq hsHost' \/ hsHost' \intersect Sudoers \subseteq hsStuck'
    <2>1. CASE hsStep = 1
        <3>1. removes \intersect Firewall = {}
            BY <2>1, RollbackByNumber DEF Firewall
        <3> QED
            BY <3>1, <1>2, <1>4, <1>5 DEF HsInv
    <2>2. CASE hsStep > 1
        BY <2>2, <1>6 DEF Sudoers
    <2> QED
        BY <1>1, <2>1, <2>2
<1>8. hsStep >= 12 => "userRecord" \notin hsHost' \/ hsTorn'
    <2>1. CASE hsStep = 12
        <3>1. removes = {"userRecord", "hiddenAccount"}
            BY <2>1, <1>1, RollbackByNumber
        <3> QED
            BY <3>1, <1>2 DEF Account
    <2>2. CASE hsStep > 12
        BY <2>2, <1>1, <1>2, <1>4 DEF HsInv
    <2> QED
        BY <1>1, <2>1, <2>2
<1>9. "userRecord" \in hsHost' /\ ~hsTorn' => Account \subseteq hsHost'
    <2>1. CASE hsStep < 12
        <3>1. removes \intersect Account = {}
            BY <2>1, <1>1, RollbackByNumber
        <3> QED
            BY <3>1, <1>2, <1>4 DEF HsInv
    <2>2. CASE hsStep >= 12
        BY <2>2, <1>8
    <2> QED
        BY <1>1, <2>1, <2>2
<1>10. InitConverges'
    BY <1>1 DEF InitConverges
<1> QED
    BY <1>1, <1>3, <1>6, <1>7, <1>8, <1>9, <1>10 DEF HsInv

\* The reverse migrations touch neither the entries nor the firewall nor the account.
LEMMA DownMigrationsKeep == HsInv /\ RunDownMigrations => HsInv'
<1> SUFFICES ASSUME HsInv, RunDownMigrations
             PROVE  HsInv'
    OBVIOUS
<1>1. PICK removed \in SUBSET {"completions", "npmrc", "pipConf", "homeTraverse"} :
        hsHost' = hsHost \ removed
    <2> DEFINE removes ==
                 UNION {MigrateDown(v) : v \in 2 .. (IF hsVersion \in KnownVersions
                                                     THEN hsVersion ELSE 0)}
    <2>1. \A v : MigrateDown(v) \subseteq {"completions", "npmrc", "pipConf", "homeTraverse"}
        BY DEF MigrateDown
    <2>2. removes \subseteq {"completions", "npmrc", "pipConf", "homeTraverse"}
        BY <2>1
    <2>3. \E kept \in SUBSET (removes \intersect hsHost) : hsHost' = hsHost \ (removes \ kept)
        BY DEF RunDownMigrations, Failing
    <2> HIDE DEF removes
    <2> QED
        BY <2>2, <2>3
<1>2. hsPhase' = "rollback" /\ hsStep' = 1 /\ UNCHANGED <<hsStuck, hsTorn>>
    BY DEF RunDownMigrations
<1> QED
    BY <1>1, <1>2 DEF HsInv, InitConverges, Sudoers, Firewall, Account

LEMMA HsInvNext == HsInv /\ [HsNext]_hsVars => HsInv'
<1> SUFFICES ASSUME HsInv, [HsNext]_hsVars
             PROVE  HsInv'
    OBVIOUS
<1>1. CASE RunInit
    <2>1. hsPhase' = "migrate" /\ UNCHANGED <<hsHost, hsStuck, hsTorn>>
        BY <1>1 DEF RunInit, Start
    <2> QED
        BY <2>1 DEF HsInv, InitConverges
<1>2. CASE RunMigrations
    <2>1. /\ hsPhase' \in {"migrate", "setup"}
          /\ hsPhase' = "setup" => hsStep' = 1
          /\ UNCHANGED <<hsStuck, hsTorn>>
        BY <1>2 DEF RunMigrations
    <2>2. hsHost' \in {hsHost, hsHost \ {"workspaceLink"}}
        BY <1>2 DEF RunMigrations, MigrateUp
    <2> QED
        BY <2>1, <2>2 DEF HsInv, InitConverges, Sudoers, Firewall, Account
<1>3. CASE RunSetupStep
    BY <1>3, SetupStepKeeps
<1>4. CASE SetupStepFails
    BY <1>4, SetupFailsKeeps
<1>5. CASE SaveVersion
    BY <1>5, SaveKeeps
<1>6. CASE Return
    BY <1>6 DEF Return, Ends, HsInv, InitConverges
<1>7. CASE RunRollback
    <2>1. hsPhase' = "down" /\ UNCHANGED <<hsHost, hsStuck, hsTorn>>
        BY <1>7 DEF RunRollback, Start
    <2> QED
        BY <2>1 DEF HsInv, InitConverges
<1>8. CASE RunDownMigrations
    BY <1>8, DownMigrationsKeep
<1>9. CASE RunRollbackStep
    BY <1>9, RollbackStepKeeps
<1>10. CASE RollbackReturns
    BY <1>10 DEF RollbackReturns, HsInv, InitConverges
<1>11. CASE RollbackDies
    BY <1>11 DEF RollbackDies, Ends, HsInv, InitConverges
<1>12. CASE EditPfConf
    BY <1>12 DEF EditPfConf, HsInv, InitConverges
<1>13. CASE UNCHANGED hsVars
    BY <1>13 DEF hsVars, HsInv, InitConverges
<1> QED
    BY <1>1, <1>2, <1>3, <1>4, <1>5, <1>6, <1>7, <1>8, <1>9, <1>10, <1>11, <1>12, <1>13
    DEF HsNext

\* init.go and rollback.go: the sudoers entries stand behind the firewall, or a
\* rollback has said that it could not remove one; and an init that returns without
\* an error has set the host up.
THEOREM SetupContainsAndConverges == HsSpec => [](ContainedOrStuck /\ InitConverges)
<1>1. HsInv => ContainedOrStuck /\ InitConverges
    BY DEF HsInv, ContainedOrStuck, Contained
<1> QED
    BY <1>1, HsInvInit, HsInvNext, PTL DEF HsSpec

----------------------------------------------------------------------------
(* LinuxSetup.                                                             *)

\* The rule stands behind its prerequisites, and a rollback that finds it begins
\* with it.
LsInv ==
    /\ lsDrifts \in Nat
    /\ lsPhase = "rollback" /\ "sudoers" \in lsPresent => Head(lsSteps) = "sudoers"
    /\ PrivilegeLast

LEMMA LsInvInit == LsInit => LsInv
BY DEF LsInit, LsInv, PrivilegeLast

LEMMA AskedIsSeq == ASSUME NEW S, NEW r \in S, NEW delete PROVE Asked(r, delete) \in Seq(S)
BY DEF Asked

LEMMA RollbackBeginsWithSudoers == ASSUME NEW delete PROVE Head(LsRollbackSteps(delete)) = "sudoers"
<1> DEFINE first == <<"sudoers", "launchHelper", "cgroupRoot", "firewallPolicy", "resolverPolicy",
                      "workspaceAccess">>
           S == {"sudoers", "launchHelper", "cgroupRoot", "firewallPolicy", "resolverPolicy",
                 "workspaceAccess", "toolHome", "agentHome", "agentUser", "sharedGroup"}
<1>1. first \in Seq(S) /\ Len(first) = 6 /\ first[1] = "sudoers"
    OBVIOUS
<1>2. /\ Asked("toolHome", delete) \in Seq(S) /\ Asked("agentHome", delete) \in Seq(S)
      /\ Asked("agentUser", delete) \in Seq(S) /\ Asked("sharedGroup", delete) \in Seq(S)
    <2>1. "toolHome" \in S /\ "agentHome" \in S /\ "agentUser" \in S /\ "sharedGroup" \in S
        OBVIOUS
    <2> HIDE DEF S
    <2> QED
        BY <2>1, AskedIsSeq
<1> HIDE DEF first, S
<1>3. ASSUME NEW s \in Seq(S), NEW t \in Seq(S), Len(s) >= 6, s[1] = "sudoers"
      PROVE  s \o t \in Seq(S) /\ Len(s \o t) >= 6 /\ (s \o t)[1] = "sudoers"
    BY <1>3, ConcatProperties
<1> DEFINE a == first \o Asked("toolHome", delete)
           b == a \o Asked("agentHome", delete)
           c == b \o Asked("agentUser", delete)
           d == c \o Asked("sharedGroup", delete)
<1>9. Len(first) >= 6
    BY <1>1
<1>4. a \in Seq(S) /\ Len(a) >= 6 /\ a[1] = "sudoers"
    BY <1>1, <1>2, <1>3, <1>9
<1> HIDE DEF a
<1>5. b \in Seq(S) /\ Len(b) >= 6 /\ b[1] = "sudoers"
    BY <1>2, <1>3, <1>4
<1> HIDE DEF b
<1>6. c \in Seq(S) /\ Len(c) >= 6 /\ c[1] = "sudoers"
    BY <1>2, <1>3, <1>5
<1> HIDE DEF c
<1>7. d \in Seq(S) /\ Len(d) >= 6 /\ d[1] = "sudoers"
    BY <1>2, <1>3, <1>6
<1> HIDE DEF d
<1>8. Head(d) = "sudoers"
    BY <1>7
<1> QED
    BY <1>8 DEF first, a, b, c, d, LsRollbackSteps

\* The rule is let in behind its prerequisites, and no apply takes one away.
LEMMA ApplyKeepsPrivilegeLast ==
    ASSUME NEW r, PrivilegeLast, LsApply(r), UNCHANGED lsDrifts
    PROVE  PrivilegeLast'
<1>1. CASE r = "sudoers"
    BY <1>1 DEF LsApply, applySudoers, PrivilegeLast
<1>2. CASE r # "sudoers"
    <2>1. lsPresent' \in {lsPresent, lsPresent \union {r}}
        BY <1>2 DEF LsApply, applyResource
    <2> QED
        BY <1>2, <2>1 DEF PrivilegeLast
<1> QED
    BY <1>1, <1>2

LEMMA LsInvNext == LsInv /\ [LsNext]_lsVars => LsInv'
<1> SUFFICES ASSUME LsInv, [LsNext]_lsVars
             PROVE  LsInv'
    OBVIOUS
<1>1. CASE RunSetupSteps
    BY <1>1 DEF RunSetupSteps, BeginCommand, LsInv, PrivilegeLast
<1>2. CASE RunRepairAction
    <2>1. lsPhase' = "repair" /\ UNCHANGED <<lsPresent, lsDrifts>>
        BY <1>2 DEF RunRepairAction, BeginCommand
    <2> QED
        BY <2>1 DEF LsInv, PrivilegeLast
<1>3. CASE runLinuxRollback
    <2>1. UNCHANGED <<lsPresent, lsDrifts>>
        BY <1>3 DEF runLinuxRollback, BeginCommand
    <2>2. PICK delete : lsSteps' = LsRollbackSteps(delete)
        BY <1>3 DEF runLinuxRollback
    <2> QED
        BY <2>1, <2>2, RollbackBeginsWithSudoers DEF LsInv, PrivilegeLast
<1>4. CASE runSetupStep
    <2>1. /\ lsPhase' \in {"idle", "setup"} /\ UNCHANGED lsDrifts
          /\ LsApply(Head(lsSteps))
        BY <1>4 DEF runSetupStep, LsStepDone
    <2> QED
        BY <2>1, ApplyKeepsPrivilegeLast DEF LsInv
<1>5. CASE applyLinuxSetupRepair
    <2>1. lsPhase' = "verify" /\ UNCHANGED lsDrifts /\ LsApply(Head(lsSteps))
        BY <1>5 DEF applyLinuxSetupRepair
    <2> QED
        BY <2>1, ApplyKeepsPrivilegeLast DEF LsInv
<1>6. CASE verifyLinuxSetupRepair
    BY <1>6 DEF verifyLinuxSetupRepair, LsInv, PrivilegeLast
<1>7. CASE runRollbackStep
    <2>1. /\ lsPhase = "rollback" /\ UNCHANGED lsDrifts
          /\ lsPresent' = lsPresent \ LsRemoved(Head(lsSteps))
        BY <1>7 DEF runRollbackStep, LsRollback
    <2>2. "sudoers" \notin lsPresent'
        <3>1. LsRemoved("sudoers") = {"sudoers"}
            BY DEF LsRemoved
        <3> QED
            BY <2>1, <3>1 DEF LsInv
    <2> QED
        BY <2>1, <2>2 DEF LsInv, PrivilegeLast
<1>8. CASE LinuxStepFails
    BY <1>8 DEF LinuxStepFails, LsInv, PrivilegeLast
<1>9. CASE LinuxDrifts
    <2>1. lsPhase' = "idle" /\ lsDrifts' = lsDrifts + 1
        BY <1>9 DEF LinuxDrifts
    <2> QED
        BY <2>1 DEF LsInv, PrivilegeLast
<1>10. CASE UNCHANGED lsVars
    BY <1>10 DEF lsVars, LsInv, PrivilegeLast
<1> QED
    BY <1>1, <1>2, <1>3, <1>4, <1>5, <1>6, <1>7, <1>8, <1>9, <1>10 DEF LsNext

\* internal/setup/linux and its rollback: as long as the host takes nothing away by
\* itself, the sudoers rule stands only behind what contains the agent.
THEOREM LinuxPrivilegeIsLast == LsSpec => []PrivilegeLast
<1>1. LsInv => PrivilegeLast
    BY DEF LsInv
<1> QED
    BY <1>1, LsInvInit, LsInvNext, PTL DEF LsSpec

----------------------------------------------------------------------------
(* DiagnosticRepair.                                                       *)

\* No two checks make the same finding.
LEMMA ChecksDiffer ==
    /\ Checks \in Seq(DrFindings)
    /\ \A i, j \in DOMAIN Checks : Checks[i] = Checks[j] => i = j
<1> DEFINE base == BaseFindings
           agent == SetToSeq(AgentFindings)
<1>1. agent \in [1 .. Cardinality(AgentFindings) -> AgentFindings] /\ IsInjective(agent)
    <2>1. ExistsBijection(1 .. Cardinality(AgentFindings), AgentFindings)
        BY DrAssumption, FS_CardinalityType DEF DrAssumption
    <2>2. \E f \in [1 .. Cardinality(AgentFindings) -> AgentFindings] : IsInjective(f)
        BY <2>1 DEF ExistsBijection, Bijection, Injection
    <2> QED
        BY <2>2 DEF SetToSeq
<1>2. Cardinality(AgentFindings) \in Nat
    BY DrAssumption, FS_CardinalityType DEF DrAssumption
<1>3. /\ agent \in Seq(AgentFindings) /\ DOMAIN agent = 1 .. Len(agent)
      /\ \A i, j \in 1 .. Len(agent) : agent[i] = agent[j] => i = j
    BY <1>1, <1>2 DEF IsInjective
<1>4. /\ base \in Seq(Range(BaseFindings)) /\ Len(base) = 9
      /\ \A i, j \in 1 .. 9 : base[i] = base[j] => i = j
      /\ \A i \in 1 .. 9 : base[i] \in Range(BaseFindings)
    <2>1. \A i, j \in 1 .. 9 : base[i] = base[j] => i = j
        BY SMTT(60) DEF BaseFindings
    <2>2. base \in Seq(Range(BaseFindings)) /\ Len(base) = 9
        BY DEF BaseFindings, Range
    <2>3. \A i \in 1 .. 9 : base[i] \in Range(BaseFindings)
        BY <2>2 DEF Range
    <2> QED
        BY <2>1, <2>2, <2>3
<1> HIDE DEF base, agent
<1>5. base \in Seq(DrFindings) /\ agent \in Seq(DrFindings)
    BY <1>3, <1>4 DEF DrFindings
<1>6. PICK u : u = base \o agent
    OBVIOUS
<1>7. /\ u \in Seq(DrFindings) /\ Len(agent) \in Nat
      /\ Len(u) = 9 + Len(agent)
    <2>1. Len(agent) \in Nat
        BY <1>5
    <2>2. u \in Seq(DrFindings) /\ Len(u) = Len(base) + Len(agent)
        BY <1>5, <1>6, ConcatProperties
    <2> QED
        BY <1>4, <2>1, <2>2
<1>8. \A i \in 1 .. Len(u) : u[i] = IF i <= 9 THEN base[i] ELSE agent[i - 9]
    BY <1>4, <1>5, <1>6, <1>7, ConcatProperties
<1>9. ASSUME NEW i \in 1 .. Len(u), NEW j \in 1 .. Len(u), u[i] = u[j]
      PROVE  i = j
    <2>1. \A k \in 1 .. Len(u) : k > 9 => k - 9 \in 1 .. Len(agent)
        BY <1>7
    <2>2. \A k \in 1 .. Len(agent) : agent[k] \in AgentFindings
        BY <1>3
    <2>3. AgentFindings \intersect Range(BaseFindings) = {}
        BY DrAssumption DEF DrAssumption
    <2>4. CASE i <= 9 /\ j <= 9
        BY <1>4, <1>8, <1>9, <2>4
    <2>5. CASE i > 9 /\ j > 9
        BY <1>3, <1>7, <1>8, <1>9, <2>1, <2>5
    <2>6. CASE i <= 9 /\ j > 9
        <3>1. u[i] \in Range(BaseFindings)
            BY <1>4, <1>8, <2>6
        <3>2. u[j] \in AgentFindings
            <4>1. j - 9 \in 1 .. Len(agent) /\ u[j] = agent[j - 9]
                BY <1>7, <1>8, <2>1, <2>6
            <4> QED
                BY <2>2, <4>1
        <3> QED
            BY <1>9, <2>3, <3>1, <3>2
    <2>7. CASE i > 9 /\ j <= 9
        <3>1. u[j] \in Range(BaseFindings)
            BY <1>4, <1>8, <2>7
        <3>2. u[i] \in AgentFindings
            <4>1. i - 9 \in 1 .. Len(agent) /\ u[i] = agent[i - 9]
                BY <1>7, <1>8, <2>1, <2>7
            <4> QED
                BY <2>2, <4>1
        <3> QED
            BY <1>9, <2>3, <3>1, <3>2
    <2> QED
        BY <1>7, <2>4, <2>5, <2>6, <2>7
<1>10. Checks = u
    BY <1>6 DEF Checks, base, agent
<1>11. DOMAIN u = 1 .. Len(u)
    BY <1>7
<1> QED
    BY <1>7, <1>9, <1>10, <1>11

----------------------------------------------------------------------------
\* What no repair of the finding f takes from the host.
Keeps(f, h, k) ==
    /\ h.home => k.home
    /\ h.group => k.group
    /\ h.traverse => k.traverse
    /\ h.workspace => k.workspace
    /\ h.user # "absent" => k.user # "absent"
    /\ f # "agent-user" => k.user = h.user
    /\ k.helper = h.helper
    /\ f # "sudoers" /\ h.sudoers => k.sudoers
    /\ f # "pf" /\ verifyNetworkPF(h) => verifyNetworkPF(k)
    /\ f # "dns-blocklist" => k.dns = h.dns
    /\ h.plist => k.plist
    /\ h.daemon => k.daemon
    /\ h.registered => k.registered
    /\ h.agentSide \subseteq k.agentSide

LEMMA KeepsRefl == ASSUME NEW f, NEW h PROVE Keeps(f, h, h)
BY DEF Keeps

LEMMA KeepsTrans ==
    ASSUME NEW f, NEW h, NEW k, NEW l, Keeps(f, h, k), Keeps(f, k, l)
    PROVE  Keeps(f, h, l)
BY DEF Keeps

\* So that what one verified stays verified by the repair of another.
LEMMA KeepsVerified ==
    ASSUME NEW f, NEW g, NEW h, NEW k, Keeps(f, h, k), f # g, VerifyDiagnosticRepair(g, h)
    PROVE  VerifyDiagnosticRepair(g, k)
<1>1. CASE g = "agent-user"
    BY <1>1 DEF VerifyDiagnosticRepair, Keeps
<1>2. CASE g = "agent-home"
    BY <1>2 DEF VerifyDiagnosticRepair, Keeps
<1>3. CASE g = "dev-group"
    BY <1>3 DEF VerifyDiagnosticRepair, Keeps
<1>4. CASE g = "home-traverse"
    BY <1>4 DEF VerifyDiagnosticRepair, Keeps
<1>5. CASE g = "workspace"
    BY <1>5 DEF VerifyDiagnosticRepair, Keeps
<1>6. CASE g = "sudoers"
    BY <1>6 DEF VerifyDiagnosticRepair, Keeps, verifySetupSudoers
<1>7. CASE g = "pf"
    BY <1>7 DEF VerifyDiagnosticRepair, Keeps
<1>8. CASE g = "dns-blocklist"
    BY <1>8 DEF VerifyDiagnosticRepair, Keeps
<1>9. CASE g = "persistence"
    BY <1>9 DEF VerifyDiagnosticRepair, Keeps, verifyNetworkPersistence
<1>10. CASE g \notin {"agent-user", "agent-home", "dev-group", "home-traverse", "workspace",
                      "sudoers", "pf", "dns-blocklist", "persistence"}
    BY <1>10 DEF VerifyDiagnosticRepair, Keeps
<1> QED
    BY <1>1, <1>2, <1>3, <1>4, <1>5, <1>6, <1>7, <1>8, <1>9, <1>10

----------------------------------------------------------------------------
\* The host of a result, with the blocks of .zshrc a blind one may have lost given back.
Unlost(r) ==
    IF r.blind THEN [r.host EXCEPT !.agentSide = @ \union ShellFindings] ELSE r.host

\* A repair of f applied to a host: the result is a host that kept what it should.
Sound(f, h, r) == r.host \in Hosts /\ r.blind \in BOOLEAN /\ Keeps(f, h, Unlost(r))

LEMMA SoundResults ==
    ASSUME NEW f, NEW h, NEW k \in Hosts, Keeps(f, h, k)
    PROVE  Sound(f, h, Done(k)) /\ Sound(f, h, Failed(k))
BY DEF Sound, Done, Failed, Unlost

LEMMA AgentUserSound ==
    ASSUME NEW h \in Hosts, NEW r \in setupAgentUser(h)
    PROVE  Sound("agent-user", h, r)
<1> DEFINE made == [h EXCEPT !.user = "made", !.home = TRUE]
           half == [h EXCEPT !.user = "unfinished"]
<1>1. made \in Hosts /\ half \in Hosts
    BY DEF Hosts
<1>2. h.user = "absent" => Keeps("agent-user", h, made) /\ Keeps("agent-user", h, half)
    BY DEF Hosts, Keeps, verifyNetworkPF
<1>3. r \in {Done(h), Failed(h)} \/ (h.user = "absent" /\ r \in {Done(made), Failed(half)})
    BY DEF setupAgentUser
<1> HIDE DEF made, half
<1> QED
    BY <1>1, <1>2, <1>3, KeepsRefl, SoundResults

LEMMA AgentHomeSound ==
    ASSUME NEW h \in Hosts, NEW r \in applySetupAgentHome(h)
    PROVE  Sound("agent-home", h, r)
<1> DEFINE k == [h EXCEPT !.home = TRUE]
<1>1. k \in Hosts
    BY DEF Hosts
<1>2. Keeps("agent-home", h, k)
    BY DEF Hosts, Keeps, verifyNetworkPF
<1>3. r \in {Failed(h), Done(k)}
    BY DEF applySetupAgentHome
<1> HIDE DEF k
<1> QED
    BY <1>1, <1>2, <1>3, KeepsRefl, SoundResults

LEMMA DevGroupSound ==
    ASSUME NEW h \in Hosts, NEW r \in setupDevGroup(h)
    PROVE  Sound("dev-group", h, r)
<1> DEFINE k == [h EXCEPT !.group = TRUE]
<1>1. k \in Hosts
    BY DEF Hosts
<1>2. Keeps("dev-group", h, k)
    BY DEF Hosts, Keeps, verifyNetworkPF
<1>3. r \in {Failed(h), Done(k)}
    BY DEF setupDevGroup
<1> HIDE DEF k
<1> QED
    BY <1>1, <1>2, <1>3, KeepsRefl, SoundResults

LEMMA HomeTraverseSound ==
    ASSUME NEW h \in Hosts, NEW r \in setupHomeDirTraverse(h)
    PROVE  Sound("home-traverse", h, r)
<1> DEFINE k == [h EXCEPT !.traverse = TRUE]
<1>1. k \in Hosts
    BY DEF Hosts
<1>2. Keeps("home-traverse", h, k)
    BY DEF Hosts, Keeps, verifyNetworkPF
<1>3. r \in {Failed(h), Done(k)}
    BY DEF setupHomeDirTraverse
<1> HIDE DEF k
<1> QED
    BY <1>1, <1>2, <1>3, KeepsRefl, SoundResults

LEMMA WorkspaceSound ==
    ASSUME NEW h \in Hosts, NEW r \in applyWorkspaceRepair(h)
    PROVE  Sound("workspace", h, r)
<1> DEFINE k == [h EXCEPT !.workspace = TRUE]
<1>1. k \in Hosts
    BY DEF Hosts
<1>2. Keeps("workspace", h, k)
    BY DEF Hosts, Keeps, verifyNetworkPF
<1>3. r \in {Failed(h), Done(k)}
    BY DEF applyWorkspaceRepair
<1> HIDE DEF k
<1> QED
    BY <1>1, <1>2, <1>3, KeepsRefl, SoundResults

LEMMA SudoersSound ==
    ASSUME NEW h \in Hosts, NEW r \in setupSudoers(h)
    PROVE  Sound("sudoers", h, r)
<1> DEFINE k == [h EXCEPT !.sudoers = TRUE]
           l == [h EXCEPT !.sudoers = FALSE]
<1>1. k \in Hosts /\ l \in Hosts
    BY DEF Hosts
<1>2. Keeps("sudoers", h, k) /\ Keeps("sudoers", h, l)
    BY DEF Hosts, Keeps, verifyNetworkPF
<1>3. r \in {Failed(h), Done(k), Failed(l)}
    BY DEF setupSudoers
<1> HIDE DEF k, l
<1> QED
    BY <1>1, <1>2, <1>3, KeepsRefl, SoundResults

\* The firewall step may be run by two repairs.
LEMMA FirewallSound ==
    ASSUME NEW f, NEW h \in Hosts, NEW r \in setupPfFirewall(h)
    PROVE  Sound(f, h, r)
<1> DEFINE written == [h EXCEPT !.anchor = IF @ = "absent" THEN "current" ELSE @]
           registered == [written EXCEPT !.registered = TRUE]
           loaded == [registered EXCEPT !.loaded = registered.anchor]
<1>1. h.anchor \in {"absent", "stale", "current"}
    BY DEF Hosts
<1>2. written \in Hosts /\ written.anchor \in {"stale", "current"}
    BY <1>1 DEF Hosts
<1>3. Keeps(f, h, written)
    BY <1>1 DEF Hosts, Keeps, verifyNetworkPF
<1>8. r \in {Failed(h), Failed(written), Done(registered), Done(loaded)}
    BY DEF setupPfFirewall
<1> HIDE DEF written
<1>4. registered \in Hosts /\ registered.anchor \in {"stale", "current"}
    BY <1>2 DEF Hosts
<1>5. Keeps(f, written, registered)
    BY <1>2 DEF Hosts, Keeps, verifyNetworkPF
<1> HIDE DEF registered
<1>6. loaded \in Hosts
    BY <1>4 DEF Hosts
<1>7. Keeps(f, registered, loaded)
    BY <1>4 DEF Hosts, Keeps, verifyNetworkPF
<1> HIDE DEF loaded
<1>9. Keeps(f, h, registered)
    BY <1>3, <1>5, KeepsTrans
<1>10. Keeps(f, h, loaded)
    BY <1>7, <1>9, KeepsTrans
<1> QED
    BY <1>2, <1>3, <1>4, <1>6, <1>8, <1>9, <1>10, KeepsRefl, SoundResults

LEMMA FirewallReads ==
    ASSUME NEW h, NEW r \in setupPfFirewall(h)
    PROVE  ~r.blind
<1>1. PICK k : r = Failed(k) \/ r = Done(k)
    BY Zenon DEF setupPfFirewall
<1> QED
    BY <1>1 DEF Done, Failed

LEMMA PfSound ==
    ASSUME NEW h \in Hosts, NEW r \in applyNetworkPF(h)
    PROVE  Sound("pf", h, r)
<1> DEFINE removed == [h EXCEPT !.anchor = "absent"]
<1>1. removed \in Hosts
    BY DEF Hosts
<1>2. Keeps("pf", h, removed)
    BY DEF Hosts, Keeps
<1>3. r \in setupPfFirewall(h) \/ r \in setupPfFirewall(removed)
    BY DEF applyNetworkPF
<1> HIDE DEF removed
<1>4. CASE r \in setupPfFirewall(h)
    BY <1>4, FirewallSound
<1>5. CASE r \in setupPfFirewall(removed)
    <2>1. Sound("pf", removed, r)
        BY <1>1, <1>5, FirewallSound
    <2> QED
        BY <1>2, <2>1, KeepsTrans DEF Sound
<1> QED
    BY <1>3, <1>4, <1>5

LEMMA DNSSound ==
    ASSUME NEW h \in Hosts, NEW r \in applyDNSBlocklist(h)
    PROVE  Sound("dns-blocklist", h, r)
<1> DEFINE k == [h EXCEPT !.dns = "whole"]
           l == [h EXCEPT !.dns = "absent"]
<1>1. k \in Hosts /\ l \in Hosts
    BY DEF Hosts
<1>2. Keeps("dns-blocklist", h, k) /\ Keeps("dns-blocklist", h, l)
    BY DEF Hosts, Keeps, verifyNetworkPF
<1>3. r \in {Done(k), Failed(h), Failed(l), Done(h)}
    BY DEF applyDNSBlocklist
<1> HIDE DEF k, l
<1> QED
    BY <1>1, <1>2, <1>3, KeepsRefl, SoundResults

LEMMA LaunchDaemonSound ==
    ASSUME NEW f, NEW h \in Hosts, NEW r \in setupLaunchDaemon(h)
    PROVE  Sound(f, h, r)
<1> DEFINE k == [h EXCEPT !.plist = TRUE]
           l == [h EXCEPT !.plist = TRUE, !.daemon = TRUE]
           m == [h EXCEPT !.daemon = TRUE]
<1>1. k \in Hosts /\ l \in Hosts /\ m \in Hosts
    BY DEF Hosts
<1>2. Keeps(f, h, k) /\ Keeps(f, h, l) /\ Keeps(f, h, m)
    BY DEF Hosts, Keeps, verifyNetworkPF
<1>3. r \in {Failed(h), Done(h), Done(k), Done(l), Done(m)}
    BY DEF setupLaunchDaemon
<1> HIDE DEF k, l, m
<1> QED
    BY <1>1, <1>2, <1>3, KeepsRefl, SoundResults

LEMMA PersistenceSound ==
    ASSUME NEW h \in Hosts, NEW r \in applyNetworkPersistence(h)
    PROVE  Sound("persistence", h, r)
<1>1. PICK q \in setupPfFirewall(h) : r \in (IF q.err THEN {q} ELSE setupLaunchDaemon(q.host))
    BY DEF applyNetworkPersistence
<1>2. Sound("persistence", h, q)
    BY <1>1, FirewallSound
<1>6. ~q.blind
    BY <1>1, FirewallReads
<1>3. r = q \/ r \in setupLaunchDaemon(q.host)
    BY <1>1
<1>4. q.host \in Hosts
    BY <1>2 DEF Sound
<1>5. ASSUME r \in setupLaunchDaemon(q.host)
      PROVE  Sound("persistence", h, r)
    <2>1. Sound("persistence", q.host, r)
        BY <1>4, <1>5, LaunchDaemonSound
    <2> QED
        BY <1>2, <1>6, <2>1, KeepsTrans DEF Sound, Unlost
<1> QED
    BY <1>2, <1>3, <1>5

\* What a rewrite of .zshrc that did not see it loses are its blocks, and nothing else.
LEMMA BlocksLost ==
    ASSUME NEW f, NEW h \in Hosts, NEW s \in SUBSET AgentFindings,
           h.agentSide \subseteq s \union ShellFindings
    PROVE  LET k == [h EXCEPT !.agentSide = s]
           IN  k \in Hosts /\ Keeps(f, h, [k EXCEPT !.agentSide = @ \union ShellFindings])
<1> DEFINE k == [h EXCEPT !.agentSide = s]
           l == [k EXCEPT !.agentSide = @ \union ShellFindings]
<1>1. /\ k \in Hosts /\ k.agentSide = s
      /\ k.user = h.user /\ k.home = h.home /\ k.group = h.group
      /\ k.traverse = h.traverse /\ k.workspace = h.workspace
      /\ k.sudoers = h.sudoers /\ k.helper = h.helper /\ k.anchor = h.anchor
      /\ k.registered = h.registered /\ k.loaded = h.loaded /\ k.dns = h.dns
      /\ k.plist = h.plist /\ k.daemon = h.daemon
    BY DEF Hosts
<1> HIDE DEF k
<1>2. /\ l.agentSide = k.agentSide \union ShellFindings
      /\ l.user = k.user /\ l.home = k.home /\ l.group = k.group
      /\ l.traverse = k.traverse /\ l.workspace = k.workspace
      /\ l.sudoers = k.sudoers /\ l.helper = k.helper /\ l.anchor = k.anchor
      /\ l.registered = k.registered /\ l.loaded = k.loaded /\ l.dns = k.dns
      /\ l.plist = k.plist /\ l.daemon = k.daemon
    BY <1>1 DEF Hosts
<1> HIDE DEF l
<1>3. Keeps(f, h, l)
    BY <1>1, <1>2 DEF Keeps, verifyNetworkPF
<1> QED
    BY <1>1, <1>3 DEF k, l

LEMMA RewriteSound ==
    ASSUME NEW f \in AgentFindings, NEW h \in Hosts, NEW r \in rewriteAgentShell(f, h)
    PROVE  Sound(f, h, r)
<1>1. PICK s \in SUBSET AgentFindings :
        /\ h.agentSide \subseteq s \union ShellFindings
        /\ \/ r = Blind(Failed([h EXCEPT !.agentSide = s]))
           \/ r = Blind(Done([h EXCEPT !.agentSide = s]))
    <2> DEFINE lost == h.agentSide \ ShellFindings
    <2>1. h.agentSide \subseteq AgentFindings
        BY DEF Hosts
    <2>2. /\ lost \in SUBSET AgentFindings /\ h.agentSide \subseteq lost \union ShellFindings
          /\ lost \union {f} \in SUBSET AgentFindings
          /\ h.agentSide \subseteq (lost \union {f}) \union ShellFindings
        BY <2>1
    <2>3. \/ r = Blind(Failed([h EXCEPT !.agentSide = lost]))
          \/ r = Blind(Failed([h EXCEPT !.agentSide = lost \union {f}]))
          \/ r = Blind(Done([h EXCEPT !.agentSide = lost \union {f}]))
        BY DEF rewriteAgentShell
    <2> HIDE DEF lost
    <2> QED
        BY <2>2, <2>3
<1> DEFINE k == [h EXCEPT !.agentSide = s]
<1>2. k \in Hosts /\ Keeps(f, h, [k EXCEPT !.agentSide = @ \union ShellFindings])
    BY <1>1, BlocksLost
<1> HIDE DEF k
<1>3. r.host = k /\ r.blind = TRUE
    BY <1>1 DEF Blind, Done, Failed, k
<1> QED
    BY <1>2, <1>3 DEF Sound, Unlost

LEMMA AgentSideSound ==
    ASSUME NEW f \in AgentFindings, NEW h \in Hosts, NEW r \in applyAgentSide(f, h)
    PROVE  Sound(f, h, r)
<1> DEFINE k == [h EXCEPT !.agentSide = @ \union {f}]
<1>1. k \in Hosts
    BY DEF Hosts
<1>2. Keeps(f, h, k)
    BY DEF Hosts, Keeps, verifyNetworkPF
<1>3. r \in {Failed(h), Failed(k), Done(k)} \/ r \in rewriteAgentShell(f, h)
    BY DEF applyAgentSide
<1> HIDE DEF k
<1> QED
    BY <1>1, <1>2, <1>3, KeepsRefl, SoundResults, RewriteSound

LEMMA ApplySound ==
    ASSUME NEW f \in DrFindings, NEW h \in Hosts, NEW r \in ApplyDiagnosticRepair(f, h)
    PROVE  Sound(f, h, r)
<1>1. CASE f = "agent-user"
    BY <1>1, AgentUserSound DEF ApplyDiagnosticRepair
<1>2. CASE f = "agent-home"
    BY <1>2, AgentHomeSound DEF ApplyDiagnosticRepair
<1>3. CASE f = "dev-group"
    BY <1>3, DevGroupSound DEF ApplyDiagnosticRepair
<1>4. CASE f = "home-traverse"
    BY <1>4, HomeTraverseSound DEF ApplyDiagnosticRepair
<1>5. CASE f = "workspace"
    BY <1>5, WorkspaceSound DEF ApplyDiagnosticRepair
<1>6. CASE f = "sudoers"
    BY <1>6, SudoersSound DEF ApplyDiagnosticRepair
<1>7. CASE f = "pf"
    BY <1>7, PfSound DEF ApplyDiagnosticRepair
<1>8. CASE f = "dns-blocklist"
    BY <1>8, DNSSound DEF ApplyDiagnosticRepair
<1>9. CASE f = "persistence"
    BY <1>9, PersistenceSound DEF ApplyDiagnosticRepair
<1>10. CASE f \notin {"agent-user", "agent-home", "dev-group", "home-traverse", "workspace",
                      "sudoers", "pf", "dns-blocklist", "persistence"}
    <2>1. Range(BaseFindings) = {"agent-user", "agent-home", "dev-group", "home-traverse",
              "workspace", "sudoers", "pf", "dns-blocklist", "persistence"}
        BY SMTT(60) DEF BaseFindings, Range
    <2>2. f \in AgentFindings
        BY <1>10, <2>1 DEF DrFindings
    <2>3. r \in applyAgentSide(f, h)
        BY <1>10 DEF ApplyDiagnosticRepair
    <2> QED
        BY <2>2, <2>3, AgentSideSound
<1> QED
    BY <1>1, <1>2, <1>3, <1>4, <1>5, <1>6, <1>7, <1>8, <1>9, <1>10

----------------------------------------------------------------------------
\* What is still to be done has neither a receipt nor a failure.
DrInv ==
    /\ drHost \in Hosts
    /\ drBlind \in BOOLEAN
    /\ drItems \subseteq DOMAIN Checks
    /\ \A i \in drItems : Checks[i] \notin drReceipts /\ Checks[i] \notin drFailed
    /\ ReceiptsStayTrue

LEMMA DrInvInit == DrInit => DrInv
<1>1. SoundHost \in Hosts
    BY DEF SoundHost, Hosts
<1> QED
    BY <1>1 DEF DrInit, DrInv, ReceiptsStayTrue

\* The blocks given back verify nothing but the findings that are about them.
LEMMA UnlostVerified ==
    ASSUME NEW g, NEW h \in Hosts,
           VerifyDiagnosticRepair(g, [h EXCEPT !.agentSide = @ \union ShellFindings])
    PROVE  VerifyDiagnosticRepair(g, h) \/ g \in ShellFindings
<1> DEFINE k == [h EXCEPT !.agentSide = @ \union ShellFindings]
<1>1. /\ k.user = h.user /\ k.home = h.home /\ k.group = h.group /\ k.traverse = h.traverse
      /\ k.workspace = h.workspace /\ k.sudoers = h.sudoers /\ k.helper = h.helper
      /\ k.anchor = h.anchor /\ k.registered = h.registered /\ k.loaded = h.loaded
      /\ k.dns = h.dns /\ k.plist = h.plist /\ k.daemon = h.daemon
      /\ k.agentSide = h.agentSide \union ShellFindings
    BY DEF Hosts
<1> HIDE DEF k
<1>2. VerifyDiagnosticRepair(g, k)
    BY DEF k
<1> QED
    BY <1>1, <1>2 DEF VerifyDiagnosticRepair, verifySetupSudoers, verifyNetworkPF,
                      verifyNetworkPersistence

LEMMA ApplyItemKeeps == DrInv /\ ApplyItem => DrInv'
<1> SUFFICES ASSUME DrInv, ApplyItem
             PROVE  DrInv'
    OBVIOUS
<1>1. PICK i \in drItems : \E r \in ApplyDiagnosticRepair(Checks[i], drHost) :
         /\ drHost' = r.host
         /\ drBlind' = (drBlind \/ r.blind)
         /\ IF r.err
            THEN NextItem(i) /\ drFailed' = drFailed \union {Checks[i]}
            ELSE drPhase' = "verifying" /\ UNCHANGED <<drItems, drFailed>>
    BY DEF ApplyItem
<1> DEFINE f == Checks[i]
<1>2. PICK r \in ApplyDiagnosticRepair(f, drHost) :
         /\ drHost' = r.host
         /\ drBlind' = (drBlind \/ r.blind)
         /\ IF r.err
            THEN NextItem(i) /\ drFailed' = drFailed \union {f}
            ELSE drPhase' = "verifying" /\ UNCHANGED <<drItems, drFailed>>
    BY <1>1
<1>3. UNCHANGED drReceipts
    BY DEF ApplyItem
<1>4. i \in DOMAIN Checks /\ f \notin drReceipts /\ drHost \in Hosts
    BY DEF DrInv
<1>5. f \in DrFindings
    BY <1>4, ChecksDiffer
<1> HIDE DEF f
<1>6. drHost' \in Hosts /\ r.blind \in BOOLEAN /\ Keeps(f, drHost, Unlost(r))
    BY <1>2, <1>4, <1>5, ApplySound DEF Sound
<1>7. ASSUME NEW g \in drReceipts
      PROVE  VerifyDiagnosticRepair(g, drHost') \/ (drBlind' /\ g \in ShellFindings)
    <2>1. CASE drBlind /\ g \in ShellFindings
        BY <1>2, <2>1
    <2>2. CASE VerifyDiagnosticRepair(g, drHost)
        <3>1. VerifyDiagnosticRepair(g, Unlost(r))
            BY <1>4, <1>6, <2>2, KeepsVerified
        <3>2. CASE ~r.blind
            BY <1>2, <3>1, <3>2 DEF Unlost
        <3>3. CASE r.blind
            <4>1. VerifyDiagnosticRepair(g, r.host) \/ g \in ShellFindings
                BY <1>2, <1>6, <3>1, <3>3, UnlostVerified DEF Unlost
            <4> QED
                BY <1>2, <3>3, <4>1
        <3> QED
            BY <3>2, <3>3
    <2> QED
        BY <2>1, <2>2 DEF DrInv, ReceiptsStayTrue
<1>8. \/ drItems' = drItems \ {i} /\ drFailed' = drFailed \union {f}
      \/ UNCHANGED <<drItems, drFailed>>
    BY <1>2 DEF NextItem
<1>9. \A j \in drItems : j # i => Checks[j] # f
    BY <1>4, ChecksDiffer DEF DrInv, f
<1>10. \A j \in drItems' : Checks[j] \notin drReceipts' /\ Checks[j] \notin drFailed'
    BY <1>3, <1>8, <1>9 DEF DrInv
<1>11. ReceiptsStayTrue'
    BY <1>3, <1>4, <1>7, <1>8 DEF DrInv, ReceiptsStayTrue
<1>12. drItems' \subseteq DOMAIN Checks
    BY <1>8 DEF DrInv
<1>13. drBlind' \in BOOLEAN
    BY <1>2, <1>6 DEF DrInv
<1> QED
    BY <1>6, <1>10, <1>11, <1>12, <1>13 DEF DrInv

LEMMA VerifyItemKeeps == DrInv /\ VerifyItem => DrInv'
<1> SUFFICES ASSUME DrInv, VerifyItem
             PROVE  DrInv'
    OBVIOUS
<1>1. PICK i \in drItems :
         /\ \/ /\ VerifyDiagnosticRepair(Checks[i], drHost)
               /\ drReceipts' = drReceipts \union {Checks[i]}
               /\ UNCHANGED drFailed
            \/ drFailed' = drFailed \union {Checks[i]} /\ UNCHANGED drReceipts
         /\ drItems' = drItems \ {i}
    BY DEF VerifyItem, NextItem
<1>2. UNCHANGED <<drHost, drBlind>>
    BY DEF VerifyItem
<1>3. \A j \in drItems : j # i => Checks[j] # Checks[i]
    BY ChecksDiffer DEF DrInv
<1>4. \A j \in drItems' : Checks[j] \notin drReceipts' /\ Checks[j] \notin drFailed'
    BY <1>1, <1>3 DEF DrInv
<1>5. ReceiptsStayTrue'
    BY <1>1, <1>2 DEF DrInv, ReceiptsStayTrue
<1> QED
    BY <1>1, <1>2, <1>4, <1>5 DEF DrInv

LEMMA DriftsAreHosts == ASSUME NEW h \in Hosts PROVE Drifted(h) \subseteq Hosts
<1>1. /\ [h EXCEPT !.user = "absent"] \in Hosts
      /\ [h EXCEPT !.user = "unfinished"] \in Hosts
      /\ [h EXCEPT !.home = FALSE] \in Hosts
    BY DEF Hosts
<1>2. /\ [h EXCEPT !.group = FALSE] \in Hosts
      /\ [h EXCEPT !.traverse = FALSE] \in Hosts
      /\ [h EXCEPT !.workspace = FALSE] \in Hosts
    BY DEF Hosts
<1>3. /\ [h EXCEPT !.sudoers = FALSE] \in Hosts
      /\ [h EXCEPT !.helper = FALSE] \in Hosts
      /\ [h EXCEPT !.helper = TRUE] \in Hosts
    BY DEF Hosts
<1>4. /\ [h EXCEPT !.anchor = "absent"] \in Hosts
      /\ [h EXCEPT !.anchor = "stale"] \in Hosts
      /\ [h EXCEPT !.registered = FALSE, !.loaded = "none"] \in Hosts
    BY DEF Hosts
<1>5. /\ [h EXCEPT !.loaded = "none"] \in Hosts
      /\ [h EXCEPT !.dns = "absent"] \in Hosts
      /\ [h EXCEPT !.dns = "partial"] \in Hosts
    BY DEF Hosts
<1>6. /\ [h EXCEPT !.plist = FALSE, !.daemon = FALSE] \in Hosts
      /\ [h EXCEPT !.daemon = FALSE] \in Hosts
      /\ [h EXCEPT !.agentSide = {}] \in Hosts
    BY DEF Hosts
<1> QED
    BY <1>1, <1>2, <1>3, <1>4, <1>5, <1>6, Zenon DEF Drifted

LEMMA DrInvNext == DrInv /\ [DrNext]_drVars => DrInv'
<1> SUFFICES ASSUME DrInv, [DrNext]_drVars
             PROVE  DrInv'
    OBVIOUS
<1>1. CASE diagnosticRepairPlan
    <2>1. PICK full \in BOOLEAN, observed \in BOOLEAN, unread \in SUBSET ShellFindings :
            drItems' \in {planDiagnosticRepairs(full, observed, unread), {}}
        BY <1>1 DEF diagnosticRepairPlan
    <2>2. drItems' \subseteq DOMAIN Checks
        BY <2>1 DEF planDiagnosticRepairs
    <2>3. drReceipts' = {} /\ drFailed' = {} /\ drBlind' = FALSE /\ UNCHANGED drHost
        BY <1>1 DEF diagnosticRepairPlan
    <2> QED
        BY <2>2, <2>3 DEF DrInv, ReceiptsStayTrue
<1>2. CASE confirmDiagnosticRepairPlan
    BY <1>2 DEF confirmDiagnosticRepairPlan, DrInv, ReceiptsStayTrue
<1>3. CASE diagnosticRepairPlanDeclined
    BY <1>3 DEF diagnosticRepairPlanDeclined, DrInv, ReceiptsStayTrue
<1>4. CASE ApplyItem
    BY <1>4, ApplyItemKeeps
<1>5. CASE VerifyItem
    BY <1>5, VerifyItemKeeps
<1>6. CASE DoctorDies
    BY <1>6 DEF DoctorDies, DrInv, ReceiptsStayTrue
<1>7. CASE HostDrifts
    <2>1. drHost' \in Hosts
        BY <1>7, DriftsAreHosts DEF HostDrifts, DrInv
    <2>2. drReceipts' = {} /\ drFailed' = {} /\ drBlind' = FALSE /\ UNCHANGED drItems
        BY <1>7 DEF HostDrifts
    <2> QED
        BY <2>1, <2>2 DEF DrInv, ReceiptsStayTrue
<1>8. CASE UNCHANGED drVars
    BY <1>8 DEF drVars, DrInv, ReceiptsStayTrue
<1> QED
    BY <1>1, <1>2, <1>3, <1>4, <1>5, <1>6, <1>7, <1>8 DEF DrNext

\* diagnostic_repair.go: what doctor --fix has verified in a run stays so until the
\* run is over, whatever its other repairs do, and failed nowhere.
THEOREM ReceiptsAreTrue == DrSpec => []ReceiptsStayTrue
<1>1. DrInv => ReceiptsStayTrue
    BY DEF DrInv
<1> QED
    BY <1>1, DrInvInit, DrInvNext, PTL DEF DrSpec

----------------------------------------------------------------------------
(* Backup.                                                                 *)

\* A restore that says it took its snapshot has it among the local ones, and none
\* says so before it has.
BkInv ==
    /\ bkTree.src \in Nat /\ bkTree = [src |-> bkTree.src, left |-> bkTree.left]
    /\ bkWork \in Nat
    /\ bkLocal \in Seq(Nat) /\ bkCloud \in Seq(Nat) /\ bkTarget \in Nat
    /\ bkStep \in {"idle", "snapshot"} => ~bkSafe
    /\ ClearedWorkIsInSnapshot

LEMMA BkInvInit == BkInit => BkInv
BY EmptySeq DEF BkInit, BkInv, ClearedWorkIsInSnapshot

\* The newest snapshot is among the snapshots, and the older ones stay.
LEMMA SavedIsThere ==
    ASSUME NEW q \in Seq(Nat), NEW v \in Nat
    PROVE  /\ Append(q, v) \in Seq(Nat)
           /\ InRange(v, Append(q, v))
           /\ \A w : InRange(w, q) => InRange(w, Append(q, v))
<1>1. /\ Append(q, v) \in Seq(Nat) /\ Len(Append(q, v)) = Len(q) + 1 /\ Len(q) \in Nat
      /\ Append(q, v)[Len(q) + 1] = v
      /\ \A i \in 1 .. Len(q) : Append(q, v)[i] = q[i]
    BY AppendProperties, LenProperties
<1>2. Len(q) + 1 \in 1 .. Len(Append(q, v)) /\ 1 .. Len(q) \subseteq 1 .. Len(Append(q, v))
    BY <1>1
<1> QED
    BY <1>1, <1>2 DEF InRange

LEMMA PreRestoreKeeps == BkInv /\ PreRestoreSnapshot => BkInv'
<1> SUFFICES ASSUME BkInv, PreRestoreSnapshot PROVE BkInv'
    OBVIOUS
<1>1. CASE bkSafe'
    <2>1. bkLocal' = Append(bkLocal, bkTree.src) /\ bkBefore' = bkTree
        BY <1>1 DEF PreRestoreSnapshot, Saved
    <2>2. bkLocal' \in Seq(Nat) /\ InRange(bkTree.src, bkLocal')
        BY <2>1, SavedIsThere DEF BkInv
    <2> QED
        BY <2>1, <2>2 DEF BkInv, PreRestoreSnapshot, ClearedWorkIsInSnapshot, InRange
<1>2. CASE ~bkSafe'
    <2>1. bkLocal' \in Seq(Nat)
        BY <1>2 DEF BkInv, PreRestoreSnapshot
    <2> QED
        BY <1>2, <2>1 DEF BkInv, PreRestoreSnapshot, ClearedWorkIsInSnapshot
<1> QED
    BY <1>1, <1>2

LEMMA SessionKeeps == BkInv /\ StartSession => BkInv'
<1> SUFFICES ASSUME BkInv, StartSession PROVE BkInv'
    OBVIOUS
<1>1. CASE bkLocal' = Append(bkLocal, bkTree.src)
    <2>1. bkLocal' \in Seq(Nat) /\ \A w : InRange(w, bkLocal) => InRange(w, bkLocal')
        BY <1>1, SavedIsThere DEF BkInv
    <2>2. UNCHANGED <<bkTree, bkWork, bkCloud, bkStep, bkTarget, bkBefore, bkSafe>>
        BY DEF StartSession, bkRestore
    <2> QED
        BY <2>1, <2>2 DEF BkInv, ClearedWorkIsInSnapshot
<1>2. CASE UNCHANGED bkLocal
    BY <1>2 DEF BkInv, StartSession, bkRestore, ClearedWorkIsInSnapshot, InRange
<1> QED
    BY <1>1, <1>2 DEF StartSession, Saved

LEMMA TargetsAreKept == BkInv /\ (LocalTarget \/ CloudTarget) => BkInv'
<1> SUFFICES ASSUME BkInv, LocalTarget \/ CloudTarget PROVE BkInv'
    OBVIOUS
<1>1. ASSUME NEW q \in Seq(Nat), NEW i \in 1 .. Len(q) PROVE q[i] \in Nat
    BY ElementOfSeq
<1>2. bkTarget' \in Nat
    <2>1. CASE LocalTarget
        <3> PICK n \in 1 .. Len(bkLocal) : bkTarget' = bkLocal[Len(bkLocal) + 1 - n]
            BY <2>1 DEF LocalTarget
        <3>1. Len(bkLocal) + 1 - n \in 1 .. Len(bkLocal)
            BY LenProperties DEF BkInv
        <3> QED
            BY <1>1, <3>1 DEF BkInv
    <2>2. CASE CloudTarget
        <3>1. Len(bkCloud) \in 1 .. Len(bkCloud)
            BY <2>2, LenProperties, EmptySeq DEF BkInv, CloudTarget
        <3> QED
            BY <1>1, <2>2, <3>1 DEF BkInv, CloudTarget
    <2> QED
        BY <2>1, <2>2
<1> QED
    BY <1>2 DEF BkInv, LocalTarget, CloudTarget, bkStores, ClearedWorkIsInSnapshot, InRange

LEMMA BkInvNext == BkInv /\ [BkNext]_bkVars => BkInv'
<1> SUFFICES ASSUME BkInv, [BkNext]_bkVars PROVE BkInv'
    OBVIOUS
<1>1. CASE UNCHANGED bkVars
    BY <1>1 DEF bkVars, BkInv, ClearedWorkIsInSnapshot, InRange
<1>2. CASE MakeRepo \/ ConnectRepo \/ UpdateRetention \/ ConfigureCloud \/ EndSession
    BY <1>2 DEF BkInv, MakeRepo, ConnectRepo, UpdateRetention, ConfigureCloud, EndSession,
                bkRestore, bkStores, ClearedWorkIsInSnapshot, InRange
<1>3. CASE StartSession
    BY <1>3, SessionKeeps
<1>4. CASE Work
    <2>1. bkWork + 1 \in Nat /\ bkWork' = bkWork + 1
        BY <1>4 DEF Work, BkInv
    <2>2. bkTree'.src \in Nat /\ bkTree' = [src |-> bkTree'.src, left |-> bkTree'.left]
        BY <1>4, <2>1 DEF Work, BkInv
    <2>3. UNCHANGED <<bkLocal, bkCloud, bkStep, bkTarget, bkBefore, bkSafe>>
        BY <1>4 DEF Work, bkStores, bkRestore
    <2> QED
        BY <2>1, <2>2, <2>3 DEF BkInv, ClearedWorkIsInSnapshot, InRange
<1>5. CASE CloudBackup
    <2>1. bkCloud' \in Seq(Nat)
        BY <1>5, SavedIsThere DEF CloudBackup, Saved, BkInv
    <2> QED
        BY <1>5, <2>1 DEF BkInv, CloudBackup, bkRestore, ClearedWorkIsInSnapshot, InRange
<1>6. CASE LocalTarget \/ CloudTarget
    BY <1>6, TargetsAreKept
<1>7. CASE PreRestoreSnapshot
    BY <1>7, PreRestoreKeeps
<1>8. CASE ClearProject \/ RestoreFails \/ RestoreEnds
    BY <1>8 DEF BkInv, ClearProject, RestoreFails, RestoreEnds, NoTree, bkStores,
                ClearedWorkIsInSnapshot, InRange
<1>9. CASE RestoreFiles
    BY <1>9 DEF BkInv, RestoreFiles, bkStores, ClearedWorkIsInSnapshot, InRange
<1> QED
    BY <1>1, <1>2, <1>3, <1>4, <1>5, <1>6, <1>7, <1>8, <1>9 DEF BkNext

\* restore.go, snapshots.go and config_cloud.go: what a restore clears it can put
\* back, unless it has warned that it cannot.
THEOREM RestoreClearsWhatIsSaved == BkSpec => []ClearedWorkIsInSnapshot
<1>1. BkInv => ClearedWorkIsInSnapshot
    BY DEF BkInv
<1> QED
    BY <1>1, BkInvInit, BkInvNext, PTL DEF BkSpec

----------------------------------------------------------------------------
(* HostImport.                                                             *)

LEMMA ItemNames ==
    /\ ToSet(Items) = {"command", "gitIdentity", "accountState", "credential"}
    /\ Len(Items) = 4
    /\ Items[1] = "command" /\ Items[2] = "gitIdentity"
    /\ Items[3] = "accountState" /\ Items[4] = "credential"
<1>1. Len(Items) = 4 /\ DOMAIN Items = 1 .. 4
    BY DEF Items
<1>2. 1 .. 4 = {1, 2, 3, 4}
    OBVIOUS
<1>3. /\ Items[1] = "command" /\ Items[2] = "gitIdentity"
      /\ Items[3] = "accountState" /\ Items[4] = "credential"
    BY DEF Items
<1> QED
    BY <1>1, <1>2, <1>3 DEF ToSet

LEMMA ItemsInOrder ==
    /\ ImAt("command") <=> imPhase.item <= 4 /\ Items[imPhase.item] = "command"
    /\ imPhase.item \in 1 .. 5 =>
         /\ ImAt("command") => imPhase.item = 1
         /\ ImAt("gitIdentity") => imPhase.item = 2
         /\ ImAt("accountState") => imPhase.item = 3
         /\ ImAt("credential") => imPhase.item = 4
BY ItemNames DEF ImAt

ImItems == {"command", "gitIdentity", "accountState", "credential"}

ImTypes ==
    /\ imHost \in [command : Value, gitIdentity : Map, accountState : Map, credential : Value]
    /\ imAgent \in [command : Value, gitIdentity : Map, accountState : Map, credential : Value]
    /\ imStored \in [accountState : Map, credential : Value]
    /\ imPlan \in [ImItems -> Statuses]
    /\ imPhase \in [at : {"idle", "asked", "apply", "second"}, item : 1 .. 5,
                    state : Map, identity : Map]
    /\ imPhase.at = "asked" => imPhase.item = 1
    /\ imPhase.at \in {"apply", "second"} => \A i \in ImItems : imPlan[i] # "conflict"
    /\ imEdits \in Nat

\* An item that is yet to be applied, when something of it is already written or not.
Ahead(n) ==
    imPhase.at # "idle" /\ (imPhase.item < n \/ (imPhase.item = n /\ imPhase.at # "second"))
Halfway(n) == imPhase.at = "second" /\ imPhase.item = n

Unchanged(i) == imPlan[i] = "new" /\ i \notin imRaced

\* What was compared as new is still not there, unless it has changed meanwhile.
CommandStands ==
    /\ Ahead(1) /\ Unchanged("command") => imAgent.command = 0
    /\ Halfway(1) /\ "command" \notin imRaced => imAgent.command = 0

IdentityStands ==
    Ahead(2) /\ Unchanged("gitIdentity") =>
        \A f \in ImFields : \/ imPhase.identity[f] = 0
                            \/ imAgent.gitIdentity[f] \in {0, imPhase.identity[f]}

StateStands ==
    /\ Ahead(3) /\ imPlan["accountState"] \in {"new", "conflict", "overwrite"} =>
         imPhase.state # NoMap
    /\ Ahead(3) /\ imPlan["accountState"] = "new" => imStored.accountState = NoMap
    /\ Ahead(3) /\ Unchanged("accountState") => imAgent.accountState \in {NoMap, imPhase.state}
    /\ Halfway(3) => imStored.accountState # NoMap

CredentialStands ==
    /\ Ahead(4) /\ imPlan["credential"] = "new" => imStored.credential = 0
    /\ Ahead(4) /\ Unchanged("credential") => imAgent.credential \in {0, imHost.credential}
    /\ Halfway(4) /\ Unchanged("credential") => imAgent.credential \in {0, imStored.credential}

ImInv == ImTypes /\ CommandStands /\ IdentityStands /\ StateStands /\ CredentialStands

LEMMA NoMapIsMap == NoMap \in Map
BY DEF NoMap, Map, Value

LEMMA MapHas ==
    ASSUME NEW m \in Map
    PROVE  /\ \A f \in ImFields : m[f] \in Value
           /\ m # NoMap => \E f \in ImFields : m[f] # 0
<1>1. m = [f \in ImFields |-> m[f]] /\ \A f \in ImFields : m[f] \in Value
    BY DEF Map
<1>2. (\A f \in ImFields : m[f] = 0) => m = NoMap
    BY <1>1 DEF NoMap
<1> QED
    BY <1>1, <1>2

LEMMA Overlays ==
    ASSUME NEW u \in Map, NEW o \in Map
    PROVE  /\ Overlay(u, o) \in Map
           /\ \A f \in ImFields : Overlay(u, o)[f] = IF o[f] # 0 THEN o[f] ELSE u[f]
           /\ o # NoMap => Overlay(u, o) # NoMap
<1>1. Overlay(u, o) \in Map
    BY MapHas DEF Overlay, Map
<1>2. \A f \in ImFields : Overlay(u, o)[f] = IF o[f] # 0 THEN o[f] ELSE u[f]
    BY DEF Overlay
<1>3. ASSUME o # NoMap PROVE Overlay(u, o) # NoMap
    <2> PICK f \in ImFields : o[f] # 0
        BY <1>3, MapHas
    <2>1. Overlay(u, o)[f] # 0 /\ NoMap[f] = 0
        BY <1>2 DEF NoMap
    <2> QED
        BY <2>1
<1> QED
    BY <1>1, <1>2, <1>3

LEMMA ImInvInit == ImInit => ImInv
<1> SUFFICES ASSUME ImInit PROVE ImInv
    OBVIOUS
<1>1. /\ [first |-> 1, second |-> 0] \in Map /\ [first |-> 1, second |-> 1] \in Map
      /\ [first |-> 0, second |-> 2] \in Map /\ [first |-> 2, second |-> 0] \in Map
      /\ [first |-> 2, second |-> 2] \in Map
    BY DEF Map, ImFields, Value
<1>2. 1 \in Value /\ 0 \in Value
    BY DEF Value
<1>3. imHost \in [command : Value, gitIdentity : Map, accountState : Map, credential : Value]
    BY <1>1, <1>2, NoMapIsMap DEF ImInit
<1>4. imAgent \in [command : Value, gitIdentity : Map, accountState : Map, credential : Value]
    BY <1>1, NoMapIsMap DEF ImInit
<1>5. imStored \in [accountState : Map, credential : Value]
    BY <1>1, NoMapIsMap DEF ImInit
<1>6. imPlan \in [ImItems -> Statuses]
    BY ItemNames DEF ImInit, ImNoPlan, ImItems, Statuses
<1>7. imPhase \in [at : {"idle", "asked", "apply", "second"}, item : 1 .. 5,
                   state : Map, identity : Map]
    BY NoMapIsMap DEF ImInit, IdlePhase
<1>8. imPhase.at = "idle" /\ imEdits \in Nat
    BY DEF ImInit, IdlePhase
<1> QED
    BY <1>3, <1>4, <1>5, <1>6, <1>7, <1>8
    DEF ImInv, ImTypes, CommandStands, IdentityStands, StateStands, CredentialStands,
        Ahead, Halfway

\* What the comparison finds new.
LEMMA NewMeans ==
    ASSUME ImTypes
    PROVE  /\ \A i \in ImItems : ScanImportPlan[i] \in {"none", "new", "conflict", "unchanged"}
           /\ ScanImportPlan \in [ImItems -> Statuses]
           /\ ScanImportPlan["command"] = "new" => imAgent.command = 0
           /\ ScanImportPlan["gitIdentity"] = "new" =>
                \A f \in ImFields : \/ imHost.gitIdentity[f] = 0
                                    \/ imAgent.gitIdentity[f] \in {0, imHost.gitIdentity[f]}
           /\ ScanImportPlan["accountState"] \in {"new", "conflict"} => imHost.accountState # NoMap
           /\ ScanImportPlan["accountState"] = "new" =>
                /\ imStored.accountState = NoMap
                /\ imAgent.accountState \in {NoMap, imHost.accountState}
           /\ ScanImportPlan["credential"] = "new" =>
                imStored.credential = 0 /\ imAgent.credential \in {0, imHost.credential}
<1> DEFINE Scanned == {"none", "new", "conflict", "unchanged"}
<1>1. /\ ScanImportPlan = [i \in ImItems |-> ScanImportPlan[i]]
      /\ ScanImportPlan["command"] = scanPortableImportDir
      /\ ScanImportPlan["gitIdentity"] = scanGitIdentity
      /\ ScanImportPlan["accountState"] = scanClaudeAuthState
      /\ ScanImportPlan["credential"] = scanClaudeCredentialFile
    BY ItemNames DEF ScanImportPlan, ImItems
<1>2. scanPortableImportDir \in Scanned /\ (scanPortableImportDir = "new" => imAgent.command = 0)
    BY DEF scanPortableImportDir
<1>3. /\ scanGitIdentity \in Scanned
      /\ scanGitIdentity = "new" =>
           \A f \in ImFields : \/ imHost.gitIdentity[f] = 0
                               \/ imAgent.gitIdentity[f] \in {0, imHost.gitIdentity[f]}
    BY DEF scanGitIdentity
<1>4. ASSUME NEW h, NEW s, NEW a, NEW absent
      PROVE  /\ StatusInStore(h, s, a, absent) \in Scanned
             /\ StatusInStore(h, s, a, absent) \in {"new", "conflict"} => h # absent
             /\ StatusInStore(h, s, a, absent) = "new" => s = absent /\ a \in {absent, h}
    BY DEF StatusInStore
<1>5. /\ scanClaudeAuthState \in Scanned
      /\ scanClaudeAuthState \in {"new", "conflict"} => imHost.accountState # NoMap
      /\ scanClaudeAuthState = "new" => /\ imStored.accountState = NoMap
                                        /\ imAgent.accountState \in {NoMap, imHost.accountState}
    BY <1>4 DEF scanClaudeAuthState
<1>6. /\ scanClaudeCredentialFile \in Scanned
      /\ scanClaudeCredentialFile = "new" =>
           imStored.credential = 0 /\ imAgent.credential \in {0, imHost.credential}
    BY <1>4 DEF scanClaudeCredentialFile
<1>7. \A i \in ImItems : ScanImportPlan[i] \in Scanned
    BY <1>1, <1>2, <1>3, <1>5, <1>6 DEF ImItems
<1>8. ScanImportPlan \in [ImItems -> Statuses]
    <2>1. Scanned \subseteq Statuses
        BY DEF Statuses
    <2> QED
        BY <1>1, <1>7, <2>1
<1> QED
    BY <1>1, <1>2, <1>3, <1>5, <1>6, <1>7, <1>8

LEMMA ScanKeeps == ImInv /\ RunBasicsImport => ImInv'
<1> SUFFICES ASSUME ImInv, RunBasicsImport PROVE ImInv'
    OBVIOUS
<1>1. /\ imPlan' = ScanImportPlan /\ UNCHANGED <<imHost, imStored, imAgent, imEdits>>
      /\ imPhase' = [at |-> "asked", item |-> 1, state |-> imHost.accountState,
                     identity |-> imHost.gitIdentity]
    BY DEF RunBasicsImport, IdlePhase
<1>2. ImTypes'
    BY <1>1, NewMeans DEF ImInv, ImTypes
<1>3. CommandStands' /\ IdentityStands'
    BY <1>1, NewMeans DEF ImInv, CommandStands, IdentityStands, Ahead, Halfway, Unchanged
<1>4. StateStands'
    <2>1. ScanImportPlan["accountState"] # "overwrite"
        BY NewMeans DEF ImInv, ImItems
    <2> QED
        BY <1>1, <2>1, NewMeans DEF ImInv, StateStands, Ahead, Halfway, Unchanged
<1>5. CredentialStands'
    BY <1>1, NewMeans DEF ImInv, CredentialStands, Ahead, Halfway, Unchanged
<1> QED
    BY <1>2, <1>3, <1>4, <1>5 DEF ImInv

LEMMA ResolveKeeps ==
    ASSUME ImInv, NEW policy \in {"overwrite", "skip"}, ResolveConflicts(policy)
    PROVE  ImInv'
<1>1. /\ UNCHANGED <<imHost, imStored, imAgent, imEdits, imRaced>>
      /\ imPhase.at = "asked" /\ imPhase.item = 1
      /\ imPhase' = [at |-> "apply", item |-> 1, state |-> imPhase.state,
                     identity |-> imPhase.identity]
    BY DEF ResolveConflicts, ImInv, ImTypes
<1>2. imPlan' = [i \in ImItems |-> IF imPlan[i] = "conflict" THEN policy ELSE imPlan[i]]
    BY ItemNames DEF ResolveConflicts, ImSettled, ImItems
<1>3. imPlan' \in [ImItems -> Statuses]
    BY <1>2 DEF ImInv, ImTypes, Statuses
<1>4. \A i \in ImItems : imPlan'[i] # "conflict" /\ (imPlan'[i] = "new" => imPlan[i] = "new")
    BY <1>2
<1>5. imPlan'["accountState"] \in {"new", "overwrite"} =>
        imPlan["accountState"] \in {"new", "conflict", "overwrite"}
    BY <1>2 DEF ImItems
<1>6. ImTypes'
    BY <1>1, <1>3, <1>4 DEF ImInv, ImTypes
<1>7. CommandStands' /\ IdentityStands' /\ CredentialStands'
    BY <1>1, <1>4 DEF ImInv, ImItems, CommandStands, IdentityStands, CredentialStands,
                      Ahead, Halfway, Unchanged
<1>8. StateStands'
    BY <1>1, <1>4, <1>5 DEF ImInv, ImItems, StateStands, Ahead, Halfway, Unchanged
<1> QED
    BY <1>6, <1>7, <1>8 DEF ImInv

LEMMA EndKeeps ==
    ASSUME ImInv, EndImport, UNCHANGED <<imHost, imStored, imAgent, imEdits>>
    PROVE  ImInv'
<1>1. imPlan' \in [ImItems -> Statuses]
    BY ItemNames DEF EndImport, ImNoPlan, ImItems, Statuses
<1>2. imPhase' = [at |-> "idle", item |-> 1, state |-> NoMap, identity |-> NoMap]
    BY DEF EndImport, IdlePhase
<1> QED
    BY <1>1, <1>2, NoMapIsMap
    DEF ImInv, ImTypes, CommandStands, IdentityStands, StateStands, CredentialStands,
        Ahead, Halfway

\* Going on to the next item, or to the second half of this one.
LEMMA NextPhase ==
    ASSUME ImTypes, imPhase.item <= 4, ImNextItem
    PROVE  /\ imPhase' \in [at : {"idle", "asked", "apply", "second"}, item : 1 .. 5,
                            state : Map, identity : Map]
           /\ imPhase'.at = "apply" /\ imPhase'.item = imPhase.item + 1
           /\ imPhase'.state = imPhase.state /\ imPhase'.identity = imPhase.identity
<1>1. /\ imPhase = [at |-> imPhase.at, item |-> imPhase.item, state |-> imPhase.state,
                    identity |-> imPhase.identity]
      /\ imPhase.item \in 1 .. 5 /\ imPhase.state \in Map /\ imPhase.identity \in Map
    BY DEF ImTypes
<1>2. imPhase' = [at |-> "apply", item |-> imPhase.item + 1, state |-> imPhase.state,
                  identity |-> imPhase.identity]
    BY <1>1 DEF ImNextItem
<1>3. imPhase.item + 1 \in 1 .. 5
    BY <1>1
<1> QED
    BY <1>1, <1>2, <1>3

LEMMA SecondPhase ==
    ASSUME ImTypes, imPhase' = [imPhase EXCEPT !.at = "second"]
    PROVE  /\ imPhase' \in [at : {"idle", "asked", "apply", "second"}, item : 1 .. 5,
                            state : Map, identity : Map]
           /\ imPhase'.at = "second" /\ imPhase'.item = imPhase.item
           /\ imPhase'.state = imPhase.state /\ imPhase'.identity = imPhase.identity
BY DEF ImTypes

LEMMA SkipKeeps == ImInv /\ SkipItem => ImInv'
<1> SUFFICES ASSUME ImInv, SkipItem PROVE ImInv'
    OBVIOUS
<1>1. /\ UNCHANGED <<imHost, imStored, imAgent, imEdits, imRaced, imPlan>>
      /\ imPhase.at = "apply" /\ imPhase.item <= 4 /\ ImNextItem
    BY ItemNames DEF SkipItem
<1>2. ImTypes'
    BY <1>1, NextPhase DEF ImInv, ImTypes
<1>3. CommandStands' /\ IdentityStands' /\ StateStands' /\ CredentialStands'
    BY <1>1, NextPhase DEF ImInv, ImTypes, CommandStands, IdentityStands, StateStands,
                           CredentialStands, Ahead, Halfway, Unchanged
<1> QED
    BY <1>2, <1>3 DEF ImInv

LEMMA CommandSteps == ImInv /\ (RemoveDestination \/ CopyPortablePath) => ImInv'
<1> SUFFICES ASSUME ImInv, RemoveDestination \/ CopyPortablePath PROVE ImInv'
    OBVIOUS
<1>1. /\ UNCHANGED <<imHost, imStored, imEdits, imRaced, imPlan>>
      /\ imPhase.item = 1 /\ imPhase.at \in {"apply", "second"}
    BY ItemsInOrder DEF RemoveDestination, CopyPortablePath, ImApplied, ImInv, ImTypes
<1>2. /\ UNCHANGED <<imAgent.gitIdentity, imAgent.accountState, imAgent.credential>>
      /\ imAgent' \in [command : Value, gitIdentity : Map, accountState : Map, credential : Value]
      /\ RemoveDestination => imAgent'.command = 0
    BY DEF RemoveDestination, CopyPortablePath, ImInv, ImTypes, Value
<1>3. CASE RemoveDestination
    <2>1. imPhase' = [imPhase EXCEPT !.at = "second"]
        BY <1>3 DEF RemoveDestination
    <2> QED
        BY <1>1, <1>2, <1>3, <2>1, SecondPhase
        DEF ImInv, ImTypes, CommandStands, IdentityStands, StateStands, CredentialStands,
            Ahead, Halfway, Unchanged
<1>4. CASE CopyPortablePath
    <2>1. ImNextItem
        BY <1>4 DEF CopyPortablePath
    <2> QED
        BY <1>1, <1>2, <2>1, NextPhase
        DEF ImInv, ImTypes, CommandStands, IdentityStands, StateStands, CredentialStands,
            Ahead, Halfway, Unchanged
<1> QED
    BY <1>3, <1>4

LEMMA IdentityStep == ImInv /\ writeImportedGitIdentity => ImInv'
<1> SUFFICES ASSUME ImInv, writeImportedGitIdentity PROVE ImInv'
    OBVIOUS
<1>1. /\ UNCHANGED <<imHost, imStored, imEdits, imRaced, imPlan>>
      /\ imPhase.item = 2 /\ imPhase.at = "apply" /\ ImNextItem
    BY ItemsInOrder DEF writeImportedGitIdentity, ImApplied, ImInv, ImTypes
<1>2. /\ UNCHANGED <<imAgent.command, imAgent.accountState, imAgent.credential>>
      /\ imAgent' \in [command : Value, gitIdentity : Map, accountState : Map, credential : Value]
    BY Overlays DEF writeImportedGitIdentity, ImInv, ImTypes
<1> QED
    BY <1>1, <1>2, NextPhase
    DEF ImInv, ImTypes, CommandStands, IdentityStands, StateStands, CredentialStands,
        Ahead, Halfway, Unchanged

\* What is written for the account: the keys of the host over those in force.
LEMMA StateWritten ==
    ImInv => /\ StateInForce \in Map /\ StateToWrite = Overlay(StateInForce, imPhase.state)
             /\ StateToWrite \in Map
             /\ imPhase.state # NoMap => StateToWrite # NoMap
BY Overlays DEF ImInv, ImTypes, StateInForce, StateToWrite

LEMMA StateSteps ==
    ImInv /\ (writeImportedClaudeState \/ removeClaudeStateKeysFromAgent) => ImInv'
<1>1. ASSUME ImInv, writeImportedClaudeState PROVE ImInv'
    <2>1. /\ UNCHANGED <<imHost, imAgent, imEdits, imRaced, imPlan>>
          /\ imPhase.item = 3 /\ imPhase.at = "apply"
          /\ imPhase' = [imPhase EXCEPT !.at = "second"]
          /\ imPlan["accountState"] \in {"new", "conflict", "overwrite"}
        BY <1>1, ItemsInOrder DEF writeImportedClaudeState, ImApplied, ImInv, ImTypes
    <2>2. imPhase.state # NoMap
        BY <1>1, <2>1 DEF ImInv, StateStands, Ahead
    <2>3. /\ imStored' \in [accountState : Map, credential : Value]
          /\ imStored'.accountState # NoMap /\ imStored'.credential = imStored.credential
        BY <1>1, <2>2, StateWritten DEF writeImportedClaudeState, ImInv, ImTypes
    <2> QED
        BY <1>1, <2>1, <2>3, SecondPhase
        DEF ImInv, ImTypes, CommandStands, IdentityStands, StateStands, CredentialStands,
            Ahead, Halfway, Unchanged
<1>2. ASSUME ImInv, removeClaudeStateKeysFromAgent PROVE ImInv'
    <2>1. /\ UNCHANGED <<imHost, imStored, imEdits, imRaced, imPlan>>
          /\ imPhase.item = 3 /\ imPhase.at = "second" /\ ImNextItem
        BY <1>2, ItemsInOrder DEF removeClaudeStateKeysFromAgent, ImApplied, ImInv, ImTypes
    <2>2. /\ UNCHANGED <<imAgent.command, imAgent.gitIdentity, imAgent.credential>>
          /\ imAgent' \in [command : Value, gitIdentity : Map, accountState : Map, credential : Value]
        BY <1>2, NoMapIsMap DEF removeClaudeStateKeysFromAgent, ImInv, ImTypes
    <2> QED
        BY <1>2, <2>1, <2>2, NextPhase
        DEF ImInv, ImTypes, CommandStands, IdentityStands, StateStands, CredentialStands,
            Ahead, Halfway, Unchanged
<1> QED
    BY <1>1, <1>2

LEMMA CredentialSteps == ImInv /\ (writeStoredCredential \/ removeAgentCredential) => ImInv'
<1>1. ASSUME ImInv, writeStoredCredential PROVE ImInv'
    <2>1. /\ UNCHANGED <<imHost, imAgent, imEdits, imRaced, imPlan>>
          /\ imPhase.item = 4 /\ imPhase.at = "apply"
          /\ imPhase' = [imPhase EXCEPT !.at = "second"]
        BY <1>1, ItemsInOrder DEF writeStoredCredential, ImApplied, ImInv, ImTypes
    <2>2. /\ imStored' \in [accountState : Map, credential : Value]
          /\ imStored'.accountState = imStored.accountState
          /\ imStored'.credential = imHost.credential
        BY <1>1 DEF writeStoredCredential, ImInv, ImTypes
    <2> QED
        BY <1>1, <2>1, <2>2, SecondPhase
        DEF ImInv, ImTypes, CommandStands, IdentityStands, StateStands, CredentialStands,
            Ahead, Halfway, Unchanged
<1>2. ASSUME ImInv, removeAgentCredential PROVE ImInv'
    <2>1. /\ UNCHANGED <<imHost, imStored, imEdits, imRaced, imPlan>>
          /\ imPhase.item = 4 /\ imPhase.at = "second" /\ ImNextItem
        BY <1>2, ItemsInOrder DEF removeAgentCredential, ImApplied, ImInv, ImTypes
    <2>2. /\ UNCHANGED <<imAgent.command, imAgent.gitIdentity, imAgent.accountState>>
          /\ imAgent' \in [command : Value, gitIdentity : Map, accountState : Map, credential : Value]
        BY <1>2 DEF removeAgentCredential, ImInv, ImTypes, Value
    <2> QED
        BY <1>2, <2>1, <2>2, NextPhase
        DEF ImInv, ImTypes, CommandStands, IdentityStands, StateStands, CredentialStands,
            Ahead, Halfway, Unchanged
<1> QED
    BY <1>1, <1>2

\* A change by others, of one item: while an import runs the item counts as raced.
LEMMA OthersTypes ==
    ASSUME ImInv, NEW item \in ImItems, OthersChange(item)
    PROVE  /\ imAgent' \in [command : Value, gitIdentity : Map, accountState : Map, credential : Value]
           /\ imHost' \in [command : Value, gitIdentity : Map, accountState : Map, credential : Value]
           /\ item # "command" => imAgent'.command = imAgent.command
           /\ item # "gitIdentity" => imAgent'.gitIdentity = imAgent.gitIdentity
           /\ item # "accountState" => imAgent'.accountState = imAgent.accountState
           /\ item # "credential" => /\ imAgent'.credential = imAgent.credential
                                     /\ imHost'.credential = imHost.credential
<1>1. \A m \in Map, f \in ImFields :
        [m EXCEPT ![f] = 2] \in Map /\ [m EXCEPT ![f] = 1] \in Map
    BY DEF Map, Value
<1>2. 0 \in Value /\ 1 \in Value /\ 2 \in Value
    BY DEF Value
<1>3. CASE item = "command"
    BY <1>2, <1>3 DEF OthersChange, ImInv, ImTypes
<1>4. CASE item = "credential"
    BY <1>2, <1>4 DEF OthersChange, ImInv, ImTypes
<1>5. CASE item = "gitIdentity"
    <2>1. PICK f \in ImFields :
            \/ imAgent' = [imAgent EXCEPT !.gitIdentity[f] = 2] /\ UNCHANGED imHost
            \/ imHost' = [imHost EXCEPT !.gitIdentity[f] = 1] /\ UNCHANGED imAgent
        BY <1>5 DEF OthersChange
    <2>2. imAgent.gitIdentity \in Map /\ imHost.gitIdentity \in Map
        BY DEF ImInv, ImTypes
    <2>3. /\ [imAgent.gitIdentity EXCEPT ![f] = 2] \in Map
          /\ [imHost.gitIdentity EXCEPT ![f] = 1] \in Map
        BY <1>1, <2>2
    <2>4. CASE imAgent' = [imAgent EXCEPT !.gitIdentity[f] = 2] /\ UNCHANGED imHost
        BY <1>5, <2>3, <2>4 DEF ImInv, ImTypes
    <2>5. CASE imHost' = [imHost EXCEPT !.gitIdentity[f] = 1] /\ UNCHANGED imAgent
        BY <1>5, <2>3, <2>5 DEF ImInv, ImTypes
    <2> QED
        BY <2>1, <2>4, <2>5
<1>6. CASE item = "accountState"
    <2>1. PICK f \in ImFields :
            \/ imAgent' = [imAgent EXCEPT !.accountState[f] = 2] /\ UNCHANGED imHost
            \/ imHost' = [imHost EXCEPT !.accountState[f] = 1] /\ UNCHANGED imAgent
        BY <1>6 DEF OthersChange
    <2>2. imAgent.accountState \in Map /\ imHost.accountState \in Map
        BY DEF ImInv, ImTypes
    <2>3. /\ [imAgent.accountState EXCEPT ![f] = 2] \in Map
          /\ [imHost.accountState EXCEPT ![f] = 1] \in Map
        BY <1>1, <2>2
    <2>4. CASE imAgent' = [imAgent EXCEPT !.accountState[f] = 2] /\ UNCHANGED imHost
        BY <1>6, <2>3, <2>4 DEF ImInv, ImTypes
    <2>5. CASE imHost' = [imHost EXCEPT !.accountState[f] = 1] /\ UNCHANGED imAgent
        BY <1>6, <2>3, <2>5 DEF ImInv, ImTypes
    <2> QED
        BY <2>1, <2>4, <2>5
<1> QED
    BY <1>3, <1>4, <1>5, <1>6 DEF ImItems

LEMMA OthersKeep ==
    ASSUME ImInv, NEW item \in ImItems, OthersChange(item)
    PROVE  ImInv'
<1>1. /\ UNCHANGED <<imStored, imPlan, imPhase>> /\ imEdits' = imEdits + 1
      /\ imPhase.at # "idle" => item \in imRaced'
      /\ imRaced \subseteq imRaced'
    BY DEF OthersChange
<1>2. ImTypes'
    BY <1>1, OthersTypes DEF ImInv, ImTypes
<1>3. CommandStands' /\ IdentityStands'
    BY <1>1, OthersTypes DEF ImInv, CommandStands, IdentityStands, Ahead, Halfway, Unchanged
<1>4. StateStands' /\ CredentialStands'
    BY <1>1, OthersTypes DEF ImInv, StateStands, CredentialStands, Ahead, Halfway, Unchanged
<1> QED
    BY <1>2, <1>3, <1>4 DEF ImInv

LEMMA ImInvNext == ImInv /\ [ImNext]_imVars => ImInv'
<1> SUFFICES ASSUME ImInv, [ImNext]_imVars PROVE ImInv'
    OBVIOUS
<1>1. CASE UNCHANGED imVars
    BY <1>1 DEF imVars, ImInv, ImTypes, CommandStands, IdentityStands, StateStands,
                CredentialStands, Ahead, Halfway, Unchanged
<1>2. CASE RunBasicsImport
    BY <1>2, ScanKeeps
<1>3. CASE \E policy \in {"overwrite", "skip"} : ResolveConflicts(policy)
    BY <1>3, ResolveKeeps
<1>4. CASE StopBeforeApply \/ ApplyStops
    BY <1>4, EndKeeps DEF StopBeforeApply, ApplyStops
<1>5. CASE SkipItem
    BY <1>5, SkipKeeps
<1>6. CASE RemoveDestination \/ CopyPortablePath \/ writeImportedGitIdentity
    BY <1>6, CommandSteps, IdentityStep
<1>7. CASE writeImportedClaudeState \/ removeClaudeStateKeysFromAgent
    BY <1>7, StateSteps
<1>8. CASE writeStoredCredential \/ removeAgentCredential
    BY <1>8, CredentialSteps
<1>9. CASE \E item \in ToSet(Items) : OthersChange(item)
    BY <1>9, OthersKeep, ItemNames DEF ImItems
<1> QED
    BY <1>1, <1>2, <1>3, <1>4, <1>5, <1>6, <1>7, <1>8, <1>9 DEF ImNext

----------------------------------------------------------------------------

\* Under an import that is being applied, what each step changes.
LEMMA ImportingSteps ==
    ASSUME ImInv, ImNext, Importing
    PROVE  \/ SkipItem \/ ApplyStops \/ RemoveDestination \/ CopyPortablePath
           \/ writeImportedGitIdentity \/ writeImportedClaudeState
           \/ removeClaudeStateKeysFromAgent \/ writeStoredCredential
           \/ removeAgentCredential
<1>1. imPhase.at \in {"apply", "second"} /\ imEdits' = imEdits /\ imEdits + 1 # imEdits
    BY DEF Importing, ImInv, ImTypes
<1>2. ~RunBasicsImport /\ ~StopBeforeApply /\ \A policy : ~ResolveConflicts(policy)
    BY <1>1 DEF RunBasicsImport, StopBeforeApply, ResolveConflicts
<1>3. \A item : ~OthersChange(item)
    BY <1>1 DEF OthersChange
<1> QED
    BY <1>2, <1>3 DEF ImNext

LEMMA AppliedIsPlanned ==
    ASSUME ImInv, imPhase.at \in {"apply", "second"}, NEW i \in ImItems, ImApplied(i)
    PROVE  imPlan[i] \in {"new", "overwrite"}
BY DEF ImInv, ImTypes, ImApplied

LEMMA ImportKeepsCommand ==
    ASSUME ImInv, ImNext, Importing,
           imAgent'.command # imAgent.command, imAgent.command \notin {0, imHost.command}
    PROVE  imPlan["command"] = "overwrite" \/ "command" \in imRaced
<1>1. CASE RemoveDestination
    <2>1. imPhase.at = "apply" /\ imPhase.item = 1 /\ imPlan["command"] \in {"new", "overwrite"}
        BY <1>1, ItemsInOrder, AppliedIsPlanned
        DEF RemoveDestination, ImItems, ImApplied, ImInv, ImTypes
    <2> QED
        BY <2>1 DEF ImInv, CommandStands, Ahead, Unchanged
<1>2. CASE CopyPortablePath
    <2>1. imPhase.at = "second" /\ imPhase.item = 1
        BY <1>2, ItemsInOrder DEF CopyPortablePath, ImApplied, ImInv, ImTypes
    <2> QED
        BY <2>1 DEF ImInv, CommandStands, Halfway
<1>3. CASE SkipItem \/ ApplyStops \/ writeImportedClaudeState \/ writeStoredCredential
    BY <1>3 DEF SkipItem, ApplyStops, writeImportedClaudeState, writeStoredCredential
<1>4. CASE writeImportedGitIdentity \/ removeClaudeStateKeysFromAgent \/ removeAgentCredential
    BY <1>4 DEF writeImportedGitIdentity, removeClaudeStateKeysFromAgent,
                removeAgentCredential, ImInv, ImTypes
<1> QED
    BY <1>1, <1>2, <1>3, <1>4, ImportingSteps

LEMMA ImportKeepsIdentity ==
    ASSUME ImInv, ImNext, Importing, NEW f \in ImFields,
           imAgent'.gitIdentity[f] # imAgent.gitIdentity[f], imAgent.gitIdentity[f] # 0
    PROVE  imPlan["gitIdentity"] = "overwrite" \/ "gitIdentity" \in imRaced
<1>1. CASE writeImportedGitIdentity
    <2>1. /\ imPhase.at = "apply" /\ imPhase.item = 2
          /\ imPlan["gitIdentity"] \in {"new", "overwrite"}
        BY <1>1, ItemsInOrder, AppliedIsPlanned
        DEF writeImportedGitIdentity, ImItems, ImApplied, ImInv, ImTypes
    <2>2. imAgent'.gitIdentity = Overlay(imAgent.gitIdentity, imPhase.identity)
        BY <1>1 DEF writeImportedGitIdentity, ImInv, ImTypes
    <2>3. imAgent'.gitIdentity[f] = IF imPhase.identity[f] # 0 THEN imPhase.identity[f]
                                    ELSE imAgent.gitIdentity[f]
        BY <2>2 DEF Overlay
    <2> QED
        BY <2>1, <2>3 DEF ImInv, IdentityStands, Ahead, Unchanged
<1>2. CASE SkipItem \/ ApplyStops \/ writeImportedClaudeState \/ writeStoredCredential
    BY <1>2 DEF SkipItem, ApplyStops, writeImportedClaudeState, writeStoredCredential
<1>3. CASE RemoveDestination \/ CopyPortablePath \/ removeClaudeStateKeysFromAgent
             \/ removeAgentCredential
    BY <1>3 DEF RemoveDestination, CopyPortablePath, removeClaudeStateKeysFromAgent,
                removeAgentCredential, ImInv, ImTypes
<1> QED
    BY <1>1, <1>2, <1>3, ImportingSteps

LEMMA ImportKeepsStored ==
    ASSUME ImInv, ImNext, Importing,
           imStored'.credential # imStored.credential, imStored.credential # 0
    PROVE  imPlan["credential"] = "overwrite" /\ imStored'.credential = imHost.credential
<1>1. CASE writeStoredCredential
    <2>1. /\ imPhase.at = "apply" /\ imPhase.item = 4
          /\ imPlan["credential"] \in {"new", "overwrite"}
          /\ imStored'.credential = imHost.credential
        BY <1>1, ItemsInOrder, AppliedIsPlanned
        DEF writeStoredCredential, ImItems, ImApplied, ImInv, ImTypes
    <2> QED
        BY <2>1 DEF ImInv, CredentialStands, Ahead
<1>2. CASE writeImportedClaudeState
    BY <1>2 DEF writeImportedClaudeState, ImInv, ImTypes
<1>3. CASE SkipItem \/ ApplyStops \/ RemoveDestination \/ CopyPortablePath
             \/ writeImportedGitIdentity \/ removeClaudeStateKeysFromAgent
             \/ removeAgentCredential
    BY <1>3 DEF SkipItem, ApplyStops, RemoveDestination, CopyPortablePath,
                writeImportedGitIdentity, removeClaudeStateKeysFromAgent, removeAgentCredential
<1> QED
    BY <1>1, <1>2, <1>3, ImportingSteps

LEMMA ImportKeepsSignIn ==
    ASSUME ImInv, ImNext, Importing,
           imAgent'.credential # imAgent.credential, imAgent.credential # imStored.credential
    PROVE  imPlan["credential"] = "overwrite" \/ "credential" \in imRaced
<1>1. CASE removeAgentCredential
    <2>1. /\ imPhase.at = "second" /\ imPhase.item = 4
          /\ imPlan["credential"] \in {"new", "overwrite"}
          /\ imAgent'.credential = 0
        BY <1>1, ItemsInOrder, AppliedIsPlanned
        DEF removeAgentCredential, ImItems, ImApplied, ImInv, ImTypes
    <2> QED
        BY <2>1 DEF ImInv, CredentialStands, Halfway, Unchanged
<1>2. CASE SkipItem \/ ApplyStops \/ writeImportedClaudeState \/ writeStoredCredential
    BY <1>2 DEF SkipItem, ApplyStops, writeImportedClaudeState, writeStoredCredential
<1>3. CASE RemoveDestination \/ CopyPortablePath \/ removeClaudeStateKeysFromAgent
             \/ writeImportedGitIdentity
    BY <1>3 DEF RemoveDestination, CopyPortablePath, removeClaudeStateKeysFromAgent,
                writeImportedGitIdentity, ImInv, ImTypes
<1> QED
    BY <1>1, <1>2, <1>3, ImportingSteps

LEMMA ImportKeepsState ==
    ASSUME ImInv, ImNext, Importing, NEW f \in ImFields, StateInForce[f] # 0
    PROVE  /\ StateInForce'[f] # 0
           /\ StateInForce'[f] # StateInForce[f] =>
                imPlan["accountState"] = "overwrite" \/ "accountState" \in imRaced
<1>1. CASE writeImportedClaudeState
    <2>1. /\ imPhase.at = "apply" /\ imPhase.item = 3
          /\ imPlan["accountState"] \in {"new", "overwrite"}
        BY <1>1, ItemsInOrder, AppliedIsPlanned
        DEF writeImportedClaudeState, ImItems, ImApplied, ImInv, ImTypes
    <2>2. imPhase.state # NoMap
        BY <2>1 DEF ImInv, StateStands, Ahead
    <2>3. imStored'.accountState = Overlay(StateInForce, imPhase.state)
          /\ imStored'.accountState # NoMap
        BY <1>1, <2>2, StateWritten DEF writeImportedClaudeState, ImInv, ImTypes
    <2>4. StateInForce'[f] = IF imPhase.state[f] # 0 THEN imPhase.state[f]
                             ELSE StateInForce[f]
        BY <2>3 DEF StateInForce, Overlay
    <2>5. ASSUME Unchanged("accountState")
          PROVE  StateInForce = imPhase.state
        <3>1. StateInForce = imAgent.accountState /\ imAgent.accountState \in {NoMap, imPhase.state}
            BY <2>1, <2>5 DEF ImInv, StateStands, Ahead, Unchanged, StateInForce
        <3>2. NoMap[f] = 0
            BY DEF NoMap
        <3> QED
            BY <3>1, <3>2
    <2> QED
        BY <2>1, <2>4, <2>5 DEF Unchanged
<1>2. CASE removeClaudeStateKeysFromAgent
    <2>1. imPhase.at = "second" /\ imPhase.item = 3 /\ UNCHANGED imStored
        BY <1>2, ItemsInOrder DEF removeClaudeStateKeysFromAgent, ImApplied, ImInv, ImTypes
    <2>2. imStored.accountState # NoMap
        BY <2>1 DEF ImInv, StateStands, Halfway
    <2> QED
        BY <2>1, <2>2 DEF StateInForce
<1>3. CASE writeStoredCredential
    BY <1>3 DEF writeStoredCredential, StateInForce, ImInv, ImTypes
<1>4. CASE SkipItem \/ ApplyStops
    BY <1>4 DEF SkipItem, ApplyStops, StateInForce
<1>5. CASE RemoveDestination \/ CopyPortablePath \/ writeImportedGitIdentity
             \/ removeAgentCredential
    BY <1>5 DEF RemoveDestination, CopyPortablePath, writeImportedGitIdentity,
                removeAgentCredential, StateInForce, ImInv, ImTypes
<1> QED
    BY <1>1, <1>2, <1>3, <1>4, <1>5, ImportingSteps

\* config_import.go and config_import_harness.go: an import replaces nothing of the
\* agent's that differs from the host's unless the user said so.
THEOREM ImportAsksFirst == ImSpec => ImportKeepsWhatDiffers
<1>1. ImInv /\ [ImNext]_imVars =>
        [ Importing =>
          /\ (imAgent.command' # imAgent.command /\ imAgent.command \notin {0, imHost.command})
               => imPlan["command"] = "overwrite" \/ "command" \in imRaced
          /\ \A f \in ImFields :
               (imAgent.gitIdentity[f]' # imAgent.gitIdentity[f] /\ imAgent.gitIdentity[f] # 0)
                 => imPlan["gitIdentity"] = "overwrite" \/ "gitIdentity" \in imRaced
          /\ (imStored.credential' # imStored.credential /\ imStored.credential # 0)
               => imPlan["credential"] = "overwrite" /\ imStored.credential' = imHost.credential
          /\ (imAgent.credential' # imAgent.credential
                /\ imAgent.credential # imStored.credential)
               => imPlan["credential"] = "overwrite" \/ "credential" \in imRaced
          /\ \A f \in ImFields :
               /\ StateInForce[f] # 0 => StateInForce'[f] # 0
               /\ (StateInForce[f] # 0 /\ StateInForce'[f] # StateInForce[f])
                    => imPlan["accountState"] = "overwrite" \/ "accountState" \in imRaced
        ]_imVars
    BY ImportKeepsCommand, ImportKeepsIdentity, ImportKeepsStored, ImportKeepsSignIn,
       ImportKeepsState
<1> QED
    BY <1>1, ImInvInit, ImInvNext, PTL DEF ImSpec, ImportKeepsWhatDiffers

----------------------------------------------------------------------------
(* HarnessAssets.                                                          *)

\* The process works on the copies, under the lock.
InSync(p) == haStep[p] \in {"judge", "copy", "swap", "place"}

HaTypes ==
    /\ DOMAIN haStep = HaProcess /\ DOMAIN haAsset = HaProcess /\ DOMAIN haSeen = HaProcess
    /\ DOMAIN haMan = HaProcess /\ DOMAIN haAside = HaProcess
    /\ DOMAIN haDst = Asset /\ haClock \in Nat

\* Whoever is in a sync holds the lock, alone.
OneSync ==
    /\ \A p \in HaProcess : p \in haLock <=> InSync(p)
    /\ \A p, q \in haLock : p = q
    /\ haLock \subseteq HaProcess

\* What a sync is about to replace is managed, or was not there when it looked.
InstallsAreDue ==
    /\ \A p \in HaProcess : haStep[p] \in {"idle", "lock", "judge"} => haAsset[p] = {}
    /\ \A p \in HaProcess : haAsset[p] \subseteq Asset /\ \A a, b \in haAsset[p] : a = b
    /\ \A p \in HaProcess, a \in Asset :
         a \in haAsset[p] => a \in haMan[p] \/ haSeen[p].v = 0
    /\ \A a \in Asset : haDst[a].by = "agent" => haDst[a].v # 0

\* A copy of hazmat's is in the list of the running sync, and without one in the
\* manifest, or it is known to be loose.
CopiesAreListed ==
    \A a \in Asset : haDst[a].by = "hazmat" =>
        /\ \A p \in HaProcess : InSync(p) => a \in haMan[p] \union haLoose
        /\ (\A p \in HaProcess : ~InSync(p)) => a \in haManifest \union haLoose

\* What a sync moved aside may come back as what it was.
AsideIsListed ==
    \A p \in HaProcess, a \in Asset :
        haStep[p] = "place" /\ a \in haAsset[p] =>
            /\ haAside[p].by = "hazmat" => a \in haMan[p] \union haLoose
            /\ haAside[p].by = "agent" => haAside[p].v # 0

HaInv == HaTypes /\ OneSync /\ InstallsAreDue /\ CopiesAreListed /\ AsideIsListed

LEMMA HaInvInit == HaInit => HaInv
BY DEF HaInit, HaInv, HaTypes, OneSync, InstallsAreDue, CopiesAreListed, AsideIsListed, InSync,
       NoCopy

\* The invariant is kept by what leaves the processes and the copies as they are.
LEMMA WorldKeeps ==
    HaInv /\ (\E a \in Asset : EditSource(a) \/ AgentWrites(a)) => HaInv'
<1> SUFFICES ASSUME HaInv, NEW b \in Asset, EditSource(b) \/ AgentWrites(b) PROVE HaInv'
    OBVIOUS
<1>1. /\ UNCHANGED <<haManifest, haLock, haStep, haMan, haAsset, haSeen, haAside, haLoose>>
      /\ haClock' \in Nat
    BY DEF EditSource, AgentWrites, haItem, HaInv, HaTypes
<1>0. AsideIsListed'
    BY <1>1 DEF HaInv, AsideIsListed
<1>2. CASE EditSource(b)
    <2>1. UNCHANGED haDst
        BY <1>2 DEF EditSource
    <2> QED
        BY <1>0, <1>1, <2>1 DEF HaInv, HaTypes, OneSync, InstallsAreDue, CopiesAreListed, InSync
<1>3. CASE AgentWrites(b)
    <2>1. PICK v : v # 0 /\ haDst' = [haDst EXCEPT ![b] = [v |-> v, by |-> "agent"]]
        BY <1>3 DEF AgentWrites
    <2>2. \A a \in Asset : haDst'[a] = IF a = b THEN [v |-> v, by |-> "agent"] ELSE haDst[a]
        BY <2>1 DEF HaInv, HaTypes
    <2>3. DOMAIN haDst' = Asset
        BY <2>1 DEF HaInv, HaTypes
    <2>4. HaTypes' /\ OneSync'
        BY <1>1, <2>3 DEF HaInv, HaTypes, OneSync, InSync
    <2>5. InstallsAreDue'
        BY <1>1, <2>1, <2>2 DEF HaInv, InstallsAreDue
    <2>6. CopiesAreListed'
        BY <1>1, <2>2 DEF HaInv, CopiesAreListed, InSync
    <2> QED
        BY <1>0, <2>4, <2>5, <2>6 DEF HaInv
<1> QED
    BY <1>2, <1>3

LEMMA PreviewKeeps == ASSUME HaInv, NEW p \in HaProcess, Preview(p) PROVE HaInv'
<1>1. /\ UNCHANGED <<haDst, haManifest, haClock, haLock, haMan, haAsset, haSeen, haAside, haLoose>>
      /\ haStep[p] = "idle" /\ haStep' = [haStep EXCEPT ![p] = "lock"]
    BY DEF Preview, HaGo, haFiles, haItem
<1>2. \A q \in HaProcess : haStep'[q] = IF q = p THEN "lock" ELSE haStep[q]
    BY <1>1 DEF HaInv, HaTypes
<1>3. AsideIsListed'
    BY <1>1, <1>2 DEF HaInv, AsideIsListed
<1> QED
    BY <1>1, <1>2, <1>3 DEF HaInv, HaTypes, OneSync, InstallsAreDue, CopiesAreListed, InSync

LEMMA BeginKeeps == ASSUME HaInv, NEW p \in HaProcess, Begin(p) PROVE HaInv'
<1>1. /\ UNCHANGED <<haDst, haManifest, haClock, haAsset, haSeen, haAside, haLoose>>
      /\ haStep[p] = "lock" /\ haStep' = [haStep EXCEPT ![p] = "judge"]
      /\ haLock = {} /\ haLock' = {p} /\ haMan' = [haMan EXCEPT ![p] = haManifest]
    BY DEF Begin, HaGo, haFiles, haItem, LockManifest
<1>2. \A q \in HaProcess : /\ haStep'[q] = IF q = p THEN "judge" ELSE haStep[q]
                           /\ haMan'[q] = IF q = p THEN haManifest ELSE haMan[q]
    BY <1>1 DEF HaInv, HaTypes
<1>3. \A q \in HaProcess : ~InSync(q)
    BY <1>1 DEF HaInv, OneSync
<1>4. HaTypes'
    <2>1. DOMAIN haMan' = HaProcess
        BY <1>1 DEF HaInv, HaTypes
    <2> QED
        BY <1>1, <2>1 DEF HaInv, HaTypes
<1>5. OneSync'
    BY <1>1, <1>2, <1>3 DEF OneSync, InSync
<1>6. InstallsAreDue'
    BY <1>1, <1>2 DEF HaInv, InstallsAreDue
<1>7. CopiesAreListed'
    BY <1>1, <1>2, <1>3 DEF HaInv, CopiesAreListed, InSync
<1>8. AsideIsListed'
    BY <1>1, <1>2 DEF HaInv, AsideIsListed
<1> QED
    BY <1>4, <1>5, <1>6, <1>7, <1>8 DEF HaInv

\* A step of the process that holds the lock, of which only its own list of managed
\* assets, the one it is installing and the copies may be different.
LEMMA JudgeKeeps ==
    ASSUME HaInv, NEW p \in HaProcess, NEW b \in Asset, Judge(p, b) PROVE HaInv'
<1>1. /\ UNCHANGED <<haDst, haManifest, haClock, haLock, haLoose, haAside>> /\ haStep[p] = "judge"
    BY DEF Judge, haFiles
<1>2. CASE MustInstall(p, b)
    <2>1. /\ haStep' = [haStep EXCEPT ![p] = "copy"] /\ haAsset' = [haAsset EXCEPT ![p] = {b}]
          /\ haSeen' = [haSeen EXCEPT ![p] = haDst[b]] /\ UNCHANGED haMan
        BY <1>2 DEF Judge
    <2>2. \A q \in HaProcess : /\ haStep'[q] = IF q = p THEN "copy" ELSE haStep[q]
                               /\ haAsset'[q] = IF q = p THEN {b} ELSE haAsset[q]
                               /\ haSeen'[q] = IF q = p THEN haDst[b] ELSE haSeen[q]
        BY <2>1 DEF HaInv, HaTypes
    <2>3. b \in haMan[p] \/ haDst[b].v = 0
        BY <1>2 DEF MustInstall
    <2>4. HaTypes' /\ OneSync'
        BY <1>1, <2>1, <2>2 DEF HaInv, HaTypes, OneSync, InSync
    <2>5. InstallsAreDue'
        BY <1>1, <2>1, <2>2, <2>3 DEF HaInv, InstallsAreDue
    <2>6. CopiesAreListed'
        BY <1>1, <2>1, <2>2 DEF HaInv, CopiesAreListed, InSync
    <2>7. AsideIsListed'
        BY <1>1, <2>1, <2>2 DEF HaInv, AsideIsListed
    <2> QED
        BY <2>4, <2>5, <2>6, <2>7 DEF HaInv
<1>3. CASE ~MustInstall(p, b)
    <2>1. /\ UNCHANGED <<haStep, haAsset, haSeen>>
          /\ haMan' \in {haMan, [haMan EXCEPT ![p] = @ \union {b}]}
        BY <1>3 DEF Judge
    <2>2. DOMAIN haMan' = HaProcess /\ \A q \in HaProcess : haMan[q] \subseteq haMan'[q]
        BY <2>1 DEF HaInv, HaTypes
    <2>3. AsideIsListed'
        BY <1>1, <2>1, <2>2 DEF HaInv, AsideIsListed
    <2> QED
        BY <1>1, <2>1, <2>2, <2>3
           DEF HaInv, HaTypes, OneSync, InstallsAreDue, CopiesAreListed, InSync
<1> QED
    BY <1>2, <1>3

LEMMA CopyKeeps == ASSUME HaInv, NEW p \in HaProcess, Copy(p) PROVE HaInv'
<1>1. /\ UNCHANGED <<haDst, haManifest, haClock, haLock, haLoose, haMan, haAside>>
      /\ haStep[p] = "copy"
      /\ \/ /\ haStep' = [haStep EXCEPT ![p] = "swap"] /\ UNCHANGED <<haAsset, haSeen>>
         \/ /\ haStep' = [haStep EXCEPT ![p] = "judge"]
            /\ haAsset' = [haAsset EXCEPT ![p] = {}]
            /\ haSeen' = [haSeen EXCEPT ![p] = NoCopy]
    BY DEF Copy, HaGo, haFiles
<1>2. /\ \A q \in HaProcess : haStep'[q] = haStep[q] \/ q = p
      /\ haStep'[p] \in {"swap", "judge"} /\ (haStep'[p] = "judge" => haAsset'[p] = {})
      /\ \A q \in HaProcess : \/ haAsset'[q] = haAsset[q] /\ haSeen'[q] = haSeen[q]
                              \/ haAsset'[q] = {}
    BY <1>1 DEF HaInv, HaTypes
<1>3. HaTypes' /\ OneSync'
    BY <1>1, <1>2 DEF HaInv, HaTypes, OneSync, InSync
<1>4. InstallsAreDue'
    BY <1>1, <1>2 DEF HaInv, InstallsAreDue
<1>5. CopiesAreListed'
    BY <1>1, <1>2 DEF HaInv, CopiesAreListed, InSync
<1>6. AsideIsListed'
    BY <1>1, <1>2 DEF HaInv, AsideIsListed
<1> QED
    BY <1>3, <1>4, <1>5, <1>6 DEF HaInv

LEMMA MoveAsideKeeps == ASSUME HaInv, NEW p \in HaProcess, MoveAside(p) PROVE HaInv'
<1>1. PICK b \in haAsset[p] :
        /\ haDst' = [haDst EXCEPT ![b] = NoCopy]
        /\ haAside' = [haAside EXCEPT ![p] = haDst[b]]
        /\ haStep[p] = "swap" /\ haStep' = [haStep EXCEPT ![p] = "place"]
        /\ UNCHANGED <<haManifest, haClock, haLock, haLoose, haMan, haAsset, haSeen>>
    BY DEF MoveAside, HaGo, haItem
<1>2. \A q \in HaProcess : haStep'[q] = IF q = p THEN "place" ELSE haStep[q]
    BY <1>1 DEF HaInv, HaTypes
<1>3. /\ DOMAIN haDst' = Asset
      /\ \A a \in Asset : haDst'[a] = haDst[a] \/ haDst'[a].by = "none"
    BY <1>1 DEF HaInv, HaTypes, NoCopy
<1>4. HaTypes' /\ OneSync'
    BY <1>1, <1>2, <1>3 DEF HaInv, HaTypes, OneSync, InSync
<1>5. InstallsAreDue'
    BY <1>1, <1>2, <1>3 DEF HaInv, InstallsAreDue
<1>6. CopiesAreListed'
    BY <1>1, <1>2, <1>3 DEF HaInv, CopiesAreListed, InSync
<1>7. AsideIsListed'
    <2>1. b \in Asset /\ InSync(p)
        BY <1>1 DEF HaInv, InstallsAreDue, InSync
    <2>2. \A q \in HaProcess : haAside'[q] = IF q = p THEN haDst[b] ELSE haAside[q]
        BY <1>1 DEF HaInv, HaTypes
    <2>3. /\ haDst[b].by = "hazmat" => b \in haMan[p] \union haLoose
          /\ haDst[b].by = "agent" => haDst[b].v # 0
        BY <2>1 DEF HaInv, CopiesAreListed, InstallsAreDue
    <2>4. \A a \in haAsset[p] : a = b
        BY <1>1 DEF HaInv, InstallsAreDue
    <2> QED
        BY <1>1, <1>2, <2>2, <2>3, <2>4 DEF HaInv, AsideIsListed
<1> QED
    BY <1>4, <1>5, <1>6, <1>7 DEF HaInv

\* The new copy is listed or loose, or what was there comes back, or nothing.
LEMMA PlaceKeeps == ASSUME HaInv, NEW p \in HaProcess, Place(p) PROVE HaInv'
<1>1. PICK b \in haAsset[p] :
        \/ /\ haDst' = [haDst EXCEPT ![b] = [v |-> haTemp[p], by |-> "hazmat"]]
           /\ haMan' = [haMan EXCEPT ![p] = @ \union {b}] /\ haLoose' = haLoose
        \/ /\ haDst' = [haDst EXCEPT ![b] = [v |-> haTemp[p], by |-> "hazmat"]]
           /\ haLoose' = haLoose \union ({b} \ haMan[p]) /\ haMan' = haMan
        \/ haDst' = [haDst EXCEPT ![b] = haAside[p]] /\ UNCHANGED <<haMan, haLoose>>
        \/ UNCHANGED <<haDst, haMan, haLoose>>
    BY DEF Place
<1>0. /\ haStep[p] = "place" /\ haStep' = [haStep EXCEPT ![p] = "judge"]
      /\ haAsset' = [haAsset EXCEPT ![p] = {}] /\ haSeen' = [haSeen EXCEPT ![p] = NoCopy]
      /\ haAside' = [haAside EXCEPT ![p] = NoCopy]
      /\ UNCHANGED <<haManifest, haClock, haLock>>
    BY DEF Place, HaGo
<1>2. b \in Asset
    BY <1>1 DEF HaInv, InstallsAreDue
<1>3. /\ \A q \in HaProcess : /\ haStep'[q] = IF q = p THEN "judge" ELSE haStep[q]
                              /\ haAsset'[q] = IF q = p THEN {} ELSE haAsset[q]
                              /\ haSeen'[q] = IF q = p THEN NoCopy ELSE haSeen[q]
                              /\ haAside'[q] = IF q = p THEN NoCopy ELSE haAside[q]
      /\ DOMAIN haAside' = HaProcess /\ DOMAIN haSeen' = HaProcess
      /\ DOMAIN haStep' = HaProcess /\ DOMAIN haAsset' = HaProcess
    BY <1>0 DEF HaInv, HaTypes
<1>4. /\ DOMAIN haMan' = HaProcess /\ DOMAIN haDst' = Asset
      /\ haMan[p] \union haLoose \subseteq haMan'[p] \union haLoose'
      /\ \A q \in HaProcess \ {p} : haMan'[q] = haMan[q]
      /\ \A q \in HaProcess : haMan[q] \subseteq haMan'[q]
      /\ haLoose \subseteq haLoose' /\ haLoose' \subseteq haLoose \union {b}
      /\ \A a \in Asset \ {b} : haDst'[a] = haDst[a]
    BY <1>1, <1>2 DEF HaInv, HaTypes
<1>5. /\ haDst'[b].by = "hazmat" => b \in haMan'[p] \union haLoose'
      /\ haDst'[b].by = "agent" => haDst'[b].v # 0
    <2>1. CASE /\ haDst' = [haDst EXCEPT ![b] = [v |-> haTemp[p], by |-> "hazmat"]]
               /\ haMan' = [haMan EXCEPT ![p] = @ \union {b}] /\ haLoose' = haLoose
        BY <1>2, <2>1 DEF HaInv, HaTypes
    <2>2. CASE /\ haDst' = [haDst EXCEPT ![b] = [v |-> haTemp[p], by |-> "hazmat"]]
               /\ haLoose' = haLoose \union ({b} \ haMan[p]) /\ haMan' = haMan
        BY <1>2, <2>2 DEF HaInv, HaTypes
    <2>3. CASE haDst' = [haDst EXCEPT ![b] = haAside[p]] /\ UNCHANGED <<haMan, haLoose>>
        <3>1. haDst'[b] = haAside[p]
            BY <1>2, <2>3 DEF HaInv, HaTypes
        <3> QED
            BY <1>0, <1>1, <1>2, <2>3, <3>1 DEF HaInv, AsideIsListed
    <2>4. CASE UNCHANGED <<haDst, haMan, haLoose>>
        <3>1. InSync(p)
            BY <1>0 DEF InSync
        <3> QED
            BY <1>2, <2>4, <3>1 DEF HaInv, CopiesAreListed, InstallsAreDue
    <2> QED
        BY <1>1, <2>1, <2>2, <2>3, <2>4
<1>6. HaTypes' /\ OneSync'
    BY <1>0, <1>3, <1>4 DEF HaInv, HaTypes, OneSync, InSync
<1>7. InstallsAreDue'
    BY <1>3, <1>4, <1>5 DEF HaInv, InstallsAreDue
<1>8. \A q \in HaProcess : InSync(q) => q = p
    BY <1>0 DEF HaInv, OneSync, InSync
<1>9. CopiesAreListed'
    BY <1>0, <1>3, <1>4, <1>5, <1>8 DEF HaInv, CopiesAreListed, InSync
<1>10. AsideIsListed'
    BY <1>3, <1>4 DEF HaInv, AsideIsListed
<1> QED
    BY <1>6, <1>7, <1>9, <1>10 DEF HaInv

\* The end of a sync: what it had listed is loose from then on, or in the manifest.
LEMMA EndKeepsOthers ==
    ASSUME HaInv, NEW p \in HaProcess, NEW loose, EndSync(p, loose),
           haLoose \subseteq loose \/ InSync(p), UNCHANGED <<haDst, haClock>>
    PROVE  /\ HaTypes' /\ OneSync' /\ InstallsAreDue' /\ AsideIsListed' /\ haLoose' = loose
           /\ \A q \in HaProcess : ~InSync(p)' /\ (q # p => (InSync(q)' <=> InSync(q)))
           /\ \A q \in HaProcess \ {p} : haMan'[q] = haMan[q]
<1>1. /\ haStep' = [haStep EXCEPT ![p] = "idle"] /\ haMan' = [haMan EXCEPT ![p] = {}]
      /\ haAsset' = [haAsset EXCEPT ![p] = {}] /\ haSeen' = [haSeen EXCEPT ![p] = NoCopy]
      /\ haAside' = [haAside EXCEPT ![p] = NoCopy]
      /\ haLock' = haLock \ {p} /\ haLoose' = loose
    BY DEF EndSync
<1>2. \A q \in HaProcess : /\ haStep'[q] = IF q = p THEN "idle" ELSE haStep[q]
                           /\ haMan'[q] = IF q = p THEN {} ELSE haMan[q]
                           /\ haAsset'[q] = IF q = p THEN {} ELSE haAsset[q]
                           /\ haSeen'[q] = IF q = p THEN NoCopy ELSE haSeen[q]
                           /\ haAside'[q] = IF q = p THEN NoCopy ELSE haAside[q]
    BY <1>1 DEF HaInv, HaTypes
<1>3. \A q \in HaProcess : ~InSync(p)' /\ (q # p => (InSync(q)' <=> InSync(q)))
    BY <1>2 DEF InSync
<1>4. HaTypes'
    <2>1. DOMAIN haMan' = HaProcess
        BY <1>1 DEF HaInv, HaTypes
    <2> QED
        BY <1>1, <1>2, <2>1 DEF HaInv, HaTypes
<1>5. OneSync'
    BY <1>1, <1>3 DEF HaInv, OneSync
<1>6. InstallsAreDue'
    BY <1>2 DEF HaInv, InstallsAreDue
<1>7. AsideIsListed'
    <2>1. \A q \in HaProcess : (InSync(p) /\ InSync(q)) => q = p
        BY DEF HaInv, OneSync
    <2>2. \A q \in HaProcess : haStep[q] = "place" => InSync(q)
        BY DEF InSync
    <2> QED
        BY <1>1, <1>2, <2>1, <2>2 DEF HaInv, AsideIsListed
<1> QED
    BY <1>1, <1>2, <1>3, <1>4, <1>5, <1>6, <1>7

LEMMA AbandonKeeps ==
    ASSUME HaInv, NEW p \in HaProcess, EndSync(p, haLoose \union (haMan[p] \ haManifest)),
           UNCHANGED <<haDst, haClock, haManifest>>
    PROVE  HaInv'
<1>0. haLoose \subseteq haLoose \union (haMan[p] \ haManifest)
    OBVIOUS
<1>1. CopiesAreListed'
    BY <1>0, EndKeepsOthers DEF HaInv, CopiesAreListed
<1> QED
    BY <1>0, <1>1, EndKeepsOthers DEF HaInv

LEMMA DeleteKeeps ==
    ASSUME HaInv, NEW p \in HaProcess, NEW b \in Asset, DeleteOne(p, b) PROVE HaInv'
<1>1. CASE /\ haDst' = [haDst EXCEPT ![b] = NoCopy]
           /\ haMan' = [haMan EXCEPT ![p] = @ \ {b}]
           /\ UNCHANGED <<haLock, haStep, haItem, haLoose>>
    <2>1. haStep[p] = "judge" /\ UNCHANGED <<haManifest, haClock, haAsset, haSeen, haAside>>
        BY <1>1 DEF DeleteOne, haItem
    <2>2. /\ DOMAIN haMan' = HaProcess
          /\ \A q \in HaProcess : haMan'[q] = IF q = p THEN haMan[q] \ {b} ELSE haMan[q]
        BY <1>1 DEF HaInv, HaTypes
    <2>3. /\ DOMAIN haDst' = Asset /\ haDst'[b].by = "none"
          /\ \A a \in Asset \ {b} : haDst'[a] = haDst[a]
        BY <1>1 DEF HaInv, HaTypes, NoCopy
    <2>4. HaTypes' /\ OneSync'
        BY <1>1, <2>1, <2>2, <2>3 DEF HaInv, HaTypes, OneSync, InSync
    <2>5. InstallsAreDue'
        BY <1>1, <2>1, <2>2, <2>3 DEF HaInv, InstallsAreDue
    <2>6. CopiesAreListed'
        BY <1>1, <2>1, <2>2, <2>3 DEF HaInv, CopiesAreListed, InSync
    <2>7. AsideIsListed'
        <3>1. \A q \in HaProcess : haStep[q] = "place" => q # p
            BY <2>1
        <3> QED
            BY <1>1, <2>1, <2>2, <3>1 DEF HaInv, AsideIsListed
    <2> QED
        BY <2>4, <2>5, <2>6, <2>7 DEF HaInv
<1>2. CASE EndSync(p, haLoose \union (haMan[p] \ haManifest)) /\ UNCHANGED haDst
    BY <1>2, AbandonKeeps DEF DeleteOne
<1> QED
    BY <1>1, <1>2 DEF DeleteOne

LEMMA ManifestKeeps == ASSUME HaInv, NEW p \in HaProcess, WriteManifest(p) PROVE HaInv'
<1>1. /\ haStep[p] = "judge" /\ haManifest' = haMan[p] /\ UNCHANGED <<haDst, haClock>>
      /\ EndSync(p, haLoose \ haMan[p])
    BY DEF WriteManifest
<1>2. InSync(p) /\ \A q \in HaProcess : InSync(q) => q = p
    BY <1>1 DEF HaInv, OneSync, InSync
<1>3. CopiesAreListed'
    BY <1>1, <1>2, EndKeepsOthers DEF HaInv, CopiesAreListed
<1> QED
    BY <1>1, <1>2, <1>3, EndKeepsOthers DEF HaInv

LEMMA HaInvNext == HaInv /\ [HaNext]_haVars => HaInv'
<1> SUFFICES ASSUME HaInv, [HaNext]_haVars PROVE HaInv'
    OBVIOUS
<1>1. CASE UNCHANGED haVars
    BY <1>1
       DEF haVars, HaInv, HaTypes, OneSync, InstallsAreDue, CopiesAreListed, AsideIsListed, InSync
<1>2. CASE \E a \in Asset : EditSource(a) \/ AgentWrites(a)
    BY <1>2, WorldKeeps
<1>3. ASSUME NEW p \in HaProcess, Preview(p) \/ Begin(p) \/ Copy(p) \/ MoveAside(p) \/ Place(p)
      PROVE  HaInv'
    BY <1>3, PreviewKeeps, BeginKeeps, CopyKeeps, MoveAsideKeeps, PlaceKeeps
<1>4. ASSUME NEW p \in HaProcess, WriteManifest(p) \/ HaCrash(p) PROVE HaInv'
    BY <1>4, ManifestKeeps, AbandonKeeps DEF HaCrash
<1>5. ASSUME NEW p \in HaProcess, NEW a \in Asset, Judge(p, a) \/ DeleteOne(p, a) PROVE HaInv'
    BY <1>5, JudgeKeeps, DeleteKeeps
<1> QED
    BY <1>1, <1>2, <1>3, <1>4, <1>5 DEF HaNext

\* What the agent wrote goes only where it was managed, or unseen.
LEMMA AgentCopiesGo ==
    ASSUME HaInv, HaNext, NEW a \in Asset, haDst[a].by = "agent", haDst'[a].by # "agent"
    PROVE  \E p \in HaProcess : \/ a \in haMan[p]
                                \/ a \in haAsset[p] /\ haSeen[p] # haDst[a]
<1>1. haDst[a].v # 0
    BY DEF HaInv, InstallsAreDue
<1>2. ASSUME NEW p \in HaProcess, MoveAside(p) \/ Place(p)
      PROVE  a \in haMan[p] \/ (a \in haAsset[p] /\ haSeen[p] # haDst[a])
    <2>1. a \in haAsset[p]
        BY <1>2 DEF MoveAside, Place, HaInv, HaTypes
    <2> QED
        BY <1>1, <2>1 DEF HaInv, InstallsAreDue
<1>3. ASSUME NEW p \in HaProcess, NEW b \in Asset, DeleteOne(p, b) PROVE a \in haMan[p]
    BY <1>3 DEF DeleteOne, HaInv, HaTypes
<1>4. ASSUME NEW p \in HaProcess
      PROVE  /\ ~Preview(p) /\ ~Begin(p) /\ ~Copy(p) /\ ~WriteManifest(p) /\ ~HaCrash(p)
             /\ \A b \in Asset : ~Judge(p, b)
    BY DEF Preview, Begin, Copy, WriteManifest, HaCrash, Judge, haFiles
<1>5. ASSUME NEW b \in Asset PROVE ~EditSource(b) /\ ~AgentWrites(b)
    BY DEF EditSource, AgentWrites, HaInv, HaTypes
<1> QED
    BY <1>2, <1>3, <1>4, <1>5 DEF HaNext

\* harness_assets.go: the manifest lists what hazmat installed, and what is not in
\* it is left to the agent.
THEOREM AssetsAreManaged == HaSpec => []InstalledIsManaged /\ UnmanagedSurvives
<1>1. HaInv => InstalledIsManaged
    BY DEF HaInv, InstalledIsManaged, CopiesAreListed, InSync
<1>2. HaInv /\ [HaNext]_haVars =>
        [\A a \in Asset :
           (haDst[a].by = "agent" /\ haDst'[a].by # "agent") =>
              \E p \in HaProcess :
                 \/ a \in haMan[p]
                 \/ a \in haAsset[p] /\ haSeen[p] # haDst[a]]_haVars
    BY AgentCopiesGo
<1> QED
    BY <1>1, <1>2, HaInvInit, HaInvNext, PTL DEF HaSpec, UnmanagedSurvives

----------------------------------------------------------------------------
(* HarnessLifecycle.                                                       *)

LcPlaces == {"apply", "install", "directories", "load", "remove", "truncate", "fill"}

\* A command that runs: what it does to which harness, and what it is to write.
CommandOK(c) ==
    \/ c = LcIdle
    \/ /\ c = [op |-> c.op, h |-> c.h, at |-> c.at, plan |-> c.plan, snapshot |-> c.snapshot]
       /\ c.op \in Operations /\ c.h \in LcHarness /\ c.at \in LcPlaces
       /\ c.snapshot \in Snapshots

LcTypes ==
    /\ lcFile \in Snapshots \union {Torn}
    /\ lcHistory \in [LcHarness -> Records]
    /\ DOMAIN lcCommand = LcProcess
    /\ \A p \in LcProcess : CommandOK(lcCommand[p])

\* What the file will say of the harness once the command has written it.
Outcome(c) == [lcHistory EXCEPT ![c.h] = Mutate(c.op, @)]

\* While nothing overlaps, one process writes, it writes what its command should
\* leave, and the file is whole but for that.
InTurn ==
    /\ \A p, q \in LcProcess : Writing(p) /\ Writing(q) => p = q
    /\ (\A p \in LcProcess : lcCommand[p].at # "fill") => lcFile # Torn /\ lcFile.rec = lcHistory
    /\ \A p \in LcProcess : Writing(p) => lcCommand[p].snapshot.rec = Outcome(lcCommand[p])
    /\ \A p \in LcProcess : lcCommand[p].at = "fill" => lcFile = Torn

LcInv == LcTypes /\ (lcClean => InTurn)

LEMMA EmptyIsSnapshot ==
    /\ EmptySnapshot \in Snapshots /\ Torn \notin Snapshots
    /\ \A i \in BOOLEAN : [EmptySnapshot EXCEPT !.init = i] \in Snapshots
    /\ \A i \in BOOLEAN : [EmptySnapshot EXCEPT !.init = i].rec = [h \in LcHarness |-> "none"]
BY DEF EmptySnapshot, Snapshots, Torn, Records

LEMMA SnapshotRecords ==
    ASSUME NEW s \in Snapshots, NEW h \in LcHarness, NEW r \in Records
    PROVE  /\ s.rec \in [LcHarness -> Records]
           /\ [s EXCEPT !.rec[h] = r] \in Snapshots
           /\ [s EXCEPT !.rec[h] = r].rec = [s.rec EXCEPT ![h] = r]
           /\ [s EXCEPT !.init = TRUE] \in Snapshots
           /\ [s EXCEPT !.init = TRUE].rec = s.rec
BY DEF Snapshots

LEMMA MutateRecords ==
    /\ \A op \in Operations, r \in Records : Mutate(op, r) \in Records
    /\ \A r : Mutate("uninstall", r) = "none" /\ Mutate("init", r) = r
BY DEF Mutate, Operations, Records, RecordInstalled, RecordImportRun

LEMMA LcInvInit == LcInit => LcInv
<1> SUFFICES ASSUME LcInit PROVE LcInv
    OBVIOUS
<1>1. lcFile \in Snapshots /\ lcFile.rec = lcHistory
    BY EmptyIsSnapshot DEF LcInit
<1>2. lcHistory \in [LcHarness -> Records]
    BY DEF LcInit, Records
<1>3. \A p \in LcProcess : lcCommand[p] = LcIdle /\ lcCommand[p].at = "idle"
    BY DEF LcInit, LcIdle
<1>4. LcTypes
    BY <1>1, <1>2, <1>3 DEF LcInit, LcTypes, CommandOK
<1>5. InTurn
    BY <1>1, <1>3, EmptyIsSnapshot DEF InTurn, Writing
<1> QED
    BY <1>4, <1>5 DEF LcInv

LEMMA IdleIsIdle == LcIdle.at = "idle"
BY DEF LcIdle

LEMMA RunningCommand ==
    ASSUME LcInv, NEW p \in LcProcess, lcCommand[p].at \in LcPlaces
    PROVE  /\ lcCommand[p] = [op |-> lcCommand[p].op, h |-> lcCommand[p].h,
                              at |-> lcCommand[p].at, plan |-> lcCommand[p].plan,
                              snapshot |-> lcCommand[p].snapshot]
           /\ lcCommand[p].op \in Operations /\ lcCommand[p].h \in LcHarness
           /\ lcCommand[p].snapshot \in Snapshots
BY IdleIsIdle DEF LcInv, LcTypes, CommandOK, LcPlaces

LEMMA CommandsAreOK ==
    ASSUME NEW op \in Operations, NEW h \in LcHarness, NEW at \in LcPlaces, NEW plan,
           NEW s \in Snapshots
    PROVE  CommandOK([op |-> op, h |-> h, at |-> at, plan |-> plan, snapshot |-> s])
BY DEF CommandOK

\* What a process that goes on, returns or begins has become.
LEMMA GotoMeans ==
    ASSUME LcInv, NEW p \in LcProcess, lcCommand[p].at \in LcPlaces, NEW at \in LcPlaces,
           Goto(p, at)
    PROVE  /\ DOMAIN lcCommand' = LcProcess
           /\ \A q \in LcProcess : CommandOK(lcCommand'[q])
           /\ \A q \in LcProcess \ {p} : lcCommand'[q] = lcCommand[q]
           /\ lcCommand'[p] = [lcCommand[p] EXCEPT !.at = at]
           /\ lcCommand'[p].at = at /\ lcCommand'[p].op = lcCommand[p].op
           /\ lcCommand'[p].h = lcCommand[p].h /\ lcCommand'[p].snapshot = lcCommand[p].snapshot
<1>1. /\ DOMAIN lcCommand' = LcProcess
      /\ \A q \in LcProcess \ {p} : lcCommand'[q] = lcCommand[q]
      /\ lcCommand'[p] = [lcCommand[p] EXCEPT !.at = at]
    BY DEF Goto, LcInv, LcTypes
<1>2. lcCommand'[p] = [op |-> lcCommand[p].op, h |-> lcCommand[p].h, at |-> at,
                       plan |-> lcCommand[p].plan, snapshot |-> lcCommand[p].snapshot]
    BY <1>1, RunningCommand
<1>3. CommandOK(lcCommand'[p])
    BY <1>2, RunningCommand, CommandsAreOK, ZenonT(40)
<1>4. \A q \in LcProcess : CommandOK(lcCommand'[q])
    BY <1>1, <1>3 DEF LcInv, LcTypes
<1> QED
    BY <1>1, <1>2, <1>4

LEMMA ReturnMeans ==
    ASSUME LcInv, NEW p \in LcProcess, LcReturn(p)
    PROVE  /\ DOMAIN lcCommand' = LcProcess
           /\ \A q \in LcProcess : CommandOK(lcCommand'[q])
           /\ \A q \in LcProcess \ {p} : lcCommand'[q] = lcCommand[q]
           /\ lcCommand'[p].at = "idle"
BY IdleIsIdle DEF LcReturn, LcInv, LcTypes, CommandOK

\* A process that neither writes nor comes to write disturbs nobody, as long as it
\* leaves the file and the history alone.
LEMMA AsideKeeps ==
    ASSUME LcInv, NEW p \in LcProcess, UNCHANGED <<lcFile, lcHistory>>,
           lcCommand[p].at # "fill" \/ ~lcClean', lcClean' => lcClean,
           DOMAIN lcCommand' = LcProcess,
           \A q \in LcProcess : CommandOK(lcCommand'[q]),
           \A q \in LcProcess \ {p} : lcCommand'[q] = lcCommand[q],
           lcCommand'[p].at \notin {"truncate", "fill"}
    PROVE  LcInv'
<1>1. LcTypes'
    BY DEF LcInv, LcTypes
<1>2. ASSUME lcClean' PROVE InTurn'
    <2>1. InTurn /\ lcCommand[p].at # "fill"
        BY <1>2 DEF LcInv
    <2>2. \A q \in LcProcess : Writing(q)' => q # p /\ Writing(q) /\ lcCommand'[q] = lcCommand[q]
        BY DEF Writing
    <2>3. (\A q \in LcProcess : lcCommand'[q].at # "fill") =>
            \A q \in LcProcess : lcCommand[q].at # "fill"
        BY <2>1
    <2> QED
        BY <2>1, <2>2, <2>3 DEF InTurn, Outcome
<1> QED
    BY <1>1, <1>2 DEF LcInv

LEMMA LifecycleBeginKeeps ==
    ASSUME LcInv, NEW p \in LcProcess, NEW op \in Operations, NEW h \in LcHarness,
           NEW at \in LcPlaces \ {"truncate", "fill"}, NEW plan, LcBegin(p, op, h, at, plan)
    PROVE  LcInv'
<1> DEFINE c == [op |-> op, h |-> h, at |-> at, plan |-> plan, snapshot |-> EmptySnapshot]
<1>1. /\ UNCHANGED <<lcFile, lcHistory, lcClean>> /\ lcCommand[p].at = "idle"
      /\ DOMAIN lcCommand' = LcProcess /\ lcCommand'[p] = c
      /\ \A q \in LcProcess \ {p} : lcCommand'[q] = lcCommand[q]
    BY IdleIsIdle DEF LcBegin, LcInv, LcTypes
<1>2. CommandOK(c)
    BY EmptyIsSnapshot DEF CommandOK
<1>3. \A q \in LcProcess : CommandOK(lcCommand'[q])
    BY <1>1, <1>2 DEF LcInv, LcTypes
<1> QED
    BY <1>1, <1>3, AsideKeeps

\* A process that has read the file while nobody writes takes its turn.
LEMMA TurnKeeps ==
    ASSUME LcInv, NEW p \in LcProcess, UNCHANGED <<lcFile, lcHistory>>,
           lcCommand[p].at = "load", NEW s \in Snapshots,
           lcCommand' = [lcCommand EXCEPT ![p].at = "truncate", ![p].snapshot = s],
           lcClean' => lcClean /\ ~Overlaps(p) /\ s.rec = Outcome(lcCommand[p])
    PROVE  LcInv'
<1>1. /\ DOMAIN lcCommand' = LcProcess
      /\ \A q \in LcProcess \ {p} : lcCommand'[q] = lcCommand[q]
      /\ lcCommand'[p] = [op |-> lcCommand[p].op, h |-> lcCommand[p].h, at |-> "truncate",
                          plan |-> lcCommand[p].plan, snapshot |-> s]
    <2>1. /\ DOMAIN lcCommand' = LcProcess
          /\ \A q \in LcProcess \ {p} : lcCommand'[q] = lcCommand[q]
          /\ lcCommand'[p] = [[lcCommand[p] EXCEPT !.at = "truncate"] EXCEPT !.snapshot = s]
        BY DEF LcInv, LcTypes
    <2>2. lcCommand[p] = [op |-> lcCommand[p].op, h |-> lcCommand[p].h, at |-> lcCommand[p].at,
                          plan |-> lcCommand[p].plan, snapshot |-> lcCommand[p].snapshot]
        BY RunningCommand DEF LcPlaces
    <2> QED
        BY <2>1, <2>2
<1>2. \A q \in LcProcess : CommandOK(lcCommand'[q])
    <2>1. CommandOK(lcCommand'[p])
        BY <1>1, RunningCommand, CommandsAreOK DEF LcPlaces
    <2> QED
        BY <1>1, <2>1 DEF LcInv, LcTypes
<1>3. LcTypes'
    BY <1>1, <1>2 DEF LcInv, LcTypes
<1>4. ASSUME lcClean' PROVE InTurn'
    <2>1. InTurn /\ s.rec = Outcome(lcCommand[p]) /\ \A q \in LcProcess \ {p} : ~Writing(q)
        BY <1>4 DEF LcInv, Overlaps
    <2>2. ~Writing(p)
        BY DEF Writing
    <2>3. lcFile # Torn /\ lcFile.rec = lcHistory
        BY <2>1, <2>2 DEF InTurn, Writing
    <2>4. \A q \in LcProcess : Writing(q)' => q = p
        BY <1>1, <2>1 DEF Writing
    <2>5. lcCommand'[p].snapshot = s /\ Outcome(lcCommand[p])' = Outcome(lcCommand[p])'
        BY <1>1
    <2>6. lcCommand'[p].h = lcCommand[p].h /\ lcCommand'[p].op = lcCommand[p].op
        BY <1>1
    <2>7. lcCommand'[p].snapshot.rec = [lcHistory' EXCEPT ![lcCommand'[p].h] = Mutate(lcCommand'[p].op, @)]
        BY <2>1, <2>5, <2>6 DEF Outcome
    <2>8. \A q \in LcProcess : lcCommand'[q].at # "fill"
        BY <1>1, <2>4 DEF Writing
    <2> QED
        BY <2>3, <2>4, <2>7, <2>8 DEF InTurn, Outcome
<1> QED
    BY <1>3, <1>4 DEF LcInv

LEMMA UpdateKeeps == ASSUME LcInv, NEW p \in LcProcess, UpdateHarnessState(p) PROVE LcInv'
<1> DEFINE c == lcCommand[p]
           s == [lcFile EXCEPT !.rec[c.h] = Mutate(c.op, @)]
<1>1. c.at = "load" /\ c.op \in Operations /\ c.h \in LcHarness
      /\ UNCHANGED <<lcFile, lcHistory>>
    BY RunningCommand DEF UpdateHarnessState, LcPlaces
<1>2. CASE lcFile = Torn
    <2>1. LcReturn(p) /\ UNCHANGED lcClean
        BY <1>2 DEF UpdateHarnessState
    <2> QED
        BY <1>1, <2>1, ReturnMeans, AsideKeeps
<1>3. CASE lcFile # Torn
    <2>1. /\ lcCommand' = [lcCommand EXCEPT ![p].at = "truncate", ![p].snapshot = s]
          /\ lcClean' => lcClean /\ ~Overlaps(p)
        BY <1>3 DEF UpdateHarnessState
    <2>2. lcFile \in Snapshots
        BY <1>3 DEF LcInv, LcTypes
    <2>3. /\ s \in Snapshots
          /\ s.rec = [lcFile.rec EXCEPT ![c.h] = Mutate(c.op, lcFile.rec[c.h])]
        <3> DEFINE r == Mutate(c.op, lcFile.rec[c.h])
        <3>1. lcFile.rec[c.h] \in Records
            BY <1>1, <2>2 DEF Snapshots
        <3>2. r \in Records
            BY <1>1, <3>1, MutateRecords
        <3>3. s = [lcFile EXCEPT !.rec[c.h] = r]
            OBVIOUS
        <3> HIDE DEF r, s
        <3>4. s \in Snapshots /\ s.rec = [lcFile.rec EXCEPT ![c.h] = r]
            <4>1. PICK h \in LcHarness : h = c.h
                BY <1>1
            <4>2. s = [lcFile EXCEPT !.rec[h] = r]
                BY <3>3, <4>1
            <4>3. s \in Snapshots /\ s.rec = [lcFile.rec EXCEPT ![h] = r]
                BY <2>2, <3>2, <4>2 DEF Snapshots
            <4> QED
                BY <4>1, <4>3
        <3> QED
            BY <3>4 DEF r
    <2>4. lcClean' => s.rec = Outcome(c)
        <3> SUFFICES ASSUME lcClean' PROVE s.rec = Outcome(c)
            OBVIOUS
        <3>1. InTurn /\ ~Overlaps(p)
            BY <2>1 DEF LcInv
        <3>2. lcFile.rec = lcHistory
            BY <1>1, <3>1 DEF InTurn, Overlaps, Writing
        <3> QED
            BY <2>3, <3>2 DEF Outcome
    <2> HIDE DEF s
    <2> QED
        BY <1>1, <2>1, <2>3, <2>4, TurnKeeps
<1> QED
    BY <1>2, <1>3

LEMMA RemoveKeeps == ASSUME LcInv, NEW p \in LcProcess, RemoveHarnessState(p) PROVE LcInv'
<1> DEFINE c == lcCommand[p]
           s == [lcFile EXCEPT !.rec[c.h] = "none"]
<1>1. c.at = "load" /\ c.op = "uninstall" /\ c.h \in LcHarness
    BY RunningCommand DEF RemoveHarnessState, LcPlaces
<1>2. CASE lcFile = Torn \/ lcFile.rec[c.h] = "none"
    <2>1. LcReturn(p) /\ UNCHANGED <<lcFile, lcHistory, lcClean>>
        BY <1>2 DEF RemoveHarnessState
    <2> QED
        BY <1>1, <2>1, ReturnMeans, AsideKeeps
<1>3. CASE ~(lcFile = Torn \/ lcFile.rec[c.h] = "none")
    <2>1. lcClean' => lcClean /\ ~Overlaps(p)
        BY <1>3 DEF RemoveHarnessState
    <2>2. lcFile \in Snapshots
        BY <1>3 DEF LcInv, LcTypes
    <2>3. s \in Snapshots /\ s.rec = [lcFile.rec EXCEPT ![c.h] = "none"]
        BY <1>1, <2>2, SnapshotRecords DEF Records
    <2>4. lcClean' => lcFile.rec = lcHistory
        <3> SUFFICES ASSUME lcClean' PROVE lcFile.rec = lcHistory
            OBVIOUS
        <3> QED
            BY <1>1, <2>1 DEF LcInv, InTurn, Overlaps, Writing
    <2>5. CASE Emptied(s)
        <3>1. /\ lcFile' = EmptySnapshot /\ LcReturn(p)
              /\ lcHistory' = [lcHistory EXCEPT ![c.h] = "none"]
            BY <1>3, <2>5 DEF RemoveHarnessState
        <3>2. lcHistory' \in [LcHarness -> Records]
            BY <3>1 DEF LcInv, LcTypes, Records
        <3>3. LcTypes'
            BY <3>1, <3>2, EmptyIsSnapshot, ReturnMeans DEF LcTypes
        <3>4. ASSUME lcClean' PROVE InTurn'
            <4>1. \A h \in LcHarness : s.rec[h] = "none"
                BY <2>5 DEF Emptied
            <4>2. lcHistory' = s.rec
                BY <2>3, <2>4, <3>1, <3>4
            <4>3. lcHistory' = [h \in LcHarness |-> "none"]
                BY <3>2, <4>1, <4>2
            <4>4. lcFile' # Torn /\ lcFile'.rec = lcHistory'
                BY <3>1, <4>3, EmptyIsSnapshot DEF EmptySnapshot
            <4>5. \A q \in LcProcess : ~Writing(q)'
                BY <2>1, <3>1, <3>4, ReturnMeans DEF Overlaps, Writing
            <4> QED
                BY <4>4, <4>5 DEF InTurn, Writing
        <3> QED
            BY <3>3, <3>4 DEF LcInv
    <2>6. CASE ~Emptied(s)
        <3>1. /\ lcCommand' = [lcCommand EXCEPT ![p].at = "truncate", ![p].snapshot = s]
              /\ UNCHANGED <<lcFile, lcHistory>>
            BY <1>3, <2>6 DEF RemoveHarnessState
        <3>2. lcClean' => s.rec = Outcome(c)
            BY <1>1, <2>3, <2>4, MutateRecords DEF Outcome
        <3> HIDE DEF s
        <3> QED
            BY <1>1, <2>1, <2>3, <3>1, <3>2, TurnKeeps
    <2> QED
        BY <2>5, <2>6
<1> QED
    BY <1>2, <1>3

LEMMA VersionKeeps == ASSUME LcInv, NEW p \in LcProcess, LcSaveVersion(p) PROVE LcInv'
<1> DEFINE c == lcCommand[p]
<1>1. /\ c.at = "load" /\ c.op = "init" /\ c.h \in LcHarness
      /\ lcCommand' = [lcCommand EXCEPT ![p].at = "truncate", ![p].snapshot = VersionSnapshot]
      /\ lcClean' => lcClean /\ ~Overlaps(p) /\ lcFile # Torn
      /\ UNCHANGED <<lcFile, lcHistory>>
    BY RunningCommand DEF LcSaveVersion, LcPlaces
<1>2. VersionSnapshot \in Snapshots
    <2>1. ASSUME NEW s \in Snapshots PROVE [s EXCEPT !.init = TRUE] \in Snapshots
        BY DEF Snapshots
    <2> QED
        BY <2>1, EmptyIsSnapshot DEF VersionSnapshot, LcInv, LcTypes
<1>3. lcClean' => VersionSnapshot.rec = Outcome(c)
    <2> SUFFICES ASSUME lcClean' PROVE VersionSnapshot.rec = Outcome(c)
        OBVIOUS
    <2>1. lcFile \in Snapshots /\ lcFile.rec = lcHistory
        BY <1>1 DEF LcInv, LcTypes, InTurn, Overlaps, Writing
    <2>2. VersionSnapshot.rec = lcHistory
        BY <1>1, <2>1 DEF VersionSnapshot, Snapshots
    <2>3. Outcome(c) = lcHistory
        BY <1>1, MutateRecords DEF Outcome, LcInv, LcTypes
    <2> QED
        BY <2>2, <2>3
<1> QED
    BY <1>1, <1>2, <1>3, TurnKeeps

LEMMA TruncateKeeps == ASSUME LcInv, NEW p \in LcProcess, LcTruncate(p) PROVE LcInv'
<1>1. /\ lcCommand[p].at = "truncate" /\ lcFile' = Torn /\ Goto(p, "fill")
      /\ UNCHANGED <<lcHistory, lcClean>>
    BY DEF LcTruncate
<1>2. /\ DOMAIN lcCommand' = LcProcess
      /\ \A q \in LcProcess : CommandOK(lcCommand'[q])
      /\ \A q \in LcProcess \ {p} : lcCommand'[q] = lcCommand[q]
      /\ lcCommand'[p].at = "fill" /\ lcCommand'[p].op = lcCommand[p].op
      /\ lcCommand'[p].h = lcCommand[p].h /\ lcCommand'[p].snapshot = lcCommand[p].snapshot
    BY <1>1, GotoMeans DEF LcPlaces
<1>3. LcTypes'
    BY <1>1, <1>2 DEF LcInv, LcTypes
<1>4. ASSUME lcClean' PROVE InTurn'
    <2>1. InTurn
        BY <1>1, <1>4 DEF LcInv
    <2>2. \A q \in LcProcess : Writing(q)' <=> Writing(q)
        BY <1>1, <1>2 DEF Writing
    <2>3. \A q \in LcProcess : lcCommand'[q].snapshot.rec = lcCommand[q].snapshot.rec
                               /\ Outcome(lcCommand[q])' = Outcome(lcCommand[q])
        BY <1>1, <1>2 DEF Outcome
    <2> QED
        BY <1>1, <1>2, <2>1, <2>2, <2>3 DEF InTurn
<1> QED
    BY <1>3, <1>4 DEF LcInv

LEMMA FillKeeps == ASSUME LcInv, NEW p \in LcProcess, Fill(p) PROVE LcInv'
<1> DEFINE c == lcCommand[p]
<1>1. /\ c.at = "fill" /\ lcHistory' = Outcome(c) /\ LcReturn(p) /\ UNCHANGED lcClean
      /\ lcFile' \in {c.snapshot, Torn, EmptySnapshot}
      /\ lcFile = Torn => lcFile' = c.snapshot
    BY EmptyIsSnapshot DEF Fill, Outcome
<1>2. c.op \in Operations /\ c.h \in LcHarness /\ c.snapshot \in Snapshots
    BY <1>1, RunningCommand DEF LcPlaces
<1>3. lcHistory' \in [LcHarness -> Records]
    BY <1>1, <1>2, MutateRecords DEF Outcome, LcInv, LcTypes
<1>4. LcTypes'
    <2>1. lcFile' \in Snapshots \union {Torn}
        BY <1>1, <1>2, EmptyIsSnapshot
    <2> QED
        BY <1>1, <1>3, <2>1, ReturnMeans DEF LcTypes
<1>5. ASSUME lcClean' PROVE InTurn'
    <2>1. Writing(p) /\ InTurn
        BY <1>1, <1>5 DEF LcInv, Writing
    <2>2. \A q \in LcProcess : ~Writing(q)'
        BY <1>1, <2>1, ReturnMeans DEF InTurn, Writing
    <2>3. lcFile' = c.snapshot
        BY <1>1, <2>1 DEF InTurn
    <2>4. lcFile' # Torn /\ lcFile'.rec = lcHistory'
        BY <1>1, <1>2, <2>1, <2>3, EmptyIsSnapshot DEF InTurn
    <2> QED
        BY <2>2, <2>4 DEF InTurn, Writing
<1> QED
    BY <1>4, <1>5 DEF LcInv

\* The steps in the agent's home, and the questions before them.
LEMMA HomeStepsKeep ==
    ASSUME LcInv, NEW p \in LcProcess,
           \/ ApplyLaunchUpdate(p) \/ RunInstallOrUpdateStep(p) \/ ResolveFails(p)
           \/ InstallFails(p) \/ VerifyManualBinary(p) \/ PrepareDirectories(p)
           \/ ExecuteUninstallPlan(p) \/ UninstallStops(p)
    PROVE  LcInv'
<1>1. /\ UNCHANGED <<lcFile, lcHistory, lcClean>>
      /\ lcCommand[p].at \in {"apply", "install", "directories", "remove"}
      /\ \/ LcReturn(p)
         \/ \E at \in {"install", "directories", "load"} : Goto(p, at)
    BY DEF ApplyLaunchUpdate, RunInstallOrUpdateStep, ResolveFails, InstallFails,
           VerifyManualBinary, PrepareDirectories, ExecuteUninstallPlan, UninstallStops
<1>2. CASE LcReturn(p)
    BY <1>1, <1>2, ReturnMeans, AsideKeeps
<1>3. ASSUME NEW at \in {"install", "directories", "load"}, Goto(p, at) PROVE LcInv'
    <2>1. lcCommand[p].at \in LcPlaces /\ at \in LcPlaces
        BY <1>1 DEF LcPlaces
    <2> QED
        BY <1>1, <1>3, <2>1, GotoMeans, AsideKeeps
<1> QED
    BY <1>1, <1>2, <1>3

LEMMA CrashKeeps == ASSUME LcInv, NEW p \in LcProcess, LcCrash(p) PROVE LcInv'
<1>1. /\ LcReturn(p) /\ UNCHANGED <<lcFile, lcHistory>>
      /\ lcClean' => lcClean /\ lcCommand[p].at # "fill"
    BY DEF LcCrash
<1> QED
    BY <1>1, ReturnMeans, AsideKeeps

LEMMA RollbackKeeps == LcInv /\ RollbackState => LcInv'
<1> SUFFICES ASSUME LcInv, RollbackState PROVE LcInv'
    OBVIOUS
<1>1. /\ \A p \in LcProcess : lcCommand[p].at = "idle"
      /\ lcFile' = IF lcFile = Torn THEN Torn ELSE EmptySnapshot
      /\ lcHistory' = [h \in LcHarness |-> "none"] /\ UNCHANGED <<lcCommand, lcClean>>
    BY IdleIsIdle DEF RollbackState
<1>2. lcHistory' \in [LcHarness -> Records]
    BY <1>1 DEF Records
<1>3. LcTypes'
    BY <1>1, <1>2, EmptyIsSnapshot DEF LcInv, LcTypes
<1>4. ASSUME lcClean' PROVE InTurn'
    <2>1. lcFile # Torn
        BY <1>1, <1>4 DEF LcInv, InTurn
    <2>2. lcFile' # Torn /\ lcFile'.rec = lcHistory'
        BY <1>1, <2>1, EmptyIsSnapshot DEF EmptySnapshot
    <2> QED
        BY <1>1, <2>2 DEF InTurn, Writing
<1> QED
    BY <1>3, <1>4 DEF LcInv

LEMMA LcInvNext == LcInv /\ [LcNext]_lcVars => LcInv'
<1> SUFFICES ASSUME LcInv, [LcNext]_lcVars PROVE LcInv'
    OBVIOUS
<1>1. CASE UNCHANGED lcVars \/ \E h \in LcHarness : AgentChanges(h)
    <2>1. UNCHANGED <<lcFile, lcCommand, lcHistory, lcClean>>
        BY <1>1 DEF lcVars, AgentChanges
    <2> QED
        BY <2>1 DEF LcInv, LcTypes, InTurn, Writing, Outcome
<1>2. ASSUME NEW p \in LcProcess, NEW h \in LcHarness,
             \/ runManagedHarnessUpdate(p, h) \/ PlanLaunchUpdate(p, h) \/ RunImport(p, h)
             \/ RunSaveVersion(p, h) \/ PlanUninstall(p, h)
      PROVE  LcInv'
    <2>1. PICK op \in Operations, at \in LcPlaces \ {"truncate", "fill"} : \E plan :
            LcBegin(p, op, h, at, plan)
        BY <1>2 DEF runManagedHarnessUpdate, PlanLaunchUpdate, RunImport, RunSaveVersion,
                    PlanUninstall, Operations, LcPlaces
    <2> QED
        BY <2>1, LifecycleBeginKeeps
<1>3. ASSUME NEW p \in LcProcess,
             \/ ApplyLaunchUpdate(p) \/ RunInstallOrUpdateStep(p) \/ ResolveFails(p)
             \/ InstallFails(p) \/ VerifyManualBinary(p) \/ PrepareDirectories(p)
             \/ ExecuteUninstallPlan(p) \/ UninstallStops(p)
      PROVE  LcInv'
    BY <1>3, HomeStepsKeep
<1>4. ASSUME NEW p \in LcProcess,
             \/ UpdateHarnessState(p) \/ RemoveHarnessState(p) \/ LcSaveVersion(p)
             \/ LcTruncate(p) \/ Fill(p) \/ LcCrash(p)
      PROVE  LcInv'
    BY <1>4, UpdateKeeps, RemoveKeeps, VersionKeeps, TruncateKeeps, FillKeeps, CrashKeeps
<1>5. CASE RollbackState
    BY <1>5, RollbackKeeps
<1> QED
    BY <1>1, <1>2, <1>3, <1>4, <1>5 DEF LcNext

\* harness_lifecycle.go and internal/harnessruntime/state.go: as long as its commands
\* take their turns, state.json says what they did.
THEOREM RecordsAreTrue == LcSpec => []RecordsMatchHistory
<1>1. LcInv => RecordsMatchHistory
    <2> SUFFICES ASSUME LcInv, lcClean, \A p \in LcProcess : lcCommand[p].at # "fill"
                 PROVE  /\ lcFile # Torn
                        /\ lcFile.rec = lcHistory
                        /\ \A h \in LcHarness :
                             (classifyHarnessLifecycleStatus(h) = "recorded, binary missing")
                               <=> (lcHistory[h] # "none" /\ ~managedHarnessInstalledForLaunch(h))
        BY DEF RecordsMatchHistory
    <2>1. lcFile # Torn /\ lcFile.rec = lcHistory
        BY DEF LcInv, InTurn
    <2> QED
        BY <2>1 DEF classifyHarnessLifecycleStatus
<1> QED
    BY <1>1, LcInvInit, LcInvNext, PTL DEF LcSpec

----------------------------------------------------------------------------
(* Configuration.                                                          *)

ProfileEntry == HostArg \union {NoProfile}

\* A configuration, whatever its other settings.
CfgShape(c) ==
    /\ c = [profiles |-> c.profiles, keys |-> c.keys, exposed |-> c.exposed, legacy |-> c.legacy]
    /\ c.profiles \in [ProfileName -> ProfileEntry]
    /\ c.keys \in [KeyName -> KeyEntry]

\* One that a command may hold or save: it has its shape and loads.
Good(c) == CfgShape(c) /\ Loads(c)

CfgSteps == {"idle", "migrate", "change", "truncate", "write",
             "truncateMigrated", "writeMigrated", "removeSecret"}

\* What one command saved loads, and so does what the commands would write to it.
ConfigsLoad ==
    /\ CfgShape(cfgFile) /\ (cfgText = "saved" => Loads(cfgFile))
    /\ \A c \in Command : Good(cmdCopy[c])

\* While the cloud keys are in the file alone, the file says so and nobody is about
\* to write it; and who removes the secret key's file has stored the key.
KeysAreSomewhere ==
    /\ cloudAt \subseteq {"config", "store"} /\ secretAt \subseteq {"file", "store"}
    /\ cloudAt = {"config"} =>
         cfgFile.legacy /\ \A c \in Command : cmdStep[c] \in {"idle", "migrate", "removeSecret"}
    /\ \A c \in Command : cmdStep[c] = "removeSecret" => "store" \in secretAt

\* No two keys of the session name overlapping hosts.
KeysAreApart ==
    /\ \A k \in sessKeys : k.hosts \in HostArg
    /\ \A j, k \in sessKeys : j # k => ~firstHostOverlap(j.hosts, k.hosts)

CfgInv ==
    /\ DOMAIN cmdStep = Command /\ DOMAIN cmdCopy = Command
    /\ ConfigsLoad /\ KeysAreSomewhere /\ KeysAreApart /\ NamedHostGetsItsKey

----------------------------------------------------------------------------
(* What the commands make of a configuration that loads, loads.            *)

\* The keys of b are those of a, or fewer, for the same hosts, and the profiles
\* they name are defined.
Narrows(a, b) ==
    \A k \in UsedKeys(b) :
        /\ k \in UsedKeys(a)
        /\ b.keys[k].hosts = a.keys[k].hosts
        /\ b.keys[k].from = "inline" <=> a.keys[k].from = "inline"
        /\ effectiveKeyHosts(b, k) = effectiveKeyHosts(a, k)
        /\ b.keys[k].from \in ProfileName => b.profiles[b.keys[k].from] # NoProfile

LEMMA NarrowerLoads == ASSUME NEW a, NEW b, Loads(a), Narrows(a, b) PROVE Loads(b)
<1>1. ValidateProjectSSHConfig(b)
    BY DEF Loads, Narrows, ValidateProjectSSHConfig
<1>2. ValidateProjectSSHProfileRefs(b)
    BY DEF Loads, Narrows, ValidateProjectSSHProfileRefs
<1> QED
    BY <1>1, <1>2 DEF Loads

LEMMA KeyEntries ==
    /\ NoKey \in KeyEntry /\ NoKey.from = "none" /\ "inline" \notin ProfileName
    /\ \A s \in Source, h \in HostArg : [from |-> s, hosts |-> h] \in KeyEntry
    /\ \A e \in KeyEntry : e # NoKey => e.from \in Source /\ e.hosts \in HostArg
                                        /\ e = [from |-> e.from, hosts |-> e.hosts]
    /\ \A e \in KeyEntry : e.from \in ProfileName => e # NoKey
    /\ NoProfile \notin HostArg
BY DEF KeyEntry, NoKey, Source, ProfileName, NoProfile, HostArg, Pattern

\* What a key's profile is matters only while the key names it and no hosts.
LEMMA SameHosts ==
    ASSUME NEW a, NEW b, NEW k, b.keys[k] = a.keys[k],
           b.keys[k].from \in ProfileName => b.profiles[b.keys[k].from] = a.profiles[a.keys[k].from],
           b.keys[k].from \in Source
    PROVE  effectiveKeyHosts(b, k) = effectiveKeyHosts(a, k)
BY DEF effectiveKeyHosts, Source

LEMMA UsedKeyHas ==
    ASSUME NEW c, CfgShape(c), Loads(c), NEW k \in UsedKeys(c)
    PROVE  /\ k \in KeyName /\ c.keys[k] \in KeyEntry /\ c.keys[k].from \in Source
           /\ c.keys[k].from \in ProfileName =>
                /\ c.profiles[c.keys[k].from] \in HostArg
                /\ c.profiles[c.keys[k].from] # NoProfile
<1>1. k \in KeyName /\ c.keys[k] \in KeyEntry /\ c.keys[k] # NoKey
    BY DEF CfgShape, UsedKeys
<1>2. c.keys[k].from \in ProfileName => c.profiles[c.keys[k].from] # NoProfile
    BY DEF Loads, ValidateProjectSSHProfileRefs
<1>3. c.keys[k].from \in ProfileName => c.profiles[c.keys[k].from] \in ProfileEntry
    BY DEF CfgShape
<1> QED
    BY <1>1, <1>2, <1>3, KeyEntries DEF ProfileEntry

LEMMA AddGood ==
    ASSUME NEW c, Good(c), NEW r \in runConfigSSHAdd(c) PROVE Good(r)
<1>1. PICK k \in KeyName, s \in Source, h \in HostArg :
        r = [c EXCEPT !.keys[k] = [from |-> s, hosts |-> h]]
    BY DEF runConfigSSHAdd
<1>2. Loads(r)
    BY DEF runConfigSSHAdd, Loads
<1>3. r = [profiles |-> c.profiles, keys |-> [c.keys EXCEPT ![k] = [from |-> s, hosts |-> h]],
           exposed |-> c.exposed, legacy |-> c.legacy]
    BY <1>1 DEF Good, CfgShape
<1>4. [c.keys EXCEPT ![k] = [from |-> s, hosts |-> h]] \in [KeyName -> KeyEntry]
    BY KeyEntries DEF Good, CfgShape
<1> QED
    BY <1>2, <1>3, <1>4 DEF Good, CfgShape

\* The keys are changed alone, some of them away.
LEMMA FewerKeysGood ==
    ASSUME NEW c, Good(c), NEW keys \in [KeyName -> KeyEntry],
           \A k \in KeyName : keys[k] \in {NoKey, c.keys[k]},
           NEW r, r = [c EXCEPT !.keys = keys]
    PROVE  Good(r)
<1>1. r = [profiles |-> c.profiles, keys |-> keys, exposed |-> c.exposed, legacy |-> c.legacy]
    BY DEF Good, CfgShape
<1>2. CfgShape(r)
    BY <1>1 DEF Good, CfgShape
<1>3. Narrows(c, r)
    <2> SUFFICES ASSUME NEW k \in UsedKeys(r)
                 PROVE  /\ k \in UsedKeys(c) /\ r.keys[k] = c.keys[k]
                        /\ effectiveKeyHosts(r, k) = effectiveKeyHosts(c, k)
                        /\ r.keys[k].from \in ProfileName => r.profiles[r.keys[k].from] # NoProfile
        BY DEF Narrows
    <2>1. k \in UsedKeys(c) /\ r.keys[k] = c.keys[k] /\ r.profiles = c.profiles
        BY <1>1 DEF UsedKeys
    <2>2. c.keys[k].from \in Source
          /\ (c.keys[k].from \in ProfileName => c.profiles[c.keys[k].from] # NoProfile)
        BY <2>1, UsedKeyHas DEF Good
    <2>3. effectiveKeyHosts(r, k) = effectiveKeyHosts(c, k)
        BY <2>1 DEF effectiveKeyHosts
    <2> QED
        BY <2>1, <2>2, <2>3
<1> QED
    BY <1>2, <1>3, NarrowerLoads DEF Good

LEMMA RemoveGood ==
    ASSUME NEW c, Good(c), NEW r \in runConfigSSHRemove(c) \union runConfigSSHUnset(c)
    PROVE  Good(r)
<1>1. CASE r \in runConfigSSHRemove(c)
    <2>1. PICK k \in UsedKeys(c) : r = [c EXCEPT !.keys[k] = NoKey]
        BY <1>1 DEF runConfigSSHRemove
    <2> DEFINE keys == [c.keys EXCEPT ![k] = NoKey]
    <2>2. r = [c EXCEPT !.keys = keys]
        BY <2>1 DEF Good, CfgShape
    <2>3. keys \in [KeyName -> KeyEntry] /\ \A j \in KeyName : keys[j] \in {NoKey, c.keys[j]}
        BY KeyEntries DEF Good, CfgShape, UsedKeys
    <2> QED
        BY <2>2, <2>3, FewerKeysGood
<1>2. CASE r \in runConfigSSHUnset(c)
    <2> DEFINE keys == [k \in KeyName |-> NoKey]
    <2>1. r = [c EXCEPT !.keys = keys]
        BY <1>2 DEF runConfigSSHUnset
    <2>2. keys \in [KeyName -> KeyEntry] /\ \A j \in KeyName : keys[j] \in {NoKey, c.keys[j]}
        BY KeyEntries
    <2> QED
        BY <2>1, <2>2, FewerKeysGood
<1> QED
    BY <1>1, <1>2

LEMMA ProfileAddGood ==
    ASSUME NEW c, Good(c), NEW r \in runConfigSSHProfileAdd(c) PROVE Good(r)
<1>1. PICK n \in ProfileName, h \in HostArg :
        c.profiles[n] = NoProfile /\ r = [c EXCEPT !.profiles[n] = h]
    BY DEF runConfigSSHProfileAdd
<1>2. r = [profiles |-> [c.profiles EXCEPT ![n] = h], keys |-> c.keys, exposed |-> c.exposed,
           legacy |-> c.legacy]
    BY <1>1 DEF Good, CfgShape
<1>3. /\ [c.profiles EXCEPT ![n] = h] \in [ProfileName -> ProfileEntry]
      /\ \A m \in ProfileName \ {n} : r.profiles[m] = c.profiles[m]
    BY <1>2 DEF Good, CfgShape, ProfileEntry
<1>4. CfgShape(r)
    BY <1>2, <1>3 DEF Good, CfgShape
<1>5. Narrows(c, r)
    <2> SUFFICES ASSUME NEW k \in UsedKeys(r)
                 PROVE  /\ k \in UsedKeys(c) /\ r.keys[k] = c.keys[k]
                        /\ effectiveKeyHosts(r, k) = effectiveKeyHosts(c, k)
                        /\ r.keys[k].from \in ProfileName => r.profiles[r.keys[k].from] # NoProfile
        BY DEF Narrows
    <2>1. k \in UsedKeys(c) /\ r.keys[k] = c.keys[k]
        BY <1>2 DEF UsedKeys
    <2>2. c.keys[k].from \in Source
          /\ (c.keys[k].from \in ProfileName => c.profiles[c.keys[k].from] # NoProfile)
        BY <2>1, UsedKeyHas DEF Good
    <2>3. c.keys[k].from \in ProfileName => r.profiles[c.keys[k].from] = c.profiles[c.keys[k].from]
        BY <1>1, <1>3, <2>2
    <2> QED
        BY <2>1, <2>2, <2>3, SameHosts
<1> QED
    BY <1>4, <1>5, NarrowerLoads DEF Good

LEMMA ProfileRemoveGood ==
    ASSUME NEW c, Good(c), NEW r \in runConfigSSHProfileRemove(c) PROVE Good(r)
<1>1. PICK n \in ProfileName :
        r = [c EXCEPT !.profiles[n] = NoProfile,
                      !.keys = [k \in KeyName |->
                         IF k \in findProfileReferrers(c, n) THEN NoKey ELSE @[k]]]
    BY DEF runConfigSSHProfileRemove
<1> DEFINE keys == [k \in KeyName |-> IF k \in findProfileReferrers(c, n) THEN NoKey ELSE c.keys[k]]
<1>2. r = [profiles |-> [c.profiles EXCEPT ![n] = NoProfile], keys |-> keys,
           exposed |-> c.exposed, legacy |-> c.legacy]
    BY <1>1 DEF Good, CfgShape
<1>3. /\ [c.profiles EXCEPT ![n] = NoProfile] \in [ProfileName -> ProfileEntry]
      /\ \A m \in ProfileName \ {n} : r.profiles[m] = c.profiles[m]
    BY <1>2 DEF Good, CfgShape, ProfileEntry
<1>4. keys \in [KeyName -> KeyEntry]
    BY KeyEntries DEF Good, CfgShape
<1>5. CfgShape(r)
    BY <1>2, <1>3, <1>4 DEF Good, CfgShape
<1>6. Narrows(c, r)
    <2> SUFFICES ASSUME NEW k \in UsedKeys(r)
                 PROVE  /\ k \in UsedKeys(c) /\ r.keys[k] = c.keys[k]
                        /\ effectiveKeyHosts(r, k) = effectiveKeyHosts(c, k)
                        /\ r.keys[k].from \in ProfileName => r.profiles[r.keys[k].from] # NoProfile
        BY DEF Narrows
    <2>1. k \in UsedKeys(c) /\ r.keys[k] = c.keys[k] /\ c.keys[k].from # n
        BY <1>2 DEF UsedKeys, findProfileReferrers
    <2>2. c.keys[k].from \in Source
          /\ (c.keys[k].from \in ProfileName => c.profiles[c.keys[k].from] # NoProfile)
        BY <2>1, UsedKeyHas DEF Good
    <2>3. c.keys[k].from \in ProfileName => r.profiles[c.keys[k].from] = c.profiles[c.keys[k].from]
        BY <1>3, <2>1
    <2> QED
        BY <2>1, <2>2, <2>3, SameHosts
<1> QED
    BY <1>5, <1>6, NarrowerLoads DEF Good

LEMMA ProfileRenameGood ==
    ASSUME NEW c, Good(c), NEW r \in runConfigSSHProfileRename(c) PROVE Good(r)
<1>1. PICK n \in ProfileName, m \in ProfileName :
        c.profiles[n] # NoProfile /\ c.profiles[m] = NoProfile /\ r = Renamed(c, n, m)
    BY DEF runConfigSSHProfileRename
<1> DEFINE keys == [k \in KeyName |-> IF k \in findProfileReferrers(c, n)
                                      THEN [c.keys[k] EXCEPT !.from = m] ELSE c.keys[k]]
           profiles == [[c.profiles EXCEPT ![n] = NoProfile] EXCEPT ![m] = c.profiles[n]]
<1>2. r = [profiles |-> profiles, keys |-> keys, exposed |-> c.exposed, legacy |-> c.legacy]
    BY <1>1 DEF Good, CfgShape, Renamed
<1>3. /\ profiles \in [ProfileName -> ProfileEntry] /\ profiles[m] = c.profiles[n] /\ n # m
      /\ \A l \in ProfileName \ {n, m} : profiles[l] = c.profiles[l]
    BY <1>1 DEF Good, CfgShape, ProfileEntry
<1>4. ASSUME NEW k \in KeyName, k \in findProfileReferrers(c, n)
      PROVE  /\ keys[k] = [from |-> m, hosts |-> c.keys[k].hosts] /\ c.keys[k].hosts \in HostArg
             /\ keys[k] \in KeyEntry /\ keys[k] # NoKey /\ c.keys[k] # NoKey
             /\ c.keys[k].from = n
    <2>1. c.keys[k] \in KeyEntry /\ c.keys[k].from = n
        BY <1>4 DEF Good, CfgShape, findProfileReferrers
    <2>2. c.keys[k] # NoKey /\ c.keys[k].hosts \in HostArg
          /\ c.keys[k] = [from |-> c.keys[k].from, hosts |-> c.keys[k].hosts]
        BY <2>1, KeyEntries
    <2>3. keys[k] = [from |-> m, hosts |-> c.keys[k].hosts] /\ m \in Source
        BY <1>4, <2>2 DEF Source
    <2>4. keys[k] \in KeyEntry
        BY <2>2, <2>3, KeyEntries
    <2>5. keys[k].from \in ProfileName
        BY <2>3
    <2>6. keys[k] # NoKey
        BY <2>4, <2>5, KeyEntries
    <2> HIDE DEF keys
    <2> QED
        BY <2>1, <2>2, <2>3, <2>4, <2>6
<1>5. \A k \in KeyName : k \notin findProfileReferrers(c, n) => keys[k] = c.keys[k]
    OBVIOUS
<1>6. keys = [k \in KeyName |-> keys[k]]
    OBVIOUS
<1> HIDE DEF keys, profiles
<1>7. keys \in [KeyName -> KeyEntry]
    <2>1. \A k \in KeyName : keys[k] \in KeyEntry
        BY <1>4, <1>5 DEF Good, CfgShape
    <2> QED
        BY <1>6, <2>1
<1>8. r.keys = keys /\ r.profiles = profiles /\ CfgShape(r)
    BY <1>2, <1>3, <1>7 DEF CfgShape
<1>9. Narrows(c, r)
    <2> SUFFICES ASSUME NEW k \in UsedKeys(r)
                 PROVE  /\ k \in UsedKeys(c) /\ r.keys[k].hosts = c.keys[k].hosts
                        /\ r.keys[k].from = "inline" <=> c.keys[k].from = "inline"
                        /\ effectiveKeyHosts(r, k) = effectiveKeyHosts(c, k)
                        /\ r.keys[k].from \in ProfileName => r.profiles[r.keys[k].from] # NoProfile
        BY DEF Narrows
    <2>0. k \in KeyName
        BY DEF UsedKeys
    <2>1. CASE k \in findProfileReferrers(c, n)
        <3>1. k \in UsedKeys(c) /\ r.keys[k] = [from |-> m, hosts |-> c.keys[k].hosts]
              /\ c.keys[k].from = n
            BY <1>4, <1>8, <2>0, <2>1 DEF UsedKeys
        <3>2. n # "inline" /\ m # "inline"
            BY DEF ProfileName
        <3>3. r.profiles[m] = c.profiles[n]
            BY <1>3, <1>8
        <3> QED
            BY <1>1, <3>1, <3>2, <3>3 DEF effectiveKeyHosts
    <2>2. CASE k \notin findProfileReferrers(c, n)
        <3>1. k \in UsedKeys(c) /\ r.keys[k] = c.keys[k] /\ c.keys[k].from # n
            BY <1>5, <1>8, <2>0, <2>2 DEF UsedKeys, findProfileReferrers
        <3>2. c.keys[k].from \in Source
              /\ (c.keys[k].from \in ProfileName => c.profiles[c.keys[k].from] # NoProfile)
            BY <3>1, UsedKeyHas DEF Good
        <3>3. c.keys[k].from \in ProfileName =>
                r.profiles[c.keys[k].from] = c.profiles[c.keys[k].from]
            BY <1>1, <1>3, <1>8, <3>1, <3>2
        <3> QED
            BY <3>1, <3>2, <3>3, SameHosts
    <2> QED
        BY <2>1, <2>2
<1> QED
    BY <1>8, <1>9, NarrowerLoads DEF Good

\* Settings that the keys do not depend on.
LEMMA SettingGood ==
    ASSUME NEW c, Good(c), NEW r, CfgShape(r), r.keys = c.keys, r.profiles = c.profiles
    PROVE  Good(r)
BY DEF Good, Loads, ValidateProjectSSHConfig, ValidateProjectSSHProfileRefs, UsedKeys,
       effectiveKeyHosts

LEMMA ResultsGood == ASSUME NEW c, Good(c), NEW r \in Results(c) PROVE Good(r)
<1>1. CASE r \in runConfigAccess(c) \union runConfigSet(c)
    <2>1. CfgShape(r) /\ r.keys = c.keys /\ r.profiles = c.profiles
        BY <1>1 DEF runConfigAccess, runConfigSet, Good, CfgShape
    <2> QED
        BY <2>1, SettingGood
<1> QED
    BY <1>1, AddGood, RemoveGood, ProfileAddGood, ProfileRemoveGood, ProfileRenameGood
    DEF Results

LEMMA DefaultGood == ASSUME NEW l PROVE Good(DefaultConfig(l)) /\ DefaultConfig(l).legacy = l
<1>1. /\ DefaultConfig(l).keys = [k \in KeyName |-> NoKey] /\ DefaultConfig(l).legacy = l
      /\ DefaultConfig(l).profiles = [n \in ProfileName |-> NoProfile]
    BY DEF DefaultConfig
<1>2. CfgShape(DefaultConfig(l))
    BY KeyEntries DEF DefaultConfig, CfgShape, ProfileEntry
<1>3. UsedKeys(DefaultConfig(l)) = {}
    BY <1>1 DEF UsedKeys
<1>4. Loads(DefaultConfig(l))
    BY <1>3 DEF Loads, ValidateProjectSSHConfig, ValidateProjectSSHProfileRefs
<1> QED
    BY <1>1, <1>2, <1>4 DEF Good

----------------------------------------------------------------------------
(* The invariant.                                                          *)

LEMMA EarlierGood ==
    ASSUME NEW l \in BOOLEAN, NEW c \in EarlierConfigs(l) PROVE Good(c) /\ c.legacy = l
<1>1. CASE c = DefaultConfig(l)
    BY <1>1, DefaultGood
<1>2. ASSUME NEW h \in {{"h1"}, {"w1"}},
             c = [DefaultConfig(l) EXCEPT !.profiles["P"] = h,
                                          !.keys["k1"] = [from |-> "P", hosts |-> {}]]
      PROVE  Good(c) /\ c.legacy = l
    <2> DEFINE profiles == [[n \in ProfileName |-> NoProfile] EXCEPT !["P"] = h]
               keys == [[k \in KeyName |-> NoKey] EXCEPT !["k1"] = [from |-> "P", hosts |-> {}]]
    <2>1. c = [profiles |-> profiles, keys |-> keys, exposed |-> FALSE, legacy |-> l]
        BY <1>2 DEF DefaultConfig
    <2>2. h \in HostArg /\ {} \in HostArg /\ "P" \in ProfileName /\ "k1" \in KeyName
        BY DEF HostArg, Pattern, ProfileName, KeyName
    <2>3. [from |-> "P", hosts |-> {}] \in KeyEntry /\ [from |-> "P", hosts |-> {}] # NoKey
        BY <2>2, KeyEntries DEF Source, NoKey
    <2>4. /\ profiles \in [ProfileName -> ProfileEntry] /\ profiles["P"] = h
          /\ keys \in [KeyName -> KeyEntry] /\ keys["k1"] = [from |-> "P", hosts |-> {}]
          /\ \A k \in KeyName : k # "k1" => keys[k] = NoKey
        BY <2>2, <2>3, KeyEntries DEF ProfileEntry
    <2> HIDE DEF profiles, keys
    <2>5. CfgShape(c) /\ c.legacy = l
        BY <2>1, <2>4 DEF CfgShape
    <2>6. UsedKeys(c) = {"k1"}
        BY <2>1, <2>2, <2>3, <2>4 DEF UsedKeys
    <2>7. c.profiles["P"] # NoProfile /\ c.keys["k1"].from = "P"
        BY <2>1, <2>2, <2>4, KeyEntries
    <2>8. Loads(c)
        BY <2>6, <2>7 DEF Loads, ValidateProjectSSHConfig, ValidateProjectSSHProfileRefs
    <2> QED
        BY <2>5, <2>8 DEF Good
<1> QED
    BY <1>1, <1>2 DEF EarlierConfigs

LEMMA CfgInvInit == CfgInit => CfgInv
<1> SUFFICES ASSUME CfgInit PROVE CfgInv
    OBVIOUS
<1>1. PICK old \in BOOLEAN :
        /\ cfgFile \in EarlierConfigs(old)
        /\ cloudAt = (IF old THEN {"config"} ELSE {})
        /\ secretAt = (IF old THEN {"file"} ELSE {})
    BY DEF CfgInit
<1>2. ConfigsLoad
    BY <1>1, EarlierGood, DefaultGood DEF CfgInit, ConfigsLoad, Good
<1>3. \A c \in Command : cmdStep[c] = "idle"
    BY DEF CfgInit
<1>4. KeysAreSomewhere
    <2>1. CASE old = TRUE
        BY <1>1, <1>3, <2>1, EarlierGood DEF KeysAreSomewhere
    <2>2. CASE old = FALSE
        BY <1>1, <1>3, <2>2 DEF KeysAreSomewhere
    <2> QED
        BY <2>1, <2>2
<1>5. KeysAreApart /\ NamedHostGetsItsKey
    BY DEF CfgInit, KeysAreApart, NamedHostGetsItsKey
<1> QED
    BY <1>2, <1>4, <1>5 DEF CfgInv, CfgInit

\* The mark of an earlier format is no part of what loading checks.
LEMMA MarkedGood ==
    ASSUME NEW c, Good(c), NEW b PROVE Good([c EXCEPT !.legacy = b])
<1> DEFINE d == [c EXCEPT !.legacy = b]
<1>1. PICK p, k, e, l : c = [profiles |-> p, keys |-> k, exposed |-> e, legacy |-> l]
    BY DEF Good, CfgShape
<1>2. d = [profiles |-> p, keys |-> k, exposed |-> e, legacy |-> b]
    BY <1>1
<1>3. d.profiles = c.profiles /\ d.keys = c.keys
    BY <1>1, <1>2
<1>4. c.profiles \in [ProfileName -> ProfileEntry] /\ c.keys \in [KeyName -> KeyEntry]
    BY DEF Good, CfgShape
<1>5. d = [profiles |-> d.profiles, keys |-> d.keys, exposed |-> d.exposed, legacy |-> d.legacy]
    BY <1>2
<1> HIDE DEF d
<1>6. CfgShape(d)
    BY <1>3, <1>4, <1>5 DEF CfgShape
<1>7. Good(d)
    BY <1>3, <1>6, SettingGood
<1> QED
    BY <1>7 DEF d

LEMMA UnmarkedGood ==
    ASSUME NEW c, Good(c) PROVE Good([c EXCEPT !.legacy = FALSE])
BY MarkedGood, Zenon

\* A command's copy, or the file, becomes one that loads.
LEMMA CommandCopyKeeps ==
    ASSUME CfgInv, NEW c \in Command, NEW new, Good(new), UNCHANGED <<cfgFile, cfgText>>,
           cmdCopy' = [cmdCopy EXCEPT ![c] = new]
    PROVE  ConfigsLoad' /\ DOMAIN cmdCopy' = Command
<1>1. \A d \in Command : cmdCopy'[d] = IF d = c THEN new ELSE cmdCopy[d]
    BY DEF CfgInv
<1> QED
    BY <1>1 DEF CfgInv, ConfigsLoad

LEMMA ForgetKeeps ==
    ASSUME CfgInv, NEW c \in Command, UNCHANGED <<cfgFile, cfgText>>, Forget(c)
    PROVE  ConfigsLoad' /\ DOMAIN cmdCopy' = Command
BY CommandCopyKeeps, DefaultGood DEF Forget

\* A mix of two configurations has the shape of one, and may not load.
LEMMA MixedShape ==
    ASSUME NEW a, NEW b, CfgShape(a), CfgShape(b), NEW ps, NEW ks, NEW e
    PROVE  CfgShape(Mixed(a, b, ps, ks, e))
<1> DEFINE p == [n \in ProfileName |-> IF n \in ps THEN b.profiles[n] ELSE a.profiles[n]]
           q == [k \in KeyName |-> IF k \in ks THEN b.keys[k] ELSE a.keys[k]]
<1>1. p \in [ProfileName -> ProfileEntry] /\ q \in [KeyName -> KeyEntry]
    BY DEF CfgShape
<1>2. Mixed(a, b, ps, ks, e) = [profiles |-> p, keys |-> q, exposed |-> e, legacy |-> FALSE]
    BY DEF Mixed
<1> HIDE DEF p, q
<1> QED
    BY <1>1, <1>2 DEF CfgShape

LEMMA CommandsLoad ==
    ASSUME CfgInv, CfgNext PROVE ConfigsLoad' /\ DOMAIN cmdCopy' = Command
<1>1. ASSUME NEW c \in Command, Load(c) PROVE ConfigsLoad' /\ DOMAIN cmdCopy' = Command
    <2>1. Good([cfgFile EXCEPT !.legacy = FALSE])
        <3>1. Good(cfgFile)
            BY <1>1 DEF Load, FileLoads, CfgInv, ConfigsLoad, Good
        <3> QED
            BY <3>1, UnmarkedGood
    <2> QED
        BY <1>1, <2>1, CommandCopyKeeps DEF Load
<1>2. ASSUME NEW c \in Command, Change(c) PROVE ConfigsLoad' /\ DOMAIN cmdCopy' = Command
    <2>1. ASSUME NEW cfg \in Results(cmdCopy[c]), cmdCopy' = [cmdCopy EXCEPT ![c] = cfg]
          PROVE  ConfigsLoad' /\ DOMAIN cmdCopy' = Command
        <3>1. Good(cfg)
            BY ResultsGood DEF CfgInv, ConfigsLoad
        <3> QED
            BY <1>2, <2>1, <3>1, CommandCopyKeeps DEF Change
    <2> QED
        BY <1>2, <2>1, ForgetKeeps DEF Change
<1>3. ASSUME NEW c \in Command, WriteConfig(c) PROVE ConfigsLoad' /\ DOMAIN cmdCopy' = Command
    <2>1. CfgShape(cfgFile)' /\ (cfgText' = "saved" => Loads(cfgFile)')
        <3>1. Good(cmdCopy[c]) /\ CfgShape(cmdCopy[c]) /\ CfgShape(cfgFile)
            BY DEF CfgInv, ConfigsLoad, Good
        <3>2. PutText(cmdCopy[c])
            BY <1>3 DEF WriteConfig
        <3>3. CASE cfgFile' = cmdCopy[c]
            BY <3>1, <3>3 DEF Good
        <3>4. CASE /\ \E ps \in SUBSET ProfileName, ks \in SUBSET KeyName,
                       e \in {cmdCopy[c].exposed, cfgFile.exposed} :
                      cfgFile' = Mixed(cmdCopy[c], cfgFile, ps, ks, e)
                   /\ cfgText' = "mixed"
            <4>1. CfgShape(cfgFile')
                BY <3>1, <3>4, MixedShape
            <4> QED
                BY <3>4, <4>1
        <3>5. CASE cfgText' = "broken" /\ UNCHANGED cfgFile
            BY <3>1, <3>5
        <3> QED
            BY <3>2, <3>3, <3>4, <3>5 DEF PutText
    <2>2. (UNCHANGED cmdCopy) \/ Forget(c)
        BY <1>3 DEF WriteConfig
    <2>3. \A d \in Command : cmdCopy'[d] = cmdCopy[d] \/ cmdCopy'[d] = DefaultConfig(FALSE)
        BY <2>2 DEF Forget, CfgInv
    <2>4. DOMAIN cmdCopy' = Command
        BY <2>2 DEF Forget, CfgInv
    <2> QED
        BY <2>1, <2>3, <2>4, DefaultGood DEF CfgInv, ConfigsLoad
<1>4. ASSUME NEW c \in Command, KillCommand(c) PROVE ConfigsLoad' /\ DOMAIN cmdCopy' = Command
    BY <1>4, ForgetKeeps DEF KillCommand
<1>5. ASSUME NEW c \in Command,
             \/ Migrate(c) \/ Truncate(c) \/ LoadCloudSecretKey(c) \/ SaveCloudSecretKey(c)
             \/ ConfigCloud(c)
      PROVE  ConfigsLoad' /\ DOMAIN cmdCopy' = Command
    <2>1. UNCHANGED <<cfgFile, cmdCopy>> /\ (cfgText' = "empty" \/ UNCHANGED cfgText)
        BY <1>5 DEF Migrate, Truncate, LoadCloudSecretKey, SaveCloudSecretKey, ConfigCloud
    <2> QED
        BY <2>1, Zenon DEF CfgInv, ConfigsLoad
<1>6. CASE EditConfig
    BY <1>6, DefaultGood DEF EditConfig, CfgInv, ConfigsLoad, Good
<1>7. CASE ResolveKeys \/ CloseSession \/ \E h \in Host : SelectKey(h)
    BY <1>7 DEF ResolveKeys, CloseSession, SelectKey, CfgInv, ConfigsLoad
<1> QED
    BY <1>1, <1>2, <1>3, <1>4, <1>5, <1>6, <1>7 DEF CfgNext

\* Where a command goes, the others stay.
LEMMA CmdGoMeans ==
    ASSUME CfgInv, NEW c \in Command, NEW here, NEW there, CmdGo(c, here, there)
    PROVE  /\ DOMAIN cmdStep' = Command /\ cmdStep[c] = here /\ cmdStep'[c] = there
           /\ \A d \in Command \ {c} : cmdStep'[d] = cmdStep[d]
BY DEF CmdGo, CfgInv

LEMMA KeysStay ==
    ASSUME CfgInv, CfgNext PROVE KeysAreSomewhere' /\ DOMAIN cmdStep' = Command
<1>1. ASSUME NEW c \in Command, Load(c) PROVE KeysAreSomewhere' /\ DOMAIN cmdStep' = Command
    <2>1. /\ UNCHANGED <<cfgFile, cloudAt, secretAt>> /\ cmdStep'[c] \in {"migrate", "change"}
          /\ cfgFile.legacy => cmdStep'[c] = "migrate"
          /\ DOMAIN cmdStep' = Command /\ \A d \in Command \ {c} : cmdStep'[d] = cmdStep[d]
        BY <1>1 DEF Load, CmdGo, CfgInv
    <2> QED
        BY <2>1 DEF CfgInv, KeysAreSomewhere
<1>2. ASSUME NEW c \in Command, Migrate(c) PROVE KeysAreSomewhere' /\ DOMAIN cmdStep' = Command
    BY <1>2, CmdGoMeans DEF Migrate, CfgInv, KeysAreSomewhere
<1>3. ASSUME NEW c \in Command, Change(c) PROVE KeysAreSomewhere' /\ DOMAIN cmdStep' = Command
    <2>1. CmdGo(c, "change", "truncate") \/ CmdGo(c, "change", "idle")
        BY <1>3 DEF Change
    <2>2. UNCHANGED <<cfgFile, cloudAt, secretAt>>
        BY <1>3 DEF Change
    <2>3. /\ cmdStep[c] = "change" /\ cmdStep'[c] \in {"truncate", "idle"}
          /\ DOMAIN cmdStep' = Command /\ \A d \in Command \ {c} : cmdStep'[d] = cmdStep[d]
        BY <2>1, CmdGoMeans
    <2> QED
        BY <2>2, <2>3 DEF CfgInv, KeysAreSomewhere
<1>4. ASSUME NEW c \in Command, Truncate(c) PROVE KeysAreSomewhere' /\ DOMAIN cmdStep' = Command
    <2>1. \/ CmdGo(c, "truncate", "write")
          \/ CmdGo(c, "truncateMigrated", "writeMigrated")
        BY <1>4 DEF Truncate
    <2>2. UNCHANGED <<cfgFile, secretAt>> /\ cloudAt' = cloudAt \ {"config"}
        BY <1>4 DEF Truncate
    <2>3. /\ cmdStep[c] \in {"truncate", "truncateMigrated"}
          /\ cmdStep'[c] \in {"write", "writeMigrated"}
          /\ DOMAIN cmdStep' = Command /\ \A d \in Command \ {c} : cmdStep'[d] = cmdStep[d]
        BY <2>1, CmdGoMeans
    <2> QED
        BY <2>2, <2>3 DEF CfgInv, KeysAreSomewhere
<1>5. ASSUME NEW c \in Command, WriteConfig(c)
      PROVE  KeysAreSomewhere' /\ DOMAIN cmdStep' = Command
    <2>1. \/ CmdGo(c, "write", "idle")
          \/ CmdGo(c, "writeMigrated", "change")
        BY <1>5 DEF WriteConfig
    <2>2. UNCHANGED <<cloudAt, secretAt>>
        BY <1>5 DEF WriteConfig
    <2>3. /\ cmdStep[c] \in {"write", "writeMigrated"} /\ cmdStep'[c] \in {"idle", "change"}
          /\ DOMAIN cmdStep' = Command /\ \A d \in Command \ {c} : cmdStep'[d] = cmdStep[d]
        BY <2>1, CmdGoMeans
    <2> QED
        BY <2>2, <2>3 DEF CfgInv, KeysAreSomewhere
<1>6. ASSUME NEW c \in Command, KillCommand(c)
      PROVE  KeysAreSomewhere' /\ DOMAIN cmdStep' = Command
    <2>1. /\ DOMAIN cmdStep' = Command /\ cmdStep'[c] = "idle"
          /\ \A d \in Command \ {c} : cmdStep'[d] = cmdStep[d]
          /\ UNCHANGED <<cfgFile, cloudAt, secretAt>>
        BY <1>6 DEF KillCommand, CfgInv
    <2> QED
        BY <2>1 DEF CfgInv, KeysAreSomewhere
<1>7. ASSUME NEW c \in Command, LoadCloudSecretKey(c)
      PROVE  KeysAreSomewhere' /\ DOMAIN cmdStep' = Command
    BY <1>7, CmdGoMeans DEF LoadCloudSecretKey, CfgInv, KeysAreSomewhere
<1>8. ASSUME NEW c \in Command, SaveCloudSecretKey(c) \/ ConfigCloud(c)
      PROVE  KeysAreSomewhere' /\ DOMAIN cmdStep' = Command
    BY <1>8, CmdGoMeans DEF SaveCloudSecretKey, ConfigCloud, CfgInv, KeysAreSomewhere
<1>9. CASE EditConfig
    BY <1>9 DEF EditConfig, CfgInv, KeysAreSomewhere
<1>10. CASE ResolveKeys \/ CloseSession \/ \E h \in Host : SelectKey(h)
    BY <1>10 DEF ResolveKeys, CloseSession, SelectKey, CfgInv, KeysAreSomewhere
<1> QED
    BY <1>1, <1>2, <1>3, <1>4, <1>5, <1>6, <1>7, <1>8, <1>9, <1>10 DEF CfgNext

LEMMA MatchesItself == \A h \in Host : h \in Matches(h)
BY DEF Matches, Host

LEMMA ResolvedApart ==
    ASSUME CfgInv, ResolveKeys PROVE KeysAreApart' /\ NamedHostGetsItsKey'
<1>1. Good(cfgFile)
    BY DEF CfgInv, ConfigsLoad, ResolveKeys, FileLoads, Good
<1>2. /\ sessKeys' = {[name |-> k, hosts |-> effectiveKeyHosts(cfgFile, k)] :
                         k \in UsedKeys(cfgFile)}
      /\ sshAnswer' = NoAnswer
    BY DEF ResolveKeys
<1>3. ASSUME NEW k \in UsedKeys(cfgFile) PROVE effectiveKeyHosts(cfgFile, k) \in HostArg
    <2>1. /\ cfgFile.keys[k] # NoKey /\ cfgFile.keys[k] \in KeyEntry
          /\ cfgFile.keys[k].from \in Source
          /\ cfgFile.keys[k].from \in ProfileName =>
               cfgFile.profiles[cfgFile.keys[k].from] \in HostArg
        BY <1>1, UsedKeyHas DEF Good, UsedKeys
    <2>2. cfgFile.keys[k].hosts \in HostArg
        BY <2>1, KeyEntries
    <2> QED
        BY <2>1, <2>2 DEF effectiveKeyHosts, Source
<1>4. \A j, k \in UsedKeys(cfgFile) : j # k =>
        ~firstHostOverlap(effectiveKeyHosts(cfgFile, j), effectiveKeyHosts(cfgFile, k))
    BY <1>1 DEF Good, Loads, ValidateProjectSSHProfileRefs
<1>5. KeysAreApart'
    BY <1>2, <1>3, <1>4 DEF KeysAreApart
<1>6. \A h \in HostArg : "none" \notin h
    BY DEF HostArg, Pattern
<1> QED
    BY <1>2, <1>5, <1>6 DEF KeysAreApart, NamedHostGetsItsKey, NoAnswer

LEMMA SelectedIsNamed ==
    ASSUME CfgInv, NEW h \in Host, SelectKey(h) PROVE KeysAreApart' /\ NamedHostGetsItsKey'
<1>1. UNCHANGED sessKeys /\ sshAnswer'.host = h
      /\ sshAnswer'.key = IF Cardinality(Matching(h)) = 1
                          THEN (CHOOSE k \in Matching(h) : TRUE).name ELSE "refused"
    BY DEF SelectKey
<1>2. ASSUME NEW k \in sessKeys, h \in k.hosts PROVE Matching(h) = {k}
    <2>1. k \in Matching(h)
        BY <1>2, MatchesItself DEF Matching
    <2>2. ASSUME NEW j \in Matching(h) PROVE j = k
        <3>1. j \in sessKeys /\ \E p \in j.hosts : h \in Matches(p)
            BY DEF Matching
        <3>2. firstHostOverlap(k.hosts, j.hosts)
            BY <1>2, <3>1 DEF firstHostOverlap
        <3> QED
            BY <3>1, <3>2 DEF CfgInv, KeysAreApart
    <2> QED
        BY <2>1, <2>2
<1>3. \A k : Cardinality({k}) = 1 /\ (CHOOSE j \in {k} : TRUE) = k
    BY FS_Singleton
<1>4. NamedHostGetsItsKey'
    BY <1>1, <1>2, <1>3 DEF NamedHostGetsItsKey
<1> QED
    BY <1>1, <1>4 DEF CfgInv, KeysAreApart

LEMMA SessionsKeep ==
    ASSUME CfgInv, CfgNext PROVE KeysAreApart' /\ NamedHostGetsItsKey'
<1>1. CASE UNCHANGED <<sessKeys, sshAnswer>>
    BY <1>1 DEF CfgInv, KeysAreApart, NamedHostGetsItsKey
<1>2. CASE CloseSession
    BY <1>2 DEF CloseSession, KeysAreApart, NamedHostGetsItsKey
<1>3. ASSUME NEW c \in Command,
             \/ Load(c) \/ Migrate(c) \/ Change(c) \/ Truncate(c) \/ WriteConfig(c)
             \/ KillCommand(c) \/ LoadCloudSecretKey(c) \/ SaveCloudSecretKey(c)
             \/ ConfigCloud(c)
      PROVE  UNCHANGED <<sessKeys, sshAnswer>>
    BY <1>3 DEF Load, Migrate, Change, Truncate, WriteConfig, KillCommand, LoadCloudSecretKey,
                SaveCloudSecretKey, ConfigCloud
<1>4. EditConfig => UNCHANGED <<sessKeys, sshAnswer>>
    BY DEF EditConfig
<1> QED
    BY <1>1, <1>2, <1>3, <1>4, ResolvedApart, SelectedIsNamed DEF CfgNext

LEMMA CfgInvNext == CfgInv /\ [CfgNext]_cfgVars => CfgInv'
<1>1. ASSUME CfgInv, CfgNext PROVE CfgInv'
    BY <1>1, CommandsLoad, KeysStay, SessionsKeep DEF CfgInv
<1>2. ASSUME CfgInv, UNCHANGED cfgVars PROVE CfgInv'
    BY <1>2 DEF CfgInv, cfgVars, ConfigsLoad, KeysAreSomewhere, KeysAreApart,
                NamedHostGetsItsKey
<1> QED
    BY <1>1, <1>2

\* The cloud keys leave one place only once they are in the other.
LEMMA KeysArrive ==
    ASSUME CfgInv, CfgNext
    PROVE  (cloudAt # {} => cloudAt' # {}) /\ (secretAt # {} => secretAt' # {})
<1>1. ASSUME NEW c \in Command, Truncate(c) PROVE cloudAt # {"config"} /\ UNCHANGED secretAt
    BY <1>1 DEF Truncate, CmdGo, CfgInv, KeysAreSomewhere
<1>2. ASSUME NEW c \in Command, SaveCloudSecretKey(c)
      PROVE  "store" \in secretAt' /\ UNCHANGED cloudAt
    BY <1>2 DEF SaveCloudSecretKey, CmdGo, CfgInv, KeysAreSomewhere
<1>3. ASSUME NEW c \in Command, Truncate(c) PROVE cloudAt # {} => cloudAt' # {}
    <2>1. cloudAt' = cloudAt \ {"config"} /\ cloudAt # {"config"}
        BY <1>1, <1>3 DEF Truncate
    <2> QED
        BY <2>1
<1>4. EditConfig => (cloudAt # {} => cloudAt' # {}) /\ UNCHANGED secretAt
    BY DEF EditConfig
<1>5. ASSUME NEW c \in Command, Load(c) \/ Change(c) \/ WriteConfig(c) \/ KillCommand(c)
      PROVE  UNCHANGED <<cloudAt, secretAt>>
    BY <1>5 DEF Load, Change, WriteConfig, KillCommand
<1>6. ASSUME NEW c \in Command, Migrate(c) \/ LoadCloudSecretKey(c) \/ ConfigCloud(c)
      PROVE  cloudAt \subseteq cloudAt' /\ (UNCHANGED secretAt \/ "store" \in secretAt')
    BY <1>6 DEF Migrate, LoadCloudSecretKey, ConfigCloud
<1>7. ASSUME ResolveKeys \/ CloseSession \/ \E h \in Host : SelectKey(h)
      PROVE  UNCHANGED <<cloudAt, secretAt>>
    BY <1>7 DEF ResolveKeys, CloseSession, SelectKey
<1> QED
    BY <1>1, <1>2, <1>3, <1>4, <1>5, <1>6, <1>7 DEF CfgNext

\* config.go, config_ssh.go and git_ssh.go: what is saved loads, the session's keys are
\* told apart, and the cloud keys arrive.
THEOREM ConfigurationIsKept == CfgSpec => ConfigurationKept
<1>1. CfgInv => SavedConfigLoads /\ NamedHostGetsItsKey
    BY DEF CfgInv, ConfigsLoad, Good, SavedConfigLoads
<1>2. CfgInv /\ [CfgNext]_cfgVars =>
        [(cloudAt # {} => cloudAt' # {}) /\ (secretAt # {} => secretAt' # {})]_cfgVars
    BY KeysArrive
<1> QED
    BY <1>1, <1>2, CfgInvInit, CfgInvNext, PTL DEF CfgSpec, ConfigurationKept, CloudKeysSurvive

----------------------------------------------------------------------------
(* RuntimeCapability.                                                      *)

\* That a revocation takes effect by itself, for any number of statements and whatever
\* combination of them the one who routes presents.

Feed == [from : Nat, until : Nat, state : Lifecycle, covers : BOOLEAN]
Decl == [result : Nat, feed : Nat, version : Nat, from : Nat, until : Nat, reattest : Nat]
VerifierResults == [version : Nat, from : Nat, until : Nat, passed : BOOLEAN, covers : SUBSET Flags]

\* What was issued stays and refers backwards; a verdict is about feeds that
\* were out; and what was routed was bounded when it was routed.
RcInv ==
    /\ rcNow \in Nat /\ rcVersion \in Nat
    /\ rcFeeds \in Seq(Feed) /\ rcDecls \in Seq(Decl) /\ rcResults \in Seq(VerifierResults)
    /\ \A d \in 1..Len(rcDecls) :
          rcDecls[d].feed \in 1..Len(rcFeeds) /\ rcDecls[d].result \in 1..Len(rcResults)
    /\ rcRouted \in [decl : 0..Len(rcDecls), at : Nat, version : Nat, newest : 0..Len(rcFeeds)]
    /\ RevocationBounded
    /\ RoutedWasVerified

LEMMA RcInvInit == RcInit => RcInv
<1>1. Len(<<>>) = 0 /\ <<>> \in Seq(VerifierResults) /\ <<>> \in Seq(Feed) /\ <<>> \in Seq(Decl)
    BY EmptySeq
<1> QED
    BY <1>1 DEF RcInit, RcInv, NotRouted, RevocationBounded, RoutedWasVerified

----------------------------------------------------------------------------
\* A new result leaves those that were signed as they are.
LEMMA ResultKeepsInv == RcInv /\ SignVerifierResult => RcInv'
<1> SUFFICES ASSUME RcInv, SignVerifierResult
             PROVE  RcInv'
    OBVIOUS
<1> DEFINE n == Len(rcResults)
<1>1. PICK r \in VerifierResults : rcResults' = Append(rcResults, r)
    <2>1. PICK until \in rcNow + 1 .. MaxNow + 1, passed \in BOOLEAN, covers \in {Flags, {"isolation"}} :
             rcResults' = Append(rcResults,
                [version |-> rcVersion, from |-> rcNow, until |-> until, passed |-> passed, covers |-> covers])
        BY DEF SignVerifierResult
    <2>2. rcNow \in Nat /\ rcVersion \in Nat /\ until \in Nat /\ covers \in SUBSET Flags
        BY DEF RcInv, Flags
    <2>3. [version |-> rcVersion, from |-> rcNow, until |-> until, passed |-> passed, covers |-> covers]
             \in VerifierResults
        BY <2>2 DEF VerifierResults
    <2> QED
        BY <2>1, <2>3
<1>2. n \in Nat /\ UNCHANGED <<rcNow, rcVersion, rcFeeds, rcDecls, rcRouted>>
    BY DEF RcInv, SignVerifierResult
<1>3. /\ rcResults' \in Seq(VerifierResults) /\ Len(rcResults') = n + 1
      /\ \A i \in 1..n : rcResults'[i] = rcResults[i]
    BY <1>1, <1>2, AppendProperties DEF RcInv
<1>4. \A d \in 1..Len(rcDecls) : rcDecls[d].feed \in 1..Len(rcFeeds) /\ rcDecls[d].result \in 1..(n + 1)
    BY <1>2 DEF RcInv
<1>5. RevocationBounded'
    BY <1>2 DEF RcInv, RevocationBounded, Revoking, TakenBack
<1>6. RoutedWasVerified'
    BY <1>2, <1>3 DEF RcInv, RoutedWasVerified
<1> QED
    BY <1>2, <1>3, <1>4, <1>5, <1>6 DEF RcInv

\* A new feed says nothing of what was routed before it.
LEMMA FeedKeepsInv == RcInv /\ SignRevocationFeed => RcInv'
<1> SUFFICES ASSUME RcInv, SignRevocationFeed
             PROVE  RcInv'
    OBVIOUS
<1> DEFINE n == Len(rcFeeds)
<1>1. PICK feed \in Feed : rcFeeds' = Append(rcFeeds, feed)
    <2>1. PICK until \in rcNow + 1 .. MaxNow + 1, state \in Lifecycle, covers \in BOOLEAN :
             rcFeeds' = Append(rcFeeds, [from |-> rcNow, until |-> until, state |-> state, covers |-> covers])
        BY DEF SignRevocationFeed
    <2>2. rcNow \in Nat /\ until \in Nat
        BY DEF RcInv
    <2>3. [from |-> rcNow, until |-> until, state |-> state, covers |-> covers] \in Feed
        BY <2>2 DEF Feed
    <2> QED
        BY <2>1, <2>3
<1>2. n \in Nat /\ UNCHANGED <<rcNow, rcVersion, rcResults, rcDecls, rcRouted>>
    BY DEF RcInv, SignRevocationFeed
<1>3. /\ rcFeeds' \in Seq(Feed) /\ Len(rcFeeds') = n + 1
      /\ \A i \in 1..n : rcFeeds'[i] = rcFeeds[i]
    BY <1>1, <1>2, AppendProperties DEF RcInv
<1>4. \A i \in 1..n : i \in Revoking <=> i \in Revoking'
    BY <1>2, <1>3 DEF Revoking
<1>5. RevocationBounded'
    <2> SUFFICES ASSUME rcRouted.decl # 0
                 PROVE  LET f == rcDecls[rcRouted.decl].feed
                        IN  /\ rcRouted.at < rcFeeds'[f].until /\ f \notin Revoking'
                            /\ \A i \in Revoking' :
                                  i <= rcRouted.newest /\ ~TakenBack(i, rcRouted.newest)' => f < i
        BY <1>2 DEF RevocationBounded
    <2> DEFINE f == rcDecls[rcRouted.decl].feed
    <2>1. f \in 1..n /\ rcRouted.newest \in 0..n
        BY DEF RcInv
    <2>2. rcRouted.at < rcFeeds'[f].until /\ f \notin Revoking'
        BY <1>3, <1>4, <2>1 DEF RcInv, RevocationBounded
    <2>3. ASSUME NEW i \in Revoking', i <= rcRouted.newest, ~TakenBack(i, rcRouted.newest)'
          PROVE  f < i
        <3>1. i \in 1..n /\ i \in Revoking
            BY <1>2, <1>3, <1>4, <2>1, <2>3 DEF Revoking
        <3>2. ASSUME NEW j \in i + 1 .. rcRouted.newest
              PROVE  j \in Revoking
            <4>1. j \in 1..n /\ j \in Revoking'
                BY <1>2, <2>1, <2>3, <3>1 DEF TakenBack
            <4> QED
                BY <1>4, <4>1
        <3>3. ~TakenBack(i, rcRouted.newest)
            BY <3>2 DEF TakenBack
        <3> QED
            BY <2>3, <3>1, <3>3 DEF RcInv, RevocationBounded
    <2> QED
        BY <2>2, <2>3
<1>6. RoutedWasVerified'
    BY <1>2 DEF RcInv, RoutedWasVerified
<1>7. \A d \in 1..Len(rcDecls) : rcDecls[d].feed \in 1..(n + 1) /\ rcDecls[d].result \in 1..Len(rcResults)
    BY <1>2 DEF RcInv
<1>8. rcRouted \in [decl : 0..Len(rcDecls), at : Nat, version : Nat, newest : 0..(n + 1)]
    BY <1>2 DEF RcInv
<1> QED
    BY <1>2, <1>3, <1>5, <1>6, <1>7, <1>8 DEF RcInv

\* A new declaration leaves those already signed as they are.
LEMMA DeclarationKeepsInv == RcInv /\ SignDeclaration => RcInv'
<1> SUFFICES ASSUME RcInv, SignDeclaration
             PROVE  RcInv'
    OBVIOUS
<1> DEFINE n == Len(rcDecls)
<1>1. PICK decl \in Decl :
         /\ decl.feed \in 1..Len(rcFeeds) /\ decl.result \in 1..Len(rcResults)
         /\ rcDecls' = Append(rcDecls, decl)
    <2>1. PICK r \in 1..Len(rcResults), f \in 1..Len(rcFeeds), w \in Windows, reattest \in 1..MaxNow :
             rcDecls' = Append(rcDecls, [result |-> r, feed |-> f, version |-> rcVersion,
                                         from |-> w.from, until |-> w.until, reattest |-> reattest])
        BY DEF SignDeclaration
    <2>2. w.from \in Nat /\ w.until \in Nat /\ r \in Nat /\ reattest \in Nat /\ f \in Nat /\ rcVersion \in Nat
        BY DEF RcInv, Windows
    <2>3. [result |-> r, feed |-> f, version |-> rcVersion,
           from |-> w.from, until |-> w.until, reattest |-> reattest] \in Decl
        BY <2>2 DEF Decl
    <2> QED
        BY <2>1, <2>3
<1>2. n \in Nat /\ UNCHANGED <<rcNow, rcVersion, rcResults, rcFeeds, rcRouted>>
    BY DEF RcInv, SignDeclaration
<1>3. /\ rcDecls' \in Seq(Decl) /\ Len(rcDecls') = n + 1 /\ rcDecls'[n + 1] = decl
      /\ \A i \in 1..n : rcDecls'[i] = rcDecls[i]
    BY <1>1, <1>2, AppendProperties DEF RcInv
<1>4. \A i \in 1..(n + 1) : i = n + 1 \/ i \in 1..n
    BY <1>2
<1>5. rcRouted.decl # 0 => rcDecls'[rcRouted.decl] = rcDecls[rcRouted.decl]
    BY <1>3 DEF RcInv
<1>6. RevocationBounded' /\ RoutedWasVerified'
    BY <1>2, <1>5 DEF RcInv, RevocationBounded, RoutedWasVerified, Revoking, TakenBack
<1>7. \A d \in 1..(n + 1) :
         rcDecls'[d].feed \in 1..Len(rcFeeds) /\ rcDecls'[d].result \in 1..Len(rcResults)
    BY <1>1, <1>3, <1>4 DEF RcInv
<1>8. rcRouted \in [decl : 0..(n + 1), at : Nat, version : Nat, newest : 0..Len(rcFeeds)]
    BY <1>2 DEF RcInv
<1> QED
    BY <1>2, <1>3, <1>6, <1>7, <1>8 DEF RcInv

\* The gate: the feed that was signed over still holds and does not revoke, so
\* it is not after one that does unless it takes that back itself; and the
\* result that was presented is the one the declaration names.
LEMMA RouteKeepsInv == RcInv /\ RouteWork => RcInv'
<1> SUFFICES ASSUME RcInv, RouteWork
             PROVE  RcInv'
    OBVIOUS
<1>1. UNCHANGED <<rcNow, rcVersion, rcResults, rcFeeds, rcDecls>> /\ Len(rcFeeds) \in Nat
    BY DEF RcInv, RouteWork
<1>2. PICK d \in 1..Len(rcDecls), r \in 1..Len(rcResults), f \in 1..Len(rcFeeds) :
         /\ Conforms(d, r) /\ Dispatch(d, f) = "allow"
         /\ rcRouted' = [decl |-> d, at |-> rcNow, version |-> rcVersion, newest |-> Len(rcFeeds)]
    BY DEF RouteWork
<1>3. rcNow < rcFeeds[f].until /\ rcDecls[d].feed = f /\ rcFeeds[f].state # "revoked"
    BY <1>2 DEF Dispatch
<1>4. ASSUME NEW i \in Revoking, i <= Len(rcFeeds), ~TakenBack(i, Len(rcFeeds))
      PROVE  f < i
    <2>1. i \in 1..Len(rcFeeds) /\ f \notin Revoking
        BY <1>3 DEF Revoking
    <2>2. f \notin i + 1 .. Len(rcFeeds)
        BY <1>4, <2>1 DEF TakenBack
    <2> QED
        BY <1>1, <1>2, <1>4, <2>1, <2>2
<1>5. RevocationBounded'
    <2>1. f \notin Revoking
        BY <1>3 DEF Revoking
    <2> QED
        BY <1>1, <1>2, <1>3, <1>4, <2>1 DEF RevocationBounded, Revoking, TakenBack
<1>6. rcRouted' \in [decl : 0..Len(rcDecls), at : Nat, version : Nat, newest : 0..Len(rcFeeds)]
    BY <1>1, <1>2 DEF RcInv
<1>7. RoutedWasVerified'
    BY <1>1, <1>2 DEF RoutedWasVerified, Conforms, DeclarationOK, ResultOK
<1> QED
    BY <1>1, <1>5, <1>6, <1>7 DEF RcInv

LEMMA RcInvStep == RcInv /\ [RcNext]_rcVars => RcInv'
<1> SUFFICES ASSUME RcInv, [RcNext]_rcVars
             PROVE  RcInv'
    OBVIOUS
<1>1. CASE UNCHANGED <<rcResults, rcFeeds, rcDecls, rcRouted>> /\ rcNow' \in Nat /\ rcVersion' \in Nat
    BY <1>1 DEF RcInv, RevocationBounded, RoutedWasVerified, Revoking, TakenBack
<1>2. CASE RcTick \/ Upgrade \/ UNCHANGED rcVars
    BY <1>1, <1>2 DEF RcInv, RcTick, Upgrade, rcVars
<1> QED
    BY <1>2, ResultKeepsInv, FeedKeepsInv, DeclarationKeepsInv, RouteKeepsInv DEF RcNext

----------------------------------------------------------------------------
\* previewNetwork: only one of its cases vouches for every grant.
LEMMA PreviewIsTight == PreviewGrantsOnlyWhatIsAsked
<1> SUFFICES ASSUME NEW grants \in SUBSET Grants, Posture(grants).mode = "default",
                    Posture(grants).unsupported = {}
             PROVE  "allow:public-internet" \in grants /\ "deny:all" \notin grants
    BY DEF PreviewGrantsOnlyWhatIsAsked
<1>1. grants # {} /\ "deny:all" \notin grants
    BY DEF Posture
<1> QED
    BY <1>1 DEF Posture

\* VerifyRoutingEligibility of runtimecapability: work is never routed on a
\* declaration beyond the feed it was signed over, nor on one signed over a
\* feed that revokes the set or follows one that does, unless a feed in between
\* took that back; nor to another version than the one that passed; and a
\* preview vouches for the network only where the public internet was asked for.
THEOREM CapabilityIsBounded == RcSpec => []CapabilityBounded
<1>1. RcSpec => []RcInv
    BY RcInvInit, RcInvStep, PTL DEF RcSpec
<1>2. RcInv => CapabilityBounded
    BY PreviewIsTight DEF RcInv, CapabilityBounded
<1> QED
    BY <1>1, <1>2, PTL

----------------------------------------------------------------------------
(* CredentialMigration.                                                    *)

CmStages ==
    {"idle", "keys", "keyStore", "keyArchive", "keyRemove", "ask", "configStore",
     "configRemove", "https", "httpsWrite", "httpsRemove", "helper", "session",
     "erased", "cloud", "cloudSave", "cloudScrub", "cloudFile", "cloudRemove",
     "ssh", "sshEntry", "done", "crashed"}
CmPrograms == {"none", "migrate", "cloud", "launch", "config"}
CmLines == {"l1", "l2", "l3", "l4"}
CmEntries == {"d1", "d2", "note"}

CmDisks ==
    [export : [EnvVar -> Secret \union {"none", "bad"}],
     store : [Slot -> Secret \union {"none", "blank"}],
     arch : [Slot -> SUBSET Secret],
     conf : [Fields -> Secret \union {"none"}],
     file : Secret \union {"none", "blank"},
     host : SUBSET CmLines, agent : SUBSET CmLines, helper : BOOLEAN,
     old : SUBSET CmEntries, new : SUBSET (CmEntries \X {"old", "new"}),
     karch : SUBSET (CmEntries \X {"old", "new"}),
     oldRoot : {"none", "dir", "other"}, newRoot : BOOLEAN]

\* What a command keeps in memory.
CmShape(r) ==
    /\ r = [prog |-> r.prog, at |-> r.at, todo |-> r.todo, var |-> r.var,
            got |-> r.got, saw |-> r.saw, trouble |-> r.trouble, alone |-> r.alone]
    /\ r.prog \in CmPrograms /\ r.at \in CmStages /\ r.todo \subseteq EnvVar
    /\ r.trouble \in BOOLEAN /\ r.alone \in BOOLEAN

\* The content in hand is of the kind the next step writes.
CmFits(r) ==
    /\ r.at \in {"keyStore", "keyArchive", "keyRemove"} => r.var \in EnvVar
    /\ r.at \in {"keyStore", "keyArchive"} => r.got \subseteq Secret
    /\ r.at = "configStore" => r.got \subseteq EnvVar \X Secret
    /\ r.at = "cloudSave" => r.got \subseteq {"access", "recovery"} \X Secret
    /\ r.at = "httpsWrite" => r.got \subseteq CmLines /\ r.saw \subseteq CmLines

CmTypes ==
    /\ cmDisk \in CmDisks
    /\ cmRun = [p \in CmProc |-> cmRun[p]]
    /\ \A p \in CmProc : CmShape(cmRun[p]) /\ CmFits(cmRun[p])
    /\ cmQuiet \in [CmProc -> BOOLEAN]

\* Process p goes on to another step; what it has read may be dropped.
CmOnto(p, at, trouble) ==
    /\ cmRun'[p].prog = cmRun[p].prog /\ cmRun'[p].at = at
    /\ cmRun'[p].todo = cmRun[p].todo
    /\ at \notin Reading \union Settled =>
         /\ cmRun'[p].var = cmRun[p].var /\ cmRun'[p].got = cmRun[p].got
         /\ cmRun'[p].saw = cmRun[p].saw
    /\ cmRun'[p].trouble <=> cmRun[p].trouble \/ trouble
    /\ cmRun'[p].alone = cmRun[p].alone

\* The memory of the other processes is their own.
CmOthers(p) ==
    /\ cmRun' = [q \in CmProc |-> cmRun'[q]]
    /\ \A q \in CmProc \ {p} : cmRun'[q] = cmRun[q]

\* The step from one place to another, of the memory alone.
LEMMA CmAt ==
    ASSUME NEW r, CmShape(r), NEW at \in CmStages
    PROVE  /\ CmShape(At(r, at)) /\ At(r, at).at = at
           /\ At(r, at).prog = r.prog /\ At(r, at).todo = r.todo
           /\ At(r, at).trouble = r.trouble /\ At(r, at).alone = r.alone
           /\ at \notin Reading \union Settled =>
                At(r, at).var = r.var /\ At(r, at).got = r.got
                /\ At(r, at).saw = r.saw
BY DEF At, CmShape

\* A process moves on,
LEMMA CmGoes ==
    ASSUME CmTypes, NEW p \in CmProc, NEW at \in CmStages, Goes(p, at)
    PROVE  CmOnto(p, at, FALSE) /\ CmOthers(p) /\ CmShape(cmRun'[p])
<1>1. CmShape(cmRun[p])  BY DEF CmTypes
<1>2. cmRun'[p] = At(cmRun[p], at)  BY DEF Goes, CmTypes
<1>3. CmOthers(p)  BY DEF Goes, CmTypes, CmOthers
<1> QED  BY <1>1, <1>2, <1>3, CmAt DEF CmOnto

\* ... after an error,
LEMMA CmFails ==
    ASSUME CmTypes, NEW p \in CmProc, NEW at \in CmStages, Fails(p, at)
    PROVE  CmOnto(p, at, TRUE) /\ CmOthers(p) /\ CmShape(cmRun'[p])
           /\ cmDisk' = cmDisk
<1>1. CmShape(cmRun[p])  BY DEF CmTypes
<1>2. cmRun'[p] = [At(cmRun[p], at) EXCEPT !.trouble = TRUE]
  BY DEF Fails, CmTypes
<1>3. PICK a : a = At(cmRun[p], at)  OBVIOUS
<1>4. CmShape(a)  BY <1>1, <1>3, CmAt
<1>5. /\ CmShape(cmRun'[p]) /\ cmRun'[p].at = a.at /\ cmRun'[p].prog = a.prog
      /\ cmRun'[p].todo = a.todo /\ cmRun'[p].trouble
      /\ cmRun'[p].alone = a.alone /\ cmRun'[p].var = a.var
      /\ cmRun'[p].got = a.got /\ cmRun'[p].saw = a.saw
  BY <1>2, <1>3, <1>4 DEF CmShape
<1>6. CmOthers(p) /\ cmDisk' = cmDisk  BY DEF Fails, CmTypes, CmOthers
<1> QED  BY <1>1, <1>3, <1>5, <1>6, CmAt DEF CmOnto

\* ... or after a write that succeeds, fails or is cut short.
LEMMA CmWritten ==
    ASSUME CmTypes, NEW p \in CmProc, NEW next \in CmStages,
           NEW onError \in CmStages, NEW disk, NEW torn,
           CmWrites(p, next, disk, onError, torn)
    PROVE  /\ CmOthers(p) /\ CmShape(cmRun'[p])
           /\ \/ CmOnto(p, next, FALSE) /\ cmDisk' = disk
              \/ CmOnto(p, onError, TRUE) /\ cmDisk' = cmDisk
              \/ CmOnto(p, "crashed", FALSE) /\ cmDisk' = torn
<1>1. "crashed" \in CmStages  BY DEF CmStages
<1> QED  BY <1>1, CmGoes, CmFails DEF CmWrites, Dies

----------------------------------------------------------------------------
(* The invariant.                                                          *)

CmCloud == {"access", "recovery"}

\* The key the configuration has for a slot; a password stands in for a missing
\* recovery key.
CmKey(s) ==
    IF s = "access" THEN cmDisk.conf["access"]
    ELSE IF cmDisk.conf["recovery"] # "none" THEN cmDisk.conf["recovery"]
    ELSE cmDisk.conf["password"]

\* Migrations of the cloud keys put nothing but them in their slots, and there
\* are no key directories under a root that does not exist.
CmFiles ==
    /\ ~cmDisk.newRoot => cmDisk.new = {}
    /\ \A s \in CmCloud :
          CmKey(s) # "none" => cmDisk.store[s] \in {"none", "blank", CmKey(s)}

\* What holds of a command however others interfere.
CmHolds(p) ==
    LET r == cmRun[p]
    IN  /\ r.at = "cloudSave" =>
             \/ \A k \in r.got : k[2] = CmKey(k[1])
             \/ \A f \in Fields : cmDisk.conf[f] = "none"
        /\ r.at = "sshEntry" => cmDisk.newRoot
        /\ r.at \in {"ask", "configStore", "configRemove"} => r.prog = "config"
        /\ r.at \in {"session", "erased"} => r.prog = "launch"
        /\ r.alone => \A q \in CmProc \ {p} : cmRun[q].at = "idle"

\* What a command that nobody has interfered with knows of the files it is
\* about to empty.
CmKnows(p) ==
    LET r == cmRun[p]
    IN  /\ r.at = "keyStore" =>
             r.got = {cmDisk.export[r.var]} /\ ~CmPresent(cmDisk.store[r.var])
        /\ r.at = "keyArchive" => r.got = {cmDisk.export[r.var]}
        /\ r.at = "keyRemove" /\ CmPresent(cmDisk.export[r.var]) =>
             cmDisk.export[r.var] \in {cmDisk.store[r.var]} \union cmDisk.arch[r.var]
        /\ r.at = "httpsWrite" => r.got = cmDisk.agent /\ r.saw = cmDisk.host
        /\ r.at = "httpsRemove" => cmDisk.agent \subseteq cmDisk.host
        /\ r.at = "cloudSave" => \A k \in r.got : k[2] = CmKey(k[1])
        /\ r.at = "cloudSave" =>
             \A s \in CmCloud : CmKey(s) # "none" /\ <<s, CmKey(s)>> \notin r.got
                                  => cmDisk.store[s] = CmKey(s)
        /\ r.at = "cloudScrub" =>
             \A s \in CmCloud : CmKey(s) # "none" => cmDisk.store[s] = CmKey(s)
        /\ r.at = "cloudRemove" /\ CmPresent(cmDisk.file) =>
             cmDisk.file \in {cmDisk.store["secret"]} \union cmDisk.arch["secret"]

CmAfterKeys ==
    {"https", "httpsWrite", "httpsRemove", "helper", "cloud", "cloudSave",
     "cloudScrub", "cloudFile", "cloudRemove", "ssh", "sshEntry", "done"}
CmAfterHTTPS == CmAfterKeys \ {"https", "httpsWrite", "httpsRemove"}
CmAfterHelper == CmAfterHTTPS \ {"helper"}
CmAfterCloud == {"cloudFile", "cloudRemove", "ssh", "sshEntry", "done"}
CmAfterFile == {"ssh", "sshEntry", "done"}

\* What a migration that runs alone and without trouble has done so far.
CmDone(p) ==
    LET r == cmRun[p]
    IN  r.prog = "migrate" /\ r.alone /\ ~r.trouble =>
          /\ r.at = "keys" =>
               \A v \in EnvVar \ r.todo : cmDisk.export[v] = "none"
          /\ r.at \in {"keyStore", "keyArchive", "keyRemove"} =>
               \A v \in EnvVar \ (r.todo \union {r.var}) : cmDisk.export[v] = "none"
          /\ r.at \in CmAfterKeys => \A v \in EnvVar : cmDisk.export[v] = "none"
          /\ r.at \in CmAfterHTTPS => cmDisk.agent = {}
          /\ r.at \in CmAfterHelper => ~cmDisk.helper
          /\ r.at \in CmAfterCloud => \A f \in Fields : cmDisk.conf[f] = "none"
          /\ r.at \in CmAfterFile => cmDisk.file = "none"
          /\ r.at = "done" => cmDisk.oldRoot = "none"

CmInv ==
    /\ CmTypes /\ CmFiles
    /\ \A p \in CmProc :
          CmHolds(p) /\ CmDone(p) /\ (cmQuiet[p] => CmKnows(p))

\* What the invariant asks of the process that takes a step.
CmOwn(p) ==
    CmHolds(p) /\ CmDone(p) /\ (cmQuiet[p] => CmKnows(p))

CmQuietStep(p) ==
    cmQuiet' = [q \in CmProc |-> IF q = p THEN cmQuiet[q] \/ cmRun'[p].at \in Reading
                                 ELSE cmQuiet[q] /\ cmDisk' = cmDisk]

\* The key directory and the configuration only ever go one way.
CmOneWay ==
    /\ cmDisk.newRoot => cmDisk'.newRoot
    /\ \/ cmDisk'.conf = cmDisk.conf
       \/ \A f \in Fields : cmDisk'.conf[f] = "none"

\* The others have only to see the invariant kept for the process that moves.
LEMMA CmStepSafe ==
    ASSUME CmInv, NEW p \in CmProc, cmRun[p].at # "idle", CmOthers(p), CmQuietStep(p),
           CmShape(cmRun'[p]), CmFits(cmRun[p])', cmDisk' \in CmDisks,
           CmFiles', CmOneWay, CmOwn(p)'
    PROVE  CmInv'
<1>1. CmTypes'
  <2>1. cmQuiet' \in [CmProc -> BOOLEAN]
    BY DEF CmQuietStep, CmInv, CmTypes
  <2>2. \A q \in CmProc : CmShape(cmRun'[q])
    BY DEF CmInv, CmTypes, CmOthers
  <2>3. \A q \in CmProc : CmFits(cmRun'[q])
    BY DEF CmInv, CmTypes, CmOthers
  <2>4. cmRun' = [q \in CmProc |-> cmRun'[q]]  BY DEF CmOthers
  <2> QED  BY <2>1, <2>2, <2>3, <2>4 DEF CmTypes
<1>2. ASSUME NEW q \in CmProc, q # p
      PROVE  CmOwn(q)'
  <2>1. cmRun'[q] = cmRun[q]  BY <1>2 DEF CmOthers
  <2>2. ~cmRun[q].alone  BY <1>2 DEF CmInv, CmHolds
  <2>3. CmHolds(q)'
    <3>1. CASE cmDisk'.conf = cmDisk.conf
      <4>1. \A s : CmKey(s)' = CmKey(s)  BY <3>1 DEF CmKey
      <4> QED  BY <2>1, <2>2, <3>1, <4>1 DEF CmInv, CmHolds, CmOneWay
    <3>2. CASE \A f \in Fields : cmDisk'.conf[f] = "none"
      BY <2>1, <2>2, <3>2 DEF CmInv, CmHolds, CmOneWay
    <3> QED  BY <3>1, <3>2 DEF CmOneWay
  <2>4. CmDone(q)'  BY <2>1, <2>2 DEF CmDone
  <2>5. ASSUME cmQuiet'[q]  PROVE CmKnows(q)'
    <3>1. cmQuiet[q] /\ cmDisk' = cmDisk
      BY <1>2, <2>5 DEF CmQuietStep, CmInv, CmTypes
    <3>2. CmKnows(q)  BY <3>1 DEF CmInv
    <3> QED  BY <2>1, <3>1, <3>2 DEF CmKnows, CmKey
  <2> QED  BY <2>3, <2>4, <2>5 DEF CmOwn
<1>3. \A q \in CmProc : CmOwn(q)'  BY <1>2
<1> QED  BY <1>1, <1>3 DEF CmInv, CmOwn

\* Steps that need what they read no longer.
CmRests == {"keys", "https", "cloud", "cloudFile", "ssh", "helper", "done", "crashed"}

LEMMA CmRested ==
    ASSUME CmInv, NEW p \in CmProc, cmRun[p].at # "idle", CmOthers(p), CmQuietStep(p),
           NEW at \in CmRests, NEW trouble \in BOOLEAN, CmOnto(p, at, trouble),
           CmShape(cmRun'[p]), cmDisk' \in CmDisks, CmFiles', CmOneWay, CmDone(p)'
    PROVE  CmInv'
<1>1. CmFits(cmRun[p])'  BY DEF CmFits, CmOnto, CmRests
<1>2. CmHolds(p)'
  BY DEF CmHolds, CmOnto, CmRests, CmOthers, CmInv
<1>3. CmKnows(p)'  BY DEF CmKnows, CmOnto, CmRests
<1> QED  BY <1>1, <1>2, <1>3, CmStepSafe DEF CmOwn

\* A write leaves the invariant alone if what it does to the files does, and if
\* the step after a success knows what it has to.
LEMMA CmWrote ==
    ASSUME CmInv, NEW p \in CmProc, cmRun[p].at # "idle", CmQuietStep(p),
           NEW next \in CmStages, NEW onError \in CmRests, NEW disk, NEW torn,
           CmWrites(p, next, disk, onError, torn),
           cmDisk' \in {disk, cmDisk, torn} =>
             cmDisk' \in CmDisks /\ CmFiles' /\ CmOneWay,
           CmOnto(p, next, FALSE) /\ CmOthers(p) /\ cmDisk' = disk =>
             CmFits(cmRun[p])' /\ CmOwn(p)'
    PROVE  CmInv'
<1>1. onError \in CmStages  BY DEF CmRests, CmStages
<1>2. CmTypes  BY DEF CmInv
<1>3. /\ CmOthers(p) /\ CmShape(cmRun'[p])
      /\ \/ CmOnto(p, next, FALSE) /\ cmDisk' = disk
         \/ CmOnto(p, onError, TRUE) /\ cmDisk' = cmDisk
         \/ CmOnto(p, "crashed", FALSE) /\ cmDisk' = torn
  BY <1>1, <1>2, CmWritten
<1>4. cmDisk' \in CmDisks /\ CmFiles' /\ CmOneWay  BY <1>3
<1>5. CASE CmOnto(p, next, FALSE) /\ cmDisk' = disk
  BY <1>3, <1>4, <1>5, CmStepSafe
<1>6. CASE CmOnto(p, onError, TRUE) /\ cmDisk' = cmDisk
  <2>1. CmDone(p)'  BY <1>6 DEF CmDone, CmOnto
  <2> QED  BY <1>3, <1>4, <1>6, <2>1, CmRested
<1>7. CASE CmOnto(p, "crashed", FALSE) /\ cmDisk' = torn
  <2>1. CmDone(p)'
    BY <1>7 DEF CmDone, CmOnto, CmAfterKeys, CmAfterHTTPS, CmAfterHelper,
                CmAfterCloud, CmAfterFile
  <2>2. "crashed" \in CmRests  BY DEF CmRests
  <2> QED  BY <1>3, <1>4, <1>7, <2>1, <2>2, CmRested
<1> QED  BY <1>3, <1>5, <1>6, <1>7

\* An error, where nothing is written.
LEMMA CmFailed ==
    ASSUME CmInv, NEW p \in CmProc, cmRun[p].at # "idle", CmQuietStep(p),
           NEW at \in CmRests, Fails(p, at)
    PROVE  CmInv'
<1>1. at \in CmStages  BY DEF CmRests, CmStages
<1>2. CmOnto(p, at, TRUE) /\ CmOthers(p) /\ CmShape(cmRun'[p]) /\ cmDisk' = cmDisk
  BY <1>1, CmFails DEF CmInv
<1>3. CmDone(p)'  BY <1>2 DEF CmDone, CmOnto
<1>4. cmDisk' \in CmDisks /\ CmFiles' /\ CmOneWay
  BY <1>2 DEF CmInv, CmTypes, CmFiles, CmKey, CmOneWay
<1> QED  BY <1>2, <1>3, <1>4, CmRested

\* A step of the memory alone.
LEMMA CmMoved ==
    ASSUME CmInv, NEW p \in CmProc, cmRun[p].at # "idle", CmQuietStep(p),
           NEW at \in CmRests, Goes(p, at), UNCHANGED cmDisk,
           CmOnto(p, at, FALSE) => CmDone(p)'
    PROVE  CmInv'
<1>1. at \in CmStages  BY DEF CmRests, CmStages
<1>2. CmOnto(p, at, FALSE) /\ CmOthers(p) /\ CmShape(cmRun'[p])
  BY <1>1, CmGoes DEF CmInv
<1>3. cmDisk' \in CmDisks /\ CmFiles' /\ CmOneWay
  BY <1>2 DEF CmInv, CmTypes, CmFiles, CmKey, CmOneWay
<1> QED  BY <1>2, <1>3, CmRested

----------------------------------------------------------------------------
\* Provider API keys.

LEMMA CmStoreSafe ==
    ASSUME CmInv, NEW p \in CmProc, storeHostAPIKey(p), CmQuietStep(p)
    PROVE  CmInv'
<1>1. PICK value \in cmRun[p].got :
         CmWrites(p, "keyRemove", [cmDisk EXCEPT !.store[cmRun[p].var] = value],
                  "keys", [cmDisk EXCEPT !.store[cmRun[p].var] = "blank"])
  BY DEF storeHostAPIKey
<1>2. PICK v : v = cmRun[p].var  OBVIOUS
<1>3. v \in EnvVar /\ value \in Secret /\ cmRun[p].at = "keyStore"
  BY <1>2 DEF storeHostAPIKey, CmInv, CmTypes, CmFits
<1>4. ASSUME NEW x \in {value, "blank"}, cmDisk' = [cmDisk EXCEPT !.store[v] = x]
      PROVE  /\ cmDisk' \in CmDisks /\ CmFiles' /\ CmOneWay
             /\ cmDisk'.store[v] = x /\ cmDisk'.export = cmDisk.export
  <2>1. cmDisk' \in CmDisks /\ cmDisk'.store = [cmDisk.store EXCEPT ![v] = x]
        /\ cmDisk'.conf = cmDisk.conf /\ cmDisk'.new = cmDisk.new
        /\ cmDisk'.newRoot = cmDisk.newRoot /\ cmDisk'.export = cmDisk.export
    BY <1>3, <1>4 DEF CmInv, CmTypes, CmDisks, Slot, Secret
  <2>2. \A s \in CmCloud : cmDisk'.store[s] = cmDisk.store[s]
    BY <1>3, <2>1, CmAssumption DEF CmCloud, CmInv, CmTypes, CmDisks, Slot
  <2>3. CmFiles'  BY <2>1, <2>2 DEF CmInv, CmFiles, CmKey
  <2> QED  BY <1>3, <2>1, <2>3 DEF CmOneWay, CmInv, CmTypes, CmDisks, Slot
<1>5. cmDisk' = cmDisk => cmDisk' \in CmDisks /\ CmFiles' /\ CmOneWay
  BY DEF CmInv, CmTypes, CmFiles, CmKey, CmOneWay
<1>6. ASSUME CmOnto(p, "keyRemove", FALSE), CmOthers(p),
             cmDisk' = [cmDisk EXCEPT !.store[v] = value]
      PROVE  CmFits(cmRun[p])' /\ CmOwn(p)'
  <2>1. CmFits(cmRun[p])'
    BY <1>2, <1>3, <1>6 DEF CmFits, CmOnto, Reading, Settled
  <2>2. CmHolds(p)'
    BY <1>3, <1>6 DEF CmHolds, CmOnto, CmOthers, CmInv
  <2>3. CmDone(p)'
    BY <1>2, <1>3, <1>4, <1>6, ZenonT(40) DEF CmDone, CmOnto, CmInv, CmAfterKeys, CmAfterHTTPS,
       CmAfterHelper, CmAfterCloud, CmAfterFile, Reading, Settled
  <2>4. ASSUME cmQuiet'[p]  PROVE CmKnows(p)'
    <3>1. cmQuiet[p]
      BY <1>6, <2>4 DEF CmQuietStep, CmOnto, Reading, CmInv, CmTypes
    <3>2. value = cmDisk.export[v]
      BY <1>2, <1>3, <3>1 DEF CmInv, CmKnows
    <3> QED  BY <1>2, <1>3, <1>4, <1>6, <3>2 DEF CmKnows, CmOnto, Reading, Settled
  <2> QED  BY <2>1, <2>2, <2>3, <2>4 DEF CmOwn
<1>7. "keyRemove" \in CmStages /\ "keys" \in CmRests  BY DEF CmStages, CmRests
<1> QED  BY <1>1, <1>2, <1>3, <1>4, <1>5, <1>6, <1>7, CmWrote

\* A disk with another archive, or other lines, has the same keys in place.
LEMMA CmSameFiles ==
    ASSUME CmInv, cmDisk'.conf = cmDisk.conf, cmDisk'.store = cmDisk.store,
           cmDisk'.new = cmDisk.new, cmDisk'.newRoot = cmDisk.newRoot
    PROVE  CmFiles' /\ CmOneWay
BY DEF CmInv, CmFiles, CmKey, CmOneWay

LEMMA CmArchiveSafe ==
    ASSUME CmInv, NEW p \in CmProc, preserveSecretStoreConflict(p), CmQuietStep(p)
    PROVE  CmInv'
<1>1. PICK v : v = cmRun[p].var  OBVIOUS
<1>2. PICK got : got = cmRun[p].got  OBVIOUS
<1>3. PICK disk : disk = [cmDisk EXCEPT !.arch[v] = @ \union got]  OBVIOUS
<1>4. v \in EnvVar /\ got \subseteq Secret /\ cmRun[p].at = "keyArchive"
      /\ CmWrites(p, "keyRemove", disk, "keys", cmDisk)
  BY <1>1, <1>2, <1>3 DEF preserveSecretStoreConflict, CmInv, CmTypes, CmFits
<1>5. disk \in CmDisks /\ disk.arch[v] = cmDisk.arch[v] \union got
      /\ disk.conf = cmDisk.conf /\ disk.store = cmDisk.store /\ disk.new = cmDisk.new
      /\ disk.newRoot = cmDisk.newRoot /\ disk.export = cmDisk.export
  BY <1>3, <1>4 DEF CmInv, CmTypes, CmDisks, Slot
<1>6. cmDisk' \in {disk, cmDisk, cmDisk} => cmDisk' \in CmDisks /\ CmFiles' /\ CmOneWay
  BY <1>5, CmSameFiles DEF CmInv, CmTypes
<1>7. ASSUME CmOnto(p, "keyRemove", FALSE), CmOthers(p), cmDisk' = disk
      PROVE  CmFits(cmRun[p])' /\ CmOwn(p)'
  <2>1. CmFits(cmRun[p])'
    BY <1>1, <1>4, <1>7 DEF CmFits, CmOnto, Reading, Settled
  <2>2. CmHolds(p)'
    BY <1>4, <1>7 DEF CmHolds, CmOnto, CmOthers, CmInv
  <2>3. CmDone(p)'
    BY <1>1, <1>4, <1>5, <1>7 DEF CmDone, CmOnto, CmInv, CmAfterKeys, CmAfterHTTPS,
       CmAfterHelper, CmAfterCloud, CmAfterFile, Reading, Settled
  <2>4. ASSUME cmQuiet'[p]  PROVE CmKnows(p)'
    <3>1. cmQuiet[p]
      BY <1>7, <2>4 DEF CmQuietStep, CmOnto, Reading, CmInv, CmTypes
    <3>2. got = {cmDisk.export[v]}
      BY <1>1, <1>2, <1>4, <3>1 DEF CmInv, CmKnows
    <3> QED  BY <1>1, <1>4, <1>5, <1>7, <3>2 DEF CmKnows, CmOnto, Reading, Settled
  <2> QED  BY <2>1, <2>2, <2>3, <2>4 DEF CmOwn
<1>8. "keyRemove" \in CmStages /\ "keys" \in CmRests  BY DEF CmStages, CmRests
<1> QED  BY <1>4, <1>6, <1>7, <1>8, CmWrote

LEMMA CmExportSafe ==
    ASSUME CmInv, NEW p \in CmProc, removeLegacyAPIKeyExports(p), CmQuietStep(p)
    PROVE  CmInv'
<1>1. PICK v : v = cmRun[p].var  OBVIOUS
<1>2. PICK disk : disk = [cmDisk EXCEPT !.export[v] = "none"]  OBVIOUS
<1>3. PICK torn : torn = [cmDisk EXCEPT !.export = [w \in EnvVar |-> "none"]]  OBVIOUS
<1>4. v \in EnvVar /\ cmRun[p].at = "keyRemove"
      /\ CmWrites(p, "keys", disk, "keys", torn)
  BY <1>1, <1>2, <1>3 DEF removeLegacyAPIKeyExports, CmInv, CmTypes, CmFits
<1>5. disk \in CmDisks /\ disk.export = [cmDisk.export EXCEPT ![v] = "none"]
      /\ disk.conf = cmDisk.conf /\ disk.store = cmDisk.store /\ disk.new = cmDisk.new
      /\ disk.newRoot = cmDisk.newRoot
  BY <1>2, <1>4 DEF CmInv, CmTypes, CmDisks
<1>6. torn \in CmDisks
      /\ torn.conf = cmDisk.conf /\ torn.store = cmDisk.store /\ torn.new = cmDisk.new
      /\ torn.newRoot = cmDisk.newRoot
  BY <1>3 DEF CmInv, CmTypes, CmDisks
<1>7. cmDisk' \in {disk, cmDisk, torn} => cmDisk' \in CmDisks /\ CmFiles' /\ CmOneWay
  BY <1>5, <1>6, CmSameFiles DEF CmInv, CmTypes
<1>8. ASSUME CmOnto(p, "keys", FALSE), CmOthers(p), cmDisk' = disk
      PROVE  CmFits(cmRun[p])' /\ CmOwn(p)'
  <2>1. CmFits(cmRun[p])'  BY <1>8 DEF CmFits, CmOnto
  <2>2. CmHolds(p)'
    BY <1>4, <1>8 DEF CmHolds, CmOnto, CmOthers, CmInv
  <2>3. CmDone(p)'
    <3>1. \A w \in EnvVar : disk.export[w] = IF w = v THEN "none" ELSE cmDisk.export[w]
      BY <1>5 DEF CmInv, CmTypes, CmDisks
    <3> QED
      BY <1>1, <1>4, <3>1, <1>8 DEF CmDone, CmOnto, CmInv, CmAfterKeys, CmAfterHTTPS,
         CmAfterHelper, CmAfterCloud, CmAfterFile
  <2>4. CmKnows(p)'  BY <1>8 DEF CmKnows, CmOnto
  <2> QED  BY <2>1, <2>2, <2>3, <2>4 DEF CmOwn
<1>9. "keys" \in CmStages /\ "keys" \in CmRests  BY DEF CmStages, CmRests
<1> QED  BY <1>4, <1>7, <1>8, <1>9, CmWrote

\* What NextKey finds of a variable and does about it.
CmSkips(r, v) ==
    \/ cmDisk.export[v] = "none"
    \/ r.prog = "launch" /\ (CmPresent(cmDisk.store[v]) \/ cmDisk.export[v] = "bad")

CmNextAt(r, v) ==
    IF CmSkips(r, v) THEN "keys"
    ELSE IF cmDisk.export[v] = "bad" THEN "keys"
    ELSE IF ~CmPresent(cmDisk.store[v]) THEN "keyStore"
    ELSE IF cmDisk.store[v] = cmDisk.export[v] THEN "keyRemove" ELSE "keyArchive"

CmFound(r, v) ==
    [r EXCEPT !.todo = @ \ {v}, !.var = v, !.got = {cmDisk.export[v]},
              !.trouble = @ \/ (~CmSkips(r, v) /\ cmDisk.export[v] = "bad")]

LEMMA CmNextKeySafe ==
    ASSUME CmInv, NEW p \in CmProc, NextKey(p), CmQuietStep(p)
    PROVE  CmInv'
<1>1. cmRun[p].at = "keys" /\ cmDisk' = cmDisk  BY DEF NextKey
<1>2. CASE cmRun[p].todo = {}
  <2>1. Goes(p, "https")  BY <1>2 DEF NextKey
  <2>2. CmOnto(p, "https", FALSE) => CmDone(p)'
    BY <1>1, <1>2 DEF CmDone, CmOnto, CmInv, CmAfterKeys, CmAfterHTTPS,
         CmAfterHelper, CmAfterCloud, CmAfterFile
  <2> QED  BY <1>1, <2>1, <2>2, CmMoved DEF CmRests
<1>3. CASE cmRun[p].todo # {}
  <2>0. PICK r : r = cmRun[p]  OBVIOUS
  <2>1. PICK v \in cmRun[p].todo :
           cmRun' = [cmRun EXCEPT ![p] = At(CmFound(cmRun[p], v), CmNextAt(cmRun[p], v))]
    BY <1>3 DEF NextKey, CmSkips, CmNextAt, CmFound
  <2>14. PICK at : at = CmNextAt(r, v)  OBVIOUS
  <2>15. PICK mid : mid = CmFound(r, v)  OBVIOUS
  <2>2. CmShape(r) /\ r.todo \subseteq EnvVar /\ v \in EnvVar
    BY <2>0, <2>1 DEF CmInv, CmTypes, CmShape
  <2>3. CmShape(mid) /\ mid.todo = r.todo \ {v} /\ mid.var = v
        /\ mid.got = {cmDisk.export[v]} /\ mid.prog = r.prog /\ mid.alone = r.alone
        /\ (mid.trouble <=> r.trouble \/ (~CmSkips(r, v) /\ cmDisk.export[v] = "bad"))
    BY <2>15, <2>2 DEF CmShape, CmFound
  <2>4. at \in {"keys", "keyStore", "keyRemove", "keyArchive"}
    BY <2>14 DEF CmNextAt
  <2>5. at \in CmStages  BY <2>4 DEF CmStages
  <2>6. PICK e : e = At(mid, at)  OBVIOUS
  <2>7. CmShape(e) /\ e.at = at /\ e.prog = r.prog /\ e.todo = r.todo \ {v}
        /\ (e.trouble <=> mid.trouble) /\ e.alone = r.alone
        /\ (at # "keys" => e.var = v /\ e.got = {cmDisk.export[v]})
    BY <2>3, <2>4, <2>5, <2>6, CmAt DEF Reading, Settled
  <2>8. CmOthers(p) /\ cmRun'[p] = e
    BY <2>0, <2>1, <2>6, <2>14, <2>15 DEF CmInv, CmTypes, CmOthers
  <2>9. cmDisk.export[v] \in Secret \union {"none", "bad"}
    BY <2>2 DEF CmInv, CmTypes, CmDisks
  <2>10. CmFits(cmRun[p])'
    BY <2>14, <2>2, <2>4, <2>7, <2>8, <2>9 DEF CmFits, CmSkips, CmNextAt
  <2>11. CmHolds(p)'
    BY <1>1, <2>0, <2>4, <2>7, <2>8 DEF CmHolds, CmOthers, CmInv
  <2>12. CmDone(p)'
    <3>1. ASSUME e.prog = "migrate", e.alone, ~e.trouble
          PROVE  /\ \A w \in EnvVar \ r.todo : cmDisk.export[w] = "none"
                 /\ at = "keys" => cmDisk.export[v] = "none"
      BY <1>1, <2>0, <2>3, <2>7, <2>14, <3>1 DEF CmInv, CmDone, CmSkips, CmNextAt
    <3> QED
      BY <1>1, <2>1, <2>2, <2>4, <2>7, <2>8, <3>1 DEF CmDone, CmAfterKeys, CmAfterHTTPS,
         CmAfterHelper, CmAfterCloud, CmAfterFile
  <2>13. CmKnows(p)'
    BY <1>1, <2>4, <2>7, <2>8, <2>14 DEF CmKnows, CmNextAt, CmSkips
  <2> QED
    BY <1>1, <2>7, <2>8, <2>10, <2>11, <2>12, <2>13, CmStepSafe, CmSameFiles
    DEF CmOwn, CmInv, CmTypes
<1> QED  BY <1>2, <1>3

----------------------------------------------------------------------------
\* "hazmat config agent".

CmTyped(answer) == {v \in EnvVar : answer[v] # "none"}
CmSeen(answer) == CmTyped(answer) \union {v \in EnvVar : CmPresent(cmDisk.store[v])}
CmAnswers(answer) == {<<v, answer[v]>> : v \in CmTyped(answer)}

LEMMA CmAskSafe ==
    ASSUME CmInv, NEW p \in CmProc, CmAsk(p), CmQuietStep(p)
    PROVE  CmInv'
<1>1. cmRun[p].at = "ask" /\ cmDisk' = cmDisk  BY DEF CmAsk
<1>2. PICK answer \in [EnvVar -> Secret \union {"none"}] :
         cmRun' = [cmRun EXCEPT ![p] = [@ EXCEPT
               !.at = "configStore", !.todo = CmTyped(answer),
               !.got = CmAnswers(answer), !.saw = CmSeen(answer)]]
  BY DEF CmAsk, CmTyped, CmSeen, CmAnswers
<1>14. PICK typed : typed = CmTyped(answer)  OBVIOUS
<1>15. PICK saw : saw = CmSeen(answer)  OBVIOUS
<1>3. PICK got : got = CmAnswers(answer)  OBVIOUS
<1>4. got \subseteq EnvVar \X Secret
  <2> SUFFICES ASSUME NEW k \in got  PROVE k \in EnvVar \X Secret
    OBVIOUS
  <2>1. PICK v \in typed : k = <<v, answer[v]>>
    BY <1>3, <1>14 DEF CmAnswers
  <2>2. v \in EnvVar /\ answer[v] \in Secret  BY <1>2, <1>14 DEF CmTyped
  <2> QED  BY <2>1, <2>2
<1>5. PICK r : r = cmRun[p]  OBVIOUS
<1>6. CmShape(r) /\ typed \subseteq EnvVar
  BY <1>14, <1>5 DEF CmInv, CmTypes, CmTyped
<1>7. PICK e : e = [r EXCEPT !.at = "configStore", !.todo = typed, !.got = got, !.saw = saw]
  OBVIOUS
<1>8. CmShape(e) /\ e.at = "configStore" /\ e.got = got /\ e.prog = r.prog
      /\ e.alone = r.alone
  BY <1>6, <1>7 DEF CmShape, CmStages
<1>9. cmRun'[p] = e /\ CmOthers(p)
  BY <1>2, <1>3, <1>5, <1>7, <1>14, <1>15 DEF CmInv, CmTypes, CmOthers
<1>10. CmFits(cmRun[p])'  BY <1>4, <1>8, <1>9 DEF CmFits
<1>11. CmHolds(p)'
  BY <1>1, <1>5, <1>8, <1>9 DEF CmHolds, CmOthers, CmInv
<1>12. CmDone(p)'
  BY <1>1, <1>5, <1>8, <1>9 DEF CmDone, CmInv, CmHolds
<1>13. CmKnows(p)'  BY <1>8, <1>9 DEF CmKnows
<1> QED
  BY <1>1, <1>8, <1>9, <1>10, <1>11, <1>12, <1>13, CmStepSafe, CmSameFiles
  DEF CmOwn, CmInv, CmTypes

LEMMA CmAnswersSafe ==
    ASSUME CmInv, NEW p \in CmProc, StoreAnswers(p), CmQuietStep(p)
    PROVE  CmInv'
<1>1. cmRun[p].at = "configStore" /\ cmRun[p].prog = "config"
  BY DEF StoreAnswers, CmInv, CmHolds
<1>2. CASE Goes(p, "configRemove") /\ UNCHANGED cmDisk
  <2>1. "configRemove" \in CmStages  BY DEF CmStages
  <2>2. CmOnto(p, "configRemove", FALSE) /\ CmOthers(p) /\ CmShape(cmRun'[p])
    BY <1>2, <2>1, CmGoes DEF CmInv
  <2>3. CmFits(cmRun[p])'  BY <2>2 DEF CmFits, CmOnto
  <2>4. CmHolds(p)'  BY <1>1, <2>2 DEF CmHolds, CmOnto, CmOthers, CmInv
  <2>5. CmDone(p)' /\ CmKnows(p)'  BY <1>1, <2>2 DEF CmDone, CmKnows, CmOnto
  <2> QED
    BY <1>1, <1>2, <2>2, <2>3, <2>4, <2>5, CmStepSafe, CmSameFiles
    DEF CmOwn, CmInv, CmTypes
<1>3. ASSUME NEW answer \in cmRun[p].got, answer[1] \in cmRun[p].todo,
             NEW x \in {answer[2], "blank"},
             cmDisk' = [cmDisk EXCEPT !.store[answer[1]] = x]
      PROVE  cmDisk' \in CmDisks /\ CmFiles' /\ CmOneWay
  <2>0. PICK v : v = answer[1]  OBVIOUS
  <2>1. v \in EnvVar /\ x \in Secret \union {"blank"}
    BY <1>1, <1>3, <2>0 DEF CmInv, CmTypes, CmFits
  <2>2. cmDisk' \in CmDisks /\ cmDisk'.store = [cmDisk.store EXCEPT ![v] = x]
        /\ cmDisk'.conf = cmDisk.conf /\ cmDisk'.new = cmDisk.new
        /\ cmDisk'.newRoot = cmDisk.newRoot
    BY <2>0, <2>1, <1>3 DEF CmInv, CmTypes, CmDisks, Slot
  <2>3. \A s \in CmCloud : cmDisk'.store[s] = cmDisk.store[s]
    BY <2>1, <2>2, CmAssumption DEF CmCloud, CmInv, CmTypes, CmDisks, Slot
  <2>4. CmFiles'  BY <2>2, <2>3 DEF CmInv, CmFiles, CmKey
  <2> QED  BY <2>2, <2>4 DEF CmOneWay
<1>4. ASSUME NEW answer \in cmRun[p].got, answer[1] \in cmRun[p].todo,
             cmDisk' = [cmDisk EXCEPT !.store[answer[1]] = answer[2]],
             cmRun' = [cmRun EXCEPT ![p].todo = @ \ {answer[1]}]
      PROVE  CmInv'
  <2>1. PICK r : r = cmRun[p]  OBVIOUS
  <2>2. CmShape(r) /\ CmFits(r)  BY <2>1 DEF CmInv, CmTypes
  <2>3. PICK e : e = [r EXCEPT !.todo = @ \ {answer[1]}]  OBVIOUS
  <2>4. CmShape(e) /\ e.at = r.at /\ e.prog = r.prog /\ e.alone = r.alone /\ e.got = r.got
    BY <2>2, <2>3 DEF CmShape
  <2>5. cmRun'[p] = e /\ CmOthers(p)
    BY <1>4, <2>1, <2>3 DEF CmInv, CmTypes, CmOthers
  <2>6. CmFits(cmRun[p])'  BY <1>1, <2>1, <2>2, <2>4, <2>5 DEF CmFits
  <2>7. CmHolds(p)'  BY <1>1, <2>1, <2>4, <2>5 DEF CmHolds, CmOthers, CmInv
  <2>8. CmDone(p)' /\ CmKnows(p)'
    BY <1>1, <2>1, <2>4, <2>5 DEF CmDone, CmKnows
  <2>9. cmDisk' \in CmDisks /\ CmFiles' /\ CmOneWay  BY <1>3, <1>4
  <2> QED
    BY <1>1, <2>4, <2>5, <2>6, <2>7, <2>8, <2>9, CmStepSafe DEF CmOwn
<1>5. ASSUME NEW answer \in cmRun[p].got, answer[1] \in cmRun[p].todo,
             Dies(p, [cmDisk EXCEPT !.store[answer[1]] = "blank"])
      PROVE  CmInv'
  <2>1. cmDisk' \in CmDisks /\ CmFiles' /\ CmOneWay  BY <1>3, <1>5 DEF Dies
  <2>2. "crashed" \in CmRests /\ "crashed" \in CmStages  BY DEF CmRests, CmStages
  <2>3. CmOnto(p, "crashed", FALSE) /\ CmOthers(p) /\ CmShape(cmRun'[p])
    BY <1>5, <2>2, CmGoes DEF CmInv, Dies
  <2>4. CmDone(p)'  BY <1>1, <2>3 DEF CmDone, CmOnto
  <2> QED  BY <1>1, <2>1, <2>2, <2>3, <2>4, CmRested
<1>6. ASSUME Fails(p, "done")  PROVE CmInv'
  BY <1>1, <1>6, CmFailed DEF CmRests
<1> QED  BY <1>2, <1>4, <1>5, <1>6 DEF StoreAnswers

LEMMA CmExportsSafe ==
    ASSUME CmInv, NEW p \in CmProc, RemoveExports(p), CmQuietStep(p)
    PROVE  CmInv'
<1>1. PICK saw : saw = cmRun[p].saw  OBVIOUS
<1>2. PICK disk : disk = [cmDisk EXCEPT !.export = [v \in EnvVar |->
                                                 IF v \in saw THEN "none" ELSE @[v]]]
  OBVIOUS
<1>3. PICK torn : torn = [cmDisk EXCEPT !.export = [w \in EnvVar |-> "none"]]  OBVIOUS
<1>4. cmRun[p].at = "configRemove" /\ cmRun[p].prog = "config"
      /\ CmWrites(p, "helper", disk, "done", torn)
  BY <1>1, <1>2, <1>3 DEF RemoveExports, CmInv, CmHolds
<1>5. PICK kept : kept = [v \in EnvVar |-> IF v \in saw THEN "none" ELSE cmDisk.export[v]]
  OBVIOUS
<1>6. kept \in [EnvVar -> Secret \union {"none", "bad"}]
  BY <1>5 DEF CmInv, CmTypes, CmDisks
<1>7. disk = [cmDisk EXCEPT !.export = kept]  BY <1>2, <1>5
<1>8. disk \in CmDisks
      /\ disk.conf = cmDisk.conf /\ disk.store = cmDisk.store /\ disk.new = cmDisk.new
      /\ disk.newRoot = cmDisk.newRoot
  BY <1>6, <1>7 DEF CmInv, CmTypes, CmDisks
<1>9. torn \in CmDisks
      /\ torn.conf = cmDisk.conf /\ torn.store = cmDisk.store /\ torn.new = cmDisk.new
      /\ torn.newRoot = cmDisk.newRoot
  BY <1>3 DEF CmInv, CmTypes, CmDisks
<1>10. cmDisk' \in {disk, cmDisk, torn} => cmDisk' \in CmDisks /\ CmFiles' /\ CmOneWay
  BY <1>8, <1>9, CmSameFiles DEF CmInv, CmTypes
<1>11. ASSUME CmOnto(p, "helper", FALSE), CmOthers(p), cmDisk' = disk
       PROVE  CmFits(cmRun[p])' /\ CmOwn(p)'
  <2>1. CmFits(cmRun[p])'  BY <1>11 DEF CmFits, CmOnto
  <2>2. CmHolds(p)'  BY <1>4, <1>11 DEF CmHolds, CmOnto, CmOthers, CmInv
  <2>3. CmDone(p)' /\ CmKnows(p)'  BY <1>4, <1>11 DEF CmDone, CmKnows, CmOnto
  <2> QED  BY <2>1, <2>2, <2>3 DEF CmOwn
<1>12. "helper" \in CmStages /\ "done" \in CmRests  BY DEF CmStages, CmRests
<1> QED  BY <1>4, <1>10, <1>11, <1>12, CmWrote

----------------------------------------------------------------------------
\* Git HTTPS.

\* A read, of the memory alone.
LEMMA CmReads ==
    ASSUME CmTypes, NEW p \in CmProc, NEW at \in CmStages, NEW got, NEW saw,
           Reads(p, at, got, saw)
    PROVE  /\ CmOthers(p) /\ CmShape(cmRun'[p])
           /\ cmRun'[p].at = at /\ cmRun'[p].got = got /\ cmRun'[p].saw = saw
           /\ cmRun'[p].prog = cmRun[p].prog /\ cmRun'[p].alone = cmRun[p].alone
           /\ cmRun'[p].trouble = cmRun[p].trouble
<1>1. PICK r : r = cmRun[p]  OBVIOUS
<1>2. CmShape(r)  BY <1>1 DEF CmTypes
<1>3. PICK e : e = [r EXCEPT !.at = at, !.got = got, !.saw = saw]  OBVIOUS
<1>4. CmShape(e) /\ e.at = at /\ e.got = got /\ e.saw = saw /\ e.prog = r.prog
      /\ e.alone = r.alone /\ e.trouble = r.trouble
  BY <1>2, <1>3 DEF CmShape
<1>5. cmRun'[p] = e /\ CmOthers(p)
  BY <1>1, <1>3 DEF Reads, CmTypes, CmOthers
<1> QED  BY <1>1, <1>4, <1>5

LEMMA CmHTTPSReadSafe ==
    ASSUME CmInv, NEW p \in CmProc, ReadHTTPS(p), CmQuietStep(p)
    PROVE  CmInv'
<1>1. cmRun[p].at = "https" /\ cmDisk' = cmDisk  BY DEF ReadHTTPS
<1>2. CASE cmDisk.agent = {}
  <2>1. CASE cmRun[p].prog = "launch"
    <3>0. "session" \in CmStages  BY DEF CmStages
    <3>1. Goes(p, "session")  BY <1>2, <2>1 DEF ReadHTTPS, AfterHTTPS
    <3>2. CmOnto(p, "session", FALSE) /\ CmOthers(p) /\ CmShape(cmRun'[p])
      BY <3>0, <3>1, CmGoes DEF CmInv
    <3>3. CmFits(cmRun[p])' /\ CmKnows(p)'  BY <3>2 DEF CmFits, CmKnows, CmOnto
    <3>4. CmHolds(p)'  BY <1>1, <2>1, <3>2 DEF CmHolds, CmOnto, CmOthers, CmInv
    <3>5. CmDone(p)'  BY <2>1, <3>2 DEF CmDone, CmOnto
    <3> QED
      BY <1>1, <3>2, <3>3, <3>4, <3>5, CmStepSafe, CmSameFiles DEF CmOwn, CmInv, CmTypes
  <2>2. CASE cmRun[p].prog # "launch"
    <3>1. Goes(p, "helper")  BY <1>2, <2>2 DEF ReadHTTPS, AfterHTTPS
    <3>2. CmOnto(p, "helper", FALSE) => CmDone(p)'
      BY <1>1, <1>2 DEF CmDone, CmOnto, CmInv, CmAfterKeys, CmAfterHTTPS,
         CmAfterHelper, CmAfterCloud, CmAfterFile
    <3> QED  BY <1>1, <3>1, <3>2, CmMoved DEF CmRests
  <2> QED  BY <2>1, <2>2
<1>3. CASE cmDisk.agent # {}
  <2>1. PICK at : at = IF cmDisk.agent \subseteq cmDisk.host THEN "httpsRemove"
                       ELSE "httpsWrite"
    OBVIOUS
  <2>2. at \in CmStages /\ Reads(p, at, cmDisk.agent, cmDisk.host)
    BY <1>3, <2>1 DEF ReadHTTPS, CmStages
  <2>3. /\ CmOthers(p) /\ CmShape(cmRun'[p])
        /\ cmRun'[p].at = at /\ cmRun'[p].got = cmDisk.agent
        /\ cmRun'[p].saw = cmDisk.host
        /\ cmRun'[p].prog = cmRun[p].prog /\ cmRun'[p].alone = cmRun[p].alone
        /\ cmRun'[p].trouble = cmRun[p].trouble
    BY <2>2, CmReads DEF CmInv
  <2>4. CmFits(cmRun[p])'
    BY <2>1, <2>3 DEF CmFits, CmInv, CmTypes, CmDisks
  <2>5. CmHolds(p)'  BY <1>1, <2>1, <2>3 DEF CmHolds, CmOthers, CmInv
  <2>6. CmDone(p)'
    BY <1>1, <2>1, <2>3 DEF CmDone, CmInv, CmAfterKeys, CmAfterHTTPS,
       CmAfterHelper, CmAfterCloud, CmAfterFile
  <2>7. CmKnows(p)'  BY <1>1, <2>1, <2>3 DEF CmKnows
  <2> QED
    BY <1>1, <2>3, <2>4, <2>5, <2>6, <2>7, CmStepSafe, CmSameFiles
    DEF CmOwn, CmInv, CmTypes
<1> QED  BY <1>2, <1>3

LEMMA CmMergeSafe ==
    ASSUME CmInv, NEW p \in CmProc, mergeGitCredentialStoreLines(p), CmQuietStep(p)
    PROVE  CmInv'
<1>1. PICK lines : lines = cmRun[p].saw \union cmRun[p].got  OBVIOUS
<1>2. PICK disk : disk = [cmDisk EXCEPT !.host = lines]  OBVIOUS
<1>3. PICK torn : torn = [cmDisk EXCEPT !.host = {}]  OBVIOUS
<1>4. PICK err : err = HTTPSError(p)  OBVIOUS
<1>5. cmRun[p].at = "httpsWrite" /\ CmWrites(p, "httpsRemove", disk, err, torn)
      /\ lines \subseteq CmLines
  BY <1>1, <1>2, <1>3, <1>4 DEF mergeGitCredentialStoreLines, CmInv, CmTypes, CmFits
<1>6. disk \in CmDisks /\ disk.host = lines
      /\ disk.conf = cmDisk.conf /\ disk.store = cmDisk.store /\ disk.new = cmDisk.new
      /\ disk.newRoot = cmDisk.newRoot /\ disk.export = cmDisk.export
      /\ disk.agent = cmDisk.agent
  BY <1>2, <1>5 DEF CmInv, CmTypes, CmDisks
<1>7. torn \in CmDisks
      /\ torn.conf = cmDisk.conf /\ torn.store = cmDisk.store /\ torn.new = cmDisk.new
      /\ torn.newRoot = cmDisk.newRoot
  BY <1>3 DEF CmInv, CmTypes, CmDisks
<1>8. cmDisk' \in {disk, cmDisk, torn} => cmDisk' \in CmDisks /\ CmFiles' /\ CmOneWay
  BY <1>6, <1>7, CmSameFiles DEF CmInv, CmTypes
<1>9. ASSUME CmOnto(p, "httpsRemove", FALSE), CmOthers(p), cmDisk' = disk
      PROVE  CmFits(cmRun[p])' /\ CmOwn(p)'
  <2>1. CmFits(cmRun[p])'  BY <1>9 DEF CmFits, CmOnto
  <2>2. CmHolds(p)'  BY <1>5, <1>9 DEF CmHolds, CmOnto, CmOthers, CmInv
  <2>3. CmDone(p)'
    BY <1>5, <1>6, <1>9 DEF CmDone, CmOnto, CmInv, CmAfterKeys, CmAfterHTTPS,
       CmAfterHelper, CmAfterCloud, CmAfterFile
  <2>4. ASSUME cmQuiet'[p]  PROVE CmKnows(p)'
    <3>1. cmQuiet[p]
      BY <1>9, <2>4 DEF CmQuietStep, CmOnto, Reading, CmInv, CmTypes
    <3>2. cmRun[p].got = cmDisk.agent  BY <1>5, <3>1 DEF CmInv, CmKnows
    <3> QED  BY <1>1, <1>6, <1>9, <3>2 DEF CmKnows, CmOnto
  <2> QED  BY <2>1, <2>2, <2>3, <2>4 DEF CmOwn
<1>10. "httpsRemove" \in CmStages /\ err \in CmRests
  BY <1>4 DEF CmStages, CmRests, HTTPSError
<1> QED  BY <1>5, <1>8, <1>9, <1>10, CmWrote

LEMMA CmLinesSafe ==
    ASSUME CmInv, NEW p \in CmProc, RemoveHTTPS(p), CmQuietStep(p)
    PROVE  CmInv'
<1>1. PICK disk : disk = [cmDisk EXCEPT !.agent = {}]  OBVIOUS
<1>2. PICK next : next = AfterHTTPS(p)  OBVIOUS
<1>3. PICK err : err = HTTPSError(p)  OBVIOUS
<1>4. cmRun[p].at = "httpsRemove" /\ CmWrites(p, next, disk, err, cmDisk)
  BY <1>1, <1>2, <1>3 DEF RemoveHTTPS
<1>5. disk \in CmDisks /\ disk.agent = {}
      /\ disk.conf = cmDisk.conf /\ disk.store = cmDisk.store /\ disk.new = cmDisk.new
      /\ disk.newRoot = cmDisk.newRoot /\ disk.export = cmDisk.export
  BY <1>1 DEF CmInv, CmTypes, CmDisks
<1>6. cmDisk' \in {disk, cmDisk, cmDisk} => cmDisk' \in CmDisks /\ CmFiles' /\ CmOneWay
  BY <1>5, CmSameFiles DEF CmInv, CmTypes
<1>7. /\ next \in {"session", "helper"} /\ err \in CmRests /\ next \in CmStages
      /\ next = "session" => cmRun[p].prog = "launch"
  BY <1>2, <1>3 DEF AfterHTTPS, HTTPSError, CmRests, CmStages
<1>8. ASSUME CmOnto(p, next, FALSE), CmOthers(p), cmDisk' = disk
      PROVE  CmFits(cmRun[p])' /\ CmOwn(p)'
  <2>1. CmFits(cmRun[p])'  BY <1>7, <1>8 DEF CmFits, CmOnto
  <2>2. CmHolds(p)'  BY <1>4, <1>7, <1>8 DEF CmHolds, CmOnto, CmOthers, CmInv
  <2>3. CmDone(p)'
    BY <1>4, <1>5, <1>7, <1>8 DEF CmDone, CmOnto, CmInv, CmAfterKeys, CmAfterHTTPS,
       CmAfterHelper, CmAfterCloud, CmAfterFile
  <2>4. CmKnows(p)'  BY <1>7, <1>8 DEF CmKnows, CmOnto
  <2> QED  BY <2>1, <2>2, <2>3, <2>4 DEF CmOwn
<1> QED  BY <1>4, <1>6, <1>7, <1>8, CmWrote

LEMMA CmHelperSafe ==
    ASSUME CmInv, NEW p \in CmProc, RemoveHelper(p), CmQuietStep(p)
    PROVE  CmInv'
<1>1. PICK disk : disk = [cmDisk EXCEPT !.helper = FALSE]  OBVIOUS
<1>2. PICK next : next = IF cmRun[p].prog = "config" THEN "done" ELSE "cloud"  OBVIOUS
<1>3. cmRun[p].at = "helper"
      /\ \/ ~cmDisk.helper /\ Goes(p, next) /\ UNCHANGED cmDisk
         \/ CmWrites(p, next, disk, next, disk)
  BY <1>1, <1>2 DEF RemoveHelper
<1>4. disk \in CmDisks /\ ~disk.helper
      /\ disk.conf = cmDisk.conf /\ disk.store = cmDisk.store /\ disk.new = cmDisk.new
      /\ disk.newRoot = cmDisk.newRoot /\ disk.export = cmDisk.export
      /\ disk.agent = cmDisk.agent
  BY <1>1 DEF CmInv, CmTypes, CmDisks
<1>5. cmDisk' \in {disk, cmDisk, disk} => cmDisk' \in CmDisks /\ CmFiles' /\ CmOneWay
  BY <1>4, CmSameFiles DEF CmInv, CmTypes
<1>6. /\ next \in {"done", "cloud"} /\ next \in CmRests /\ next \in CmStages
      /\ next = "done" => cmRun[p].prog = "config"
  BY <1>2 DEF CmRests, CmStages
<1>7. ASSUME CmOnto(p, next, FALSE),
             cmDisk' = disk \/ (~cmDisk.helper /\ cmDisk' = cmDisk)
      PROVE  CmDone(p)'
  BY <1>3, <1>4, <1>6, <1>7, ZenonT(40) DEF CmDone, CmOnto, CmInv, CmAfterKeys, CmAfterHTTPS,
     CmAfterHelper, CmAfterCloud, CmAfterFile
<1>8. CASE ~cmDisk.helper /\ Goes(p, next) /\ UNCHANGED cmDisk
  BY <1>3, <1>6, <1>7, <1>8, CmMoved
<1>9. CASE CmWrites(p, next, disk, next, disk)
  <2>1. ASSUME CmOnto(p, next, FALSE), CmOthers(p), cmDisk' = disk
        PROVE  CmFits(cmRun[p])' /\ CmOwn(p)'
    <3>1. CmFits(cmRun[p])'  BY <1>6, <2>1 DEF CmFits, CmOnto
    <3>2. CmHolds(p)'  BY <1>3, <1>6, <2>1 DEF CmHolds, CmOnto, CmOthers, CmInv
    <3>3. CmDone(p)'  BY <1>7, <2>1
    <3>4. CmKnows(p)'  BY <1>6, <2>1 DEF CmKnows, CmOnto
    <3> QED  BY <3>1, <3>2, <3>3, <3>4 DEF CmOwn
  <2> QED  BY <1>3, <1>5, <1>6, <1>9, <2>1, CmWrote
<1> QED  BY <1>3, <1>8, <1>9

LEMMA CmBrokerSafe ==
    ASSUME CmInv, NEW p \in CmProc, runGitHTTPSCredentialStore(p), CmQuietStep(p)
    PROVE  CmInv'
<1>1. cmRun[p].at = "session" /\ cmRun[p].prog = "launch"
  BY DEF runGitHTTPSCredentialStore, CmInv, CmHolds
<1>2. PICK lines \in SUBSET CmLines : cmDisk' = [cmDisk EXCEPT !.host = lines]
  BY DEF runGitHTTPSCredentialStore, CmInv, CmTypes, CmDisks, CmLines
<1>3. cmDisk' \in CmDisks
      /\ cmDisk'.conf = cmDisk.conf /\ cmDisk'.store = cmDisk.store
      /\ cmDisk'.new = cmDisk.new /\ cmDisk'.newRoot = cmDisk.newRoot
  BY <1>2 DEF CmInv, CmTypes, CmDisks
<1>4. /\ CmOthers(p) /\ CmShape(cmRun'[p]) /\ cmRun'[p].prog = cmRun[p].prog
      /\ cmRun'[p].at \in {"session", "erased"} /\ cmRun'[p].alone = cmRun[p].alone
  <2>1. CASE cmRun' = cmRun  BY <1>1, <2>1 DEF CmInv, CmTypes, CmOthers
  <2>2. CASE Goes(p, "erased")
    <3>1. "erased" \in CmStages  BY DEF CmStages
    <3> QED  BY <2>2, <3>1, CmGoes DEF CmInv, CmOnto
  <2> QED  BY <2>1, <2>2 DEF runGitHTTPSCredentialStore
<1>5. CmFits(cmRun[p])' /\ CmKnows(p)'  BY <1>4 DEF CmFits, CmKnows
<1>6. CmHolds(p)'  BY <1>1, <1>4 DEF CmHolds, CmOthers, CmInv
<1>7. CmDone(p)'  BY <1>1, <1>4 DEF CmDone
<1> QED
  BY <1>1, <1>3, <1>4, <1>5, <1>6, <1>7, CmStepSafe, CmSameFiles DEF CmOwn

LEMMA CmEndSafe ==
    ASSUME CmInv, NEW p \in CmProc, CmEndSession(p), CmQuietStep(p)
    PROVE  CmInv'
<1>1. cmRun[p].at \in {"session", "erased"} /\ cmRun[p].prog = "launch" /\ cmDisk' = cmDisk
  BY DEF CmEndSession, CmInv, CmHolds
<1>2. PICK at \in {"done", "session"} : Goes(p, at)  BY DEF CmEndSession
<1>3. at \in CmStages  BY DEF CmStages
<1>4. CmOnto(p, at, FALSE) /\ CmOthers(p) /\ CmShape(cmRun'[p])
  BY <1>2, <1>3, CmGoes DEF CmInv
<1>5. CmFits(cmRun[p])' /\ CmKnows(p)'  BY <1>4 DEF CmFits, CmKnows, CmOnto
<1>6. CmHolds(p)'  BY <1>1, <1>4 DEF CmHolds, CmOnto, CmOthers, CmInv
<1>7. CmDone(p)'  BY <1>1, <1>4 DEF CmDone, CmOnto
<1> QED
  BY <1>1, <1>4, <1>5, <1>6, <1>7, CmStepSafe, CmSameFiles DEF CmOwn, CmInv, CmTypes

LEMMA CmFinishSafe ==
    ASSUME CmInv, NEW p \in CmProc, Finish(p), CmQuietStep(p)
    PROVE  CmInv'
<1>1. cmRun[p].at \in {"done", "crashed"} /\ cmDisk' = cmDisk  BY DEF Finish
<1>2. cmRun'[p] = Idle /\ CmOthers(p)  BY DEF Finish, CmInv, CmTypes, CmOthers
<1>3. CmShape(Idle) /\ CmFits(Idle) /\ Idle.prog = "none" /\ Idle.at = "idle" /\ ~Idle.alone
  BY DEF Idle, CmShape, CmFits, CmPrograms, CmStages
<1>4. CmOwn(p)'  BY <1>2, <1>3 DEF CmOwn, CmHolds, CmDone, CmKnows
<1>5. CmFits(cmRun'[p])  BY <1>2, <1>3
<1> QED
  BY <1>1, <1>2, <1>3, <1>4, <1>5, CmStepSafe, CmSameFiles DEF CmInv, CmTypes

----------------------------------------------------------------------------
\* Cloud backup.

LEMMA CmConfigSafe ==
    ASSUME CmInv, NEW p \in CmProc, ReadConfig(p), CmQuietStep(p)
    PROVE  CmInv'
<1>1. PICK at : at = IF CloudKeys = {} THEN "cloudFile" ELSE "cloudSave"  OBVIOUS
<1>2. PICK keys : keys = CloudKeys  OBVIOUS
<1>3. cmRun[p].at = "cloud" /\ cmDisk' = cmDisk /\ Reads(p, at, keys, {})
  BY <1>1, <1>2 DEF ReadConfig
<1>4. at \in CmStages  BY <1>1 DEF CmStages
<1>5. /\ CmOthers(p) /\ CmShape(cmRun'[p])
      /\ cmRun'[p].at = at /\ cmRun'[p].got = keys
      /\ cmRun'[p].prog = cmRun[p].prog /\ cmRun'[p].alone = cmRun[p].alone
      /\ cmRun'[p].trouble = cmRun[p].trouble
  BY <1>3, <1>4, CmReads DEF CmInv
<1>6. \A k : k \in keys <=> \/ k = <<"access", CmKey("access")>> /\ CmKey("access") # "none"
                            \/ k = <<"recovery", CmKey("recovery")>>
                               /\ CmKey("recovery") # "none"
  <2>1. \A k : k \in CloudKeys <=>
           \/ k = <<"access", cmDisk.conf["access"]>> /\ k[2] # "none"
           \/ k = <<"recovery", cmDisk.conf[IF cmDisk.conf["recovery"] # "none"
                                            THEN "recovery" ELSE "password"]>>
              /\ k[2] # "none"
    BY DEF CloudKeys
  <2> QED  BY <1>2, <2>1 DEF CmKey
<1>7. \A s \in CmCloud : CmKey(s) \in Secret \union {"none"}
  BY DEF CmKey, CmCloud, CmInv, CmTypes, CmDisks, Fields
<1>8. \A k \in keys : k \in CmCloud \X Secret /\ k[2] = CmKey(k[1])
  BY <1>6, <1>7 DEF CmCloud
<1>9. CmFits(cmRun[p])'  BY <1>1, <1>5, <1>8 DEF CmFits, CmCloud
<1>10. \A s : CmKey(s)' = CmKey(s)  BY <1>3 DEF CmKey
<1>11. CmHolds(p)'
  BY <1>1, <1>3, <1>5, <1>8, <1>10 DEF CmHolds, CmOthers, CmInv
<1>12. CmKnows(p)'
  <2>1. \A s \in CmCloud : CmKey(s) # "none" => <<s, CmKey(s)>> \in keys
    BY <1>6 DEF CmCloud
  <2> QED  BY <1>1, <1>5, <1>8, <1>10, <2>1 DEF CmKnows
<1>13. CmDone(p)'
  <2>1. at = "cloudFile" => \A f \in Fields : cmDisk.conf[f] = "none"
    <3>1. at = "cloudFile" => CmKey("access") = "none" /\ CmKey("recovery") = "none"
      BY <1>1, <1>2, <1>6
    <3> QED  BY <3>1 DEF CmKey, Fields
  <2> QED
    BY <1>1, <1>3, <1>5, <2>1 DEF CmDone, CmInv, CmAfterKeys, CmAfterHTTPS,
       CmAfterHelper, CmAfterCloud, CmAfterFile
<1> QED
  BY <1>3, <1>5, <1>9, <1>11, <1>12, <1>13, CmStepSafe, CmSameFiles
  DEF CmOwn, CmInv, CmTypes

\* What saving a cloud key does to the files.
LEMMA CmKeyStored ==
    ASSUME CmInv, NEW p \in CmProc, cmRun[p].at = "cloudSave", NEW k \in cmRun[p].got,
           NEW x \in {k[2], "blank"}, cmDisk' = [cmDisk EXCEPT !.store[k[1]] = x]
    PROVE  /\ cmDisk' \in CmDisks /\ CmFiles' /\ CmOneWay
           /\ cmDisk'.store = [cmDisk.store EXCEPT ![k[1]] = x]
           /\ cmDisk' = [cmDisk EXCEPT !.store = cmDisk'.store]
<1>1. PICK s, y : s = k[1] /\ y = k[2]  OBVIOUS
<1>2. s \in CmCloud /\ y \in Secret  BY <1>1 DEF CmInv, CmTypes, CmFits, CmCloud
<1>3. s \in Slot  BY <1>2 DEF CmCloud, Slot
<1>4. cmDisk' \in CmDisks /\ cmDisk'.store = [cmDisk.store EXCEPT ![s] = x]
      /\ cmDisk'.conf = cmDisk.conf /\ cmDisk'.new = cmDisk.new
      /\ cmDisk'.newRoot = cmDisk.newRoot /\ cmDisk' = [cmDisk EXCEPT !.store = cmDisk'.store]
  BY <1>1, <1>2, <1>3 DEF CmInv, CmTypes, CmDisks
<1>5. \A t : CmKey(t)' = CmKey(t)  BY <1>4 DEF CmKey
<1>6. \/ y = CmKey(s)
      \/ CmKey(s) = "none"
  BY <1>1, <1>2 DEF CmInv, CmHolds, CmKey, CmCloud, Fields
<1>7. ASSUME NEW t \in CmCloud, CmKey(t) # "none"
      PROVE  cmDisk'.store[t] \in {"none", "blank", CmKey(t)}
  <2>1. t \in Slot  BY DEF CmCloud, Slot
  <2>2. cmDisk'.store[t] = IF t = s THEN x ELSE cmDisk.store[t]
    BY <1>4, <2>1 DEF CmInv, CmTypes, CmDisks
  <2>3. cmDisk.store[t] \in {"none", "blank", CmKey(t)}  BY <1>7 DEF CmInv, CmFiles
  <2> QED  BY <1>1, <1>6, <1>7, <2>2, <2>3
<1>8. CmFiles'
  <2>1. ~cmDisk'.newRoot => cmDisk'.new = {}  BY <1>4 DEF CmInv, CmFiles
  <2> QED  BY <1>5, <1>7, <2>1 DEF CmFiles
<1> QED  BY <1>1, <1>4, <1>8 DEF CmOneWay

LEMMA CmCloudSafe ==
    ASSUME CmInv, NEW p \in CmProc, saveCloudStoredCredential(p), CmQuietStep(p)
    PROVE  CmInv'
<1>1. cmRun[p].at = "cloudSave"  BY DEF saveCloudStoredCredential
<1>2. PICK k \in cmRun[p].got :
         \/ /\ cmDisk' = [cmDisk EXCEPT !.store[k[1]] = k[2]]
            /\ cmRun' = [cmRun EXCEPT ![p].got = @ \ {k},
                           ![p].at = IF cmRun[p].got = {k} THEN "cloudScrub" ELSE @]
         \/ Fails(p, "cloudFile")
         \/ Dies(p, [cmDisk EXCEPT !.store[k[1]] = "blank"])
  BY DEF saveCloudStoredCredential
<1>3. CASE Fails(p, "cloudFile")  BY <1>1, <1>3, CmFailed DEF CmRests
<1>4. CASE Dies(p, [cmDisk EXCEPT !.store[k[1]] = "blank"])
  <2>1. cmDisk' \in CmDisks /\ CmFiles' /\ CmOneWay
    BY <1>1, <1>4, CmKeyStored DEF Dies
  <2>2. "crashed" \in CmRests /\ "crashed" \in CmStages  BY DEF CmRests, CmStages
  <2>3. CmOnto(p, "crashed", FALSE) /\ CmOthers(p) /\ CmShape(cmRun'[p])
    BY <1>4, <2>2, CmGoes DEF CmInv, Dies
  <2>4. CmDone(p)'
    BY <2>3 DEF CmDone, CmOnto, CmAfterKeys, CmAfterHTTPS,
       CmAfterHelper, CmAfterCloud, CmAfterFile
  <2> QED  BY <1>1, <2>1, <2>2, <2>3, <2>4, CmRested
<1>5. CASE /\ cmDisk' = [cmDisk EXCEPT !.store[k[1]] = k[2]]
           /\ cmRun' = [cmRun EXCEPT ![p].got = @ \ {k},
                          ![p].at = IF cmRun[p].got = {k} THEN "cloudScrub" ELSE @]
  <2>1. PICK r : r = cmRun[p]  OBVIOUS
  <2>2. CmShape(r) /\ CmFits(r) /\ r.at = "cloudSave"
    BY <1>1, <2>1 DEF CmInv, CmTypes
  <2>3. PICK at : at = IF r.got = {k} THEN "cloudScrub" ELSE "cloudSave"  OBVIOUS
  <2>4. PICK e : e = [r EXCEPT !.got = @ \ {k}, !.at = at]  OBVIOUS
  <2>5. CmShape(e) /\ e.at = at /\ e.got = r.got \ {k} /\ e.prog = r.prog
        /\ e.alone = r.alone /\ e.trouble = r.trouble
    BY <2>2, <2>3, <2>4 DEF CmShape, CmStages
  <2>6. cmRun'[p] = e /\ CmOthers(p)
    BY <1>5, <2>1, <2>2, <2>3, <2>4 DEF CmInv, CmTypes, CmOthers
  <2>7. /\ cmDisk' \in CmDisks /\ CmFiles' /\ CmOneWay
        /\ cmDisk'.store = [cmDisk.store EXCEPT ![k[1]] = k[2]]
        /\ cmDisk' = [cmDisk EXCEPT !.store = cmDisk'.store]
    BY <1>1, <1>5, CmKeyStored
  <2>8. /\ cmDisk'.conf = cmDisk.conf /\ cmDisk'.export = cmDisk.export
        /\ cmDisk'.agent = cmDisk.agent /\ cmDisk'.helper = cmDisk.helper
    BY <2>7 DEF CmInv, CmTypes, CmDisks
  <2>9. \A t : CmKey(t)' = CmKey(t)  BY <2>8 DEF CmKey
  <2>10. CmFits(cmRun[p])'
    BY <2>2, <2>3, <2>5, <2>6 DEF CmFits
  <2>11. CmHolds(p)'
    <3>1. \/ \A j \in e.got : j[2] = CmKey(j[1])
          \/ \A f \in Fields : cmDisk.conf[f] = "none"
      BY <2>1, <2>2, <2>5 DEF CmInv, CmHolds
    <3>2. \/ \A j \in e.got : j[2] = CmKey(j[1])'
          \/ \A f \in Fields : cmDisk'.conf[f] = "none"
      BY <2>8, <2>9, <3>1
    <3> QED
      BY <1>1, <2>1, <2>3, <2>5, <2>6, <3>2 DEF CmHolds, CmOthers, CmInv
  <2>12. CmDone(p)'
    BY <1>1, <2>1, <2>3, <2>5, <2>6, <2>8 DEF CmDone, CmInv, CmAfterKeys, CmAfterHTTPS,
       CmAfterHelper, CmAfterCloud, CmAfterFile
  <2>13. ASSUME cmQuiet'[p]  PROVE CmKnows(p)'
    <3>1. cmQuiet[p]
      BY <2>3, <2>5, <2>6, <2>13 DEF CmQuietStep, Reading, CmInv, CmTypes
    <3>2. /\ \A j \in r.got : j[2] = CmKey(j[1])
          /\ \A s \in CmCloud : CmKey(s) # "none" /\ <<s, CmKey(s)>> \notin r.got
                                  => cmDisk.store[s] = CmKey(s)
      BY <2>1, <2>2, <3>1 DEF CmInv, CmKnows
    <3>3. PICK s, y : s = k[1] /\ y = k[2]  OBVIOUS
    <3>4. s \in CmCloud /\ k = <<s, y>> /\ y = CmKey(s)
      BY <1>2, <2>1, <2>2, <3>2, <3>3 DEF CmFits, CmCloud
    <3>5. \A t \in CmCloud : cmDisk'.store[t] = IF t = s THEN y ELSE cmDisk.store[t]
      BY <2>7, <3>3, <3>4 DEF CmInv, CmTypes, CmDisks, CmCloud, Slot
    <3>6. \A t \in CmCloud : CmKey(t) # "none" /\ <<t, CmKey(t)>> \notin e.got
                               => cmDisk'.store[t] = CmKey(t)
      BY <2>5, <3>2, <3>4, <3>5
    <3>7. /\ \A j \in e.got : j[2] = CmKey(j[1])'
          /\ \A t \in CmCloud : CmKey(t)' # "none" /\ <<t, CmKey(t)'>> \notin e.got
                                  => cmDisk'.store[t] = CmKey(t)'
      BY <2>5, <2>9, <3>2, <3>6
    <3>8. at = "cloudScrub" => e.got = {}  BY <2>3, <2>5
    <3> QED  BY <2>3, <2>5, <2>6, <3>7, <3>8 DEF CmKnows
  <2> QED
    BY <1>1, <2>5, <2>6, <2>7, <2>10, <2>11, <2>12, <2>13, CmStepSafe DEF CmOwn
<1> QED  BY <1>2, <1>3, <1>4, <1>5

LEMMA CmScrubSafe ==
    ASSUME CmInv, NEW p \in CmProc, ScrubConfig(p), CmQuietStep(p)
    PROVE  CmInv'
<1>1. PICK disk : disk = [cmDisk EXCEPT !.conf = [f \in Fields |-> "none"]]  OBVIOUS
<1>2. cmRun[p].at = "cloudScrub" /\ CmWrites(p, "cloudFile", disk, "cloudFile", disk)
  BY <1>1 DEF ScrubConfig
<1>3. disk \in CmDisks /\ (\A f \in Fields : disk.conf[f] = "none")
      /\ disk.store = cmDisk.store /\ disk.new = cmDisk.new
      /\ disk.newRoot = cmDisk.newRoot /\ disk.export = cmDisk.export
      /\ disk.agent = cmDisk.agent /\ disk.helper = cmDisk.helper
  BY <1>1 DEF CmInv, CmTypes, CmDisks
<1>4. cmDisk' \in {disk, cmDisk, disk} => cmDisk' \in CmDisks /\ CmFiles' /\ CmOneWay
  <2>1. cmDisk' = disk => cmDisk' \in CmDisks /\ CmFiles' /\ CmOneWay
    BY <1>3 DEF CmInv, CmFiles, CmOneWay, CmKey, Fields, CmCloud
  <2>2. cmDisk' = cmDisk => cmDisk' \in CmDisks /\ CmFiles' /\ CmOneWay
    BY CmSameFiles DEF CmInv, CmTypes
  <2> QED  BY <2>1, <2>2
<1>5. ASSUME CmOnto(p, "cloudFile", FALSE), CmOthers(p), cmDisk' = disk
      PROVE  CmFits(cmRun[p])' /\ CmOwn(p)'
  <2>1. CmFits(cmRun[p])' /\ CmKnows(p)'  BY <1>5 DEF CmFits, CmKnows, CmOnto
  <2>2. CmHolds(p)'  BY <1>2, <1>5 DEF CmHolds, CmOnto, CmOthers, CmInv
  <2>3. CmDone(p)'
    BY <1>2, <1>3, <1>5 DEF CmDone, CmOnto, CmInv, CmAfterKeys, CmAfterHTTPS,
       CmAfterHelper, CmAfterCloud, CmAfterFile
  <2> QED  BY <2>1, <2>2, <2>3 DEF CmOwn
<1>6. "cloudFile" \in CmStages /\ "cloudFile" \in CmRests  BY DEF CmStages, CmRests
<1> QED  BY <1>2, <1>4, <1>5, <1>6, CmWrote

\* What moving the secret key does to the files.
LEMMA CmSecretFiles ==
    ASSUME CmInv, cmDisk' \in CmDisks, cmDisk'.conf = cmDisk.conf,
           cmDisk'.new = cmDisk.new, cmDisk'.newRoot = cmDisk.newRoot,
           \A s \in CmCloud : cmDisk'.store[s] = cmDisk.store[s]
    PROVE  CmFiles' /\ CmOneWay
BY DEF CmInv, CmFiles, CmKey, CmOneWay

LEMMA CmFileReadSafe ==
    ASSUME CmInv, NEW p \in CmProc, ReadCloudFile(p), CmQuietStep(p)
    PROVE  CmInv'
<1>1. cmRun[p].at = "cloudFile"  BY DEF ReadCloudFile
<1>2. PICK after : after = AfterCloud(p)  OBVIOUS
<1>3. after \in {"done", "ssh"} /\ after \in CmRests /\ after \in CmStages
      /\ (cmRun[p].prog = "migrate" => after = "ssh")
  BY <1>2 DEF AfterCloud, CmRests, CmStages
<1>4. "cloudRemove" \in CmStages  BY DEF CmStages
<1>5. PICK file : file = cmDisk.file  OBVIOUS
<1>6. CASE file = "none"
  <2>1. Goes(p, after) /\ UNCHANGED cmDisk  BY <1>2, <1>5, <1>6 DEF ReadCloudFile
  <2>2. CmOnto(p, after, FALSE) => CmDone(p)'
    BY <1>1, <1>3, <1>5, <1>6, <2>1 DEF CmDone, CmOnto, CmInv, CmAfterKeys, CmAfterHTTPS,
       CmAfterHelper, CmAfterCloud, CmAfterFile
  <2> QED  BY <1>1, <1>3, <2>1, <2>2, CmMoved
<1>7. ASSUME CmOnto(p, "cloudRemove", FALSE), CmOthers(p),
             cmDisk'.conf = cmDisk.conf, cmDisk'.export = cmDisk.export,
             cmDisk'.agent = cmDisk.agent, cmDisk'.helper = cmDisk.helper,
             cmDisk'.newRoot = cmDisk.newRoot,
             CmPresent(cmDisk'.file) =>
               cmDisk'.file \in {cmDisk'.store["secret"]} \union cmDisk'.arch["secret"]
      PROVE  CmFits(cmRun[p])' /\ CmOwn(p)'
  <2>1. CmFits(cmRun[p])' /\ CmKnows(p)'  BY <1>7 DEF CmFits, CmKnows, CmOnto
  <2>2. CmHolds(p)'  BY <1>1, <1>7 DEF CmHolds, CmOnto, CmOthers, CmInv
  <2>3. CmDone(p)'
    BY <1>1, <1>7 DEF CmDone, CmOnto, CmInv, CmAfterKeys, CmAfterHTTPS,
       CmAfterHelper, CmAfterCloud, CmAfterFile
  <2> QED  BY <2>1, <2>2, <2>3 DEF CmOwn
<1>8. CASE file # "none" /\ (file = "blank" \/ cmDisk.store["secret"] = file)
  <2>1. Goes(p, "cloudRemove") /\ UNCHANGED cmDisk  BY <1>5, <1>8 DEF ReadCloudFile
  <2>2. CmOnto(p, "cloudRemove", FALSE) /\ CmOthers(p) /\ CmShape(cmRun'[p])
    BY <1>4, <2>1, CmGoes DEF CmInv
  <2>3. CmFits(cmRun[p])' /\ CmOwn(p)'
    BY <1>5, <1>7, <1>8, <2>1, <2>2 DEF CmPresent, Secret
  <2> QED
    BY <1>1, <2>1, <2>2, <2>3, CmStepSafe, CmSameFiles DEF CmInv, CmTypes
<1>9. CASE file \notin {"none", "blank"} /\ cmDisk.store["secret"] = "none"
  <2>1. PICK disk : disk = [cmDisk EXCEPT !.store["secret"] = file]  OBVIOUS
  <2>2. PICK torn : torn = [cmDisk EXCEPT !.store["secret"] = "blank"]  OBVIOUS
  <2>3. CmWrites(p, "cloudRemove", disk, after, torn)
    BY <1>2, <1>5, <1>9, <2>1, <2>2 DEF ReadCloudFile
  <2>4. file \in Secret /\ "secret" \in Slot
    BY <1>5, <1>9 DEF CmInv, CmTypes, CmDisks, Slot
  <2>5. disk \in CmDisks /\ disk.store = [cmDisk.store EXCEPT !["secret"] = file]
        /\ disk.conf = cmDisk.conf /\ disk.new = cmDisk.new
        /\ disk.newRoot = cmDisk.newRoot /\ disk.export = cmDisk.export
        /\ disk.agent = cmDisk.agent /\ disk.helper = cmDisk.helper
        /\ disk.file = file
    BY <1>5, <2>1, <2>4 DEF CmInv, CmTypes, CmDisks
  <2>6. torn \in CmDisks /\ torn.store = [cmDisk.store EXCEPT !["secret"] = "blank"]
        /\ torn.conf = cmDisk.conf /\ torn.new = cmDisk.new
        /\ torn.newRoot = cmDisk.newRoot
    BY <2>2, <2>4 DEF CmInv, CmTypes, CmDisks
  <2>7. ASSUME NEW d \in {disk, torn}
        PROVE  \A s \in CmCloud : d.store[s] = cmDisk.store[s]
    BY <2>5, <2>6 DEF CmInv, CmTypes, CmDisks, CmCloud, Slot
  <2>8. cmDisk' \in {disk, cmDisk, torn} => cmDisk' \in CmDisks /\ CmFiles' /\ CmOneWay
    BY <2>5, <2>6, <2>7, CmSecretFiles DEF CmInv, CmTypes
  <2>9. ASSUME CmOnto(p, "cloudRemove", FALSE), CmOthers(p), cmDisk' = disk
        PROVE  CmFits(cmRun[p])' /\ CmOwn(p)'
    <3>1. disk.store["secret"] = file
      BY <2>4, <2>5 DEF CmInv, CmTypes, CmDisks
    <3> QED  BY <1>7, <2>5, <2>9, <3>1
  <2> QED  BY <1>1, <1>3, <1>4, <2>3, <2>8, <2>9, CmWrote
<1>10. CASE /\ file \notin {"none", "blank"} /\ cmDisk.store["secret"] # file
            /\ cmDisk.store["secret"] # "none"
  <2>1. PICK disk : disk = [cmDisk EXCEPT !.arch["secret"] = @ \union {file}]  OBVIOUS
  <2>2. CmWrites(p, "cloudRemove", disk, after, cmDisk)
    BY <1>2, <1>5, <1>10, <2>1 DEF ReadCloudFile
  <2>3. file \in Secret /\ "secret" \in Slot
    BY <1>5, <1>10 DEF CmInv, CmTypes, CmDisks, Slot
  <2>4. disk \in CmDisks /\ disk.store = cmDisk.store
        /\ disk.conf = cmDisk.conf /\ disk.new = cmDisk.new
        /\ disk.newRoot = cmDisk.newRoot /\ disk.export = cmDisk.export
        /\ disk.agent = cmDisk.agent /\ disk.helper = cmDisk.helper
        /\ disk.file = file /\ file \in disk.arch["secret"]
    BY <1>5, <2>1, <2>3, SMTT(30) DEF CmInv, CmTypes, CmDisks
  <2>5. cmDisk' \in {disk, cmDisk, cmDisk} => cmDisk' \in CmDisks /\ CmFiles' /\ CmOneWay
    BY <2>4, CmSameFiles DEF CmInv, CmTypes
  <2>6. ASSUME CmOnto(p, "cloudRemove", FALSE), CmOthers(p), cmDisk' = disk
        PROVE  CmFits(cmRun[p])' /\ CmOwn(p)'
    BY <1>7, <2>4, <2>6
  <2> QED  BY <1>1, <1>3, <1>4, <2>2, <2>5, <2>6, CmWrote
<1> QED  BY <1>6, <1>8, <1>9, <1>10

LEMMA CmFileSafe ==
    ASSUME CmInv, NEW p \in CmProc, RemoveCloudFile(p), CmQuietStep(p)
    PROVE  CmInv'
<1>1. PICK disk : disk = [cmDisk EXCEPT !.file = "none"]  OBVIOUS
<1>2. PICK after : after = AfterCloud(p)  OBVIOUS
<1>3. cmRun[p].at = "cloudRemove" /\ CmWrites(p, after, disk, after, cmDisk)
  BY <1>1, <1>2 DEF RemoveCloudFile
<1>4. after \in {"done", "ssh"} /\ after \in CmRests /\ after \in CmStages
      /\ (cmRun[p].prog = "migrate" => after = "ssh")
  BY <1>2 DEF AfterCloud, CmRests, CmStages
<1>5. disk \in CmDisks /\ disk.file = "none" /\ disk.conf = cmDisk.conf
      /\ disk.store = cmDisk.store /\ disk.new = cmDisk.new
      /\ disk.newRoot = cmDisk.newRoot /\ disk.export = cmDisk.export
      /\ disk.agent = cmDisk.agent /\ disk.helper = cmDisk.helper
  BY <1>1 DEF CmInv, CmTypes, CmDisks
<1>6. cmDisk' \in {disk, cmDisk, cmDisk} => cmDisk' \in CmDisks /\ CmFiles' /\ CmOneWay
  BY <1>5, CmSameFiles DEF CmInv, CmTypes
<1>7. ASSUME CmOnto(p, after, FALSE), CmOthers(p), cmDisk' = disk
      PROVE  CmFits(cmRun[p])' /\ CmOwn(p)'
  <2>1. CmFits(cmRun[p])' /\ CmKnows(p)'  BY <1>4, <1>7 DEF CmFits, CmKnows, CmOnto
  <2>2. CmHolds(p)'  BY <1>3, <1>4, <1>7 DEF CmHolds, CmOnto, CmOthers, CmInv
  <2>3. CmDone(p)'
    BY <1>3, <1>4, <1>5, <1>7 DEF CmDone, CmOnto, CmInv, CmAfterKeys, CmAfterHTTPS,
       CmAfterHelper, CmAfterCloud, CmAfterFile
  <2> QED  BY <2>1, <2>2, <2>3 DEF CmOwn
<1> QED  BY <1>3, <1>4, <1>6, <1>7, CmWrote

----------------------------------------------------------------------------
\* Git SSH key directories.

\* What moving the directories does to the files.
LEMMA CmRootFiles ==
    ASSUME CmInv, cmDisk' \in CmDisks, cmDisk'.conf = cmDisk.conf,
           cmDisk'.store = cmDisk.store, cmDisk'.newRoot
    PROVE  CmFiles' /\ CmOneWay
BY DEF CmInv, CmFiles, CmKey, CmOneWay

LEMMA CmRootSafe ==
    ASSUME CmInv, NEW p \in CmProc, ReadOldRoot(p), CmQuietStep(p)
    PROVE  CmInv'
<1>1. cmRun[p].at = "ssh"  BY DEF ReadOldRoot
<1>2. "done" \in CmStages /\ "done" \in CmRests /\ "sshEntry" \in CmStages
  BY DEF CmStages, CmRests
<1>3. CASE cmDisk.oldRoot = "none"
  <2>1. Goes(p, "done") /\ UNCHANGED cmDisk  BY <1>3 DEF ReadOldRoot
  <2>2. CmOnto(p, "done", FALSE) => CmDone(p)'
    BY <1>1, <1>3, <2>1 DEF CmDone, CmOnto, CmInv, CmAfterKeys, CmAfterHTTPS,
       CmAfterHelper, CmAfterCloud, CmAfterFile
  <2> QED  BY <1>1, <1>2, <2>1, <2>2, CmMoved
<1>4. CASE cmDisk.oldRoot = "other"
  BY <1>1, <1>2, <1>4, CmFailed DEF ReadOldRoot
<1>5. CASE cmDisk.oldRoot \notin {"none", "other"} /\ ~cmDisk.newRoot
  <2>1. PICK moved : moved = cmDisk.old \X {"old"}  OBVIOUS
  <2>2. PICK disk : disk = [cmDisk EXCEPT !.newRoot = TRUE, !.new = moved,
                                          !.old = {}, !.oldRoot = "none"]
    OBVIOUS
  <2>3. CmWrites(p, "done", disk, "done", cmDisk)
    BY <1>5, <2>1, <2>2 DEF ReadOldRoot
  <2>4. moved \in SUBSET (CmEntries \X {"old", "new"})
    BY <2>1 DEF CmInv, CmTypes, CmDisks
  <2>5. disk \in CmDisks /\ disk.newRoot /\ disk.oldRoot = "none"
        /\ disk.conf = cmDisk.conf /\ disk.store = cmDisk.store
        /\ disk.export = cmDisk.export /\ disk.file = cmDisk.file
        /\ disk.agent = cmDisk.agent /\ disk.helper = cmDisk.helper
    BY <2>2, <2>4 DEF CmInv, CmTypes, CmDisks
  <2>6. cmDisk' \in {disk, cmDisk, cmDisk} => cmDisk' \in CmDisks /\ CmFiles' /\ CmOneWay
    BY <2>5, CmSameFiles, CmRootFiles DEF CmInv, CmTypes
  <2>7. ASSUME CmOnto(p, "done", FALSE), CmOthers(p), cmDisk' = disk
        PROVE  CmFits(cmRun[p])' /\ CmOwn(p)'
    <3>1. CmFits(cmRun[p])' /\ CmKnows(p)'  BY <2>7 DEF CmFits, CmKnows, CmOnto
    <3>2. CmHolds(p)'  BY <1>1, <2>7 DEF CmHolds, CmOnto, CmOthers, CmInv
    <3>3. CmDone(p)'
      <4>1. cmRun[p].prog = "migrate" /\ cmRun[p].alone /\ ~cmRun[p].trouble =>
              /\ \A v \in EnvVar : cmDisk.export[v] = "none"
              /\ cmDisk.agent = {} /\ ~cmDisk.helper /\ cmDisk.file = "none"
              /\ \A f \in Fields : cmDisk.conf[f] = "none"
        BY <1>1 DEF CmInv, CmDone, CmAfterKeys, CmAfterHTTPS,
           CmAfterHelper, CmAfterCloud, CmAfterFile
      <4> QED  BY <2>5, <2>7, <4>1 DEF CmDone, CmOnto
    <3> QED  BY <3>1, <3>2, <3>3 DEF CmOwn
  <2> QED  BY <1>1, <1>2, <2>3, <2>6, <2>7, CmWrote
<1>6. CASE cmDisk.oldRoot \notin {"none", "other"} /\ cmDisk.newRoot
  <2>1. Reads(p, "sshEntry", cmDisk.old, {}) /\ UNCHANGED cmDisk
    BY <1>6 DEF ReadOldRoot
  <2>2. /\ CmOthers(p) /\ CmShape(cmRun'[p])
        /\ cmRun'[p].at = "sshEntry" /\ cmRun'[p].prog = cmRun[p].prog
        /\ cmRun'[p].alone = cmRun[p].alone /\ cmRun'[p].trouble = cmRun[p].trouble
    BY <1>2, <2>1, CmReads DEF CmInv
  <2>3. CmFits(cmRun[p])' /\ CmKnows(p)'  BY <2>2 DEF CmFits, CmKnows
  <2>4. CmHolds(p)'  BY <1>1, <1>6, <2>1, <2>2 DEF CmHolds, CmOthers, CmInv
  <2>5. CmDone(p)'
    BY <1>1, <2>1, <2>2 DEF CmDone, CmInv, CmAfterKeys, CmAfterHTTPS,
       CmAfterHelper, CmAfterCloud, CmAfterFile
  <2> QED
    BY <1>1, <2>1, <2>2, <2>3, <2>4, <2>5, CmStepSafe, CmSameFiles
    DEF CmOwn, CmInv, CmTypes
<1> QED  BY <1>3, <1>4, <1>5, <1>6

\* An entry found in the old directory ends up in the new one or the archive.
CmEntryKept ==
    /\ cmDisk' \in CmDisks /\ cmDisk'.newRoot = cmDisk.newRoot
    /\ cmDisk'.conf = cmDisk.conf /\ cmDisk'.store = cmDisk.store
    /\ cmDisk'.export = cmDisk.export /\ cmDisk'.file = cmDisk.file
    /\ cmDisk'.agent = cmDisk.agent /\ cmDisk'.helper = cmDisk.helper
    /\ cmDisk'.host = cmDisk.host /\ cmDisk'.arch = cmDisk.arch
    /\ cmDisk.new \subseteq cmDisk'.new /\ cmDisk.karch \subseteq cmDisk'.karch
    /\ \A k \in cmDisk.old \ cmDisk'.old :
          <<k, "old">> \in cmDisk'.new \union cmDisk'.karch

LEMMA CmEntryMoved ==
    ASSUME CmInv, NEW p \in CmProc, MoveEntry(p)
    PROVE  CmEntryKept
<1>1. CASE cmDisk' = cmDisk  BY <1>1 DEF CmInv, CmTypes, CmEntryKept
<1>2. ASSUME NEW k \in cmDisk.old,
             NEW new \in SUBSET (CmEntries \X {"old", "new"}),
             NEW karch \in SUBSET (CmEntries \X {"old", "new"}),
             cmDisk.new \subseteq new, cmDisk.karch \subseteq karch,
             <<k, "old">> \in new \union karch, NEW old, old = cmDisk.old \ {k},
             \/ cmDisk' = [cmDisk EXCEPT !.old = old, !.new = new] /\ karch = cmDisk.karch
             \/ cmDisk' = [cmDisk EXCEPT !.old = old, !.karch = karch] /\ new = cmDisk.new
      PROVE  CmEntryKept
  <2>1. cmDisk'.old = old /\ cmDisk'.new = new /\ cmDisk'.karch = karch
        /\ cmDisk' \in CmDisks /\ cmDisk'.newRoot = cmDisk.newRoot
        /\ cmDisk'.conf = cmDisk.conf /\ cmDisk'.store = cmDisk.store
        /\ cmDisk'.export = cmDisk.export /\ cmDisk'.file = cmDisk.file
        /\ cmDisk'.agent = cmDisk.agent /\ cmDisk'.helper = cmDisk.helper
        /\ cmDisk'.host = cmDisk.host /\ cmDisk'.arch = cmDisk.arch
    <3>2. PICK d : d = cmDisk  OBVIOUS
    <3>3. d \in CmDisks /\ old \in SUBSET CmEntries
      BY <1>2, <3>2 DEF CmInv, CmTypes, CmDisks
    <3>4. CASE cmDisk' = [d EXCEPT !.old = old, !.new = new] /\ karch = d.karch
      BY <3>2, <3>3, <3>4 DEF CmDisks
    <3>5. CASE cmDisk' = [d EXCEPT !.old = old, !.karch = karch] /\ new = d.new
      BY <3>2, <3>3, <3>5 DEF CmDisks
    <3> QED  BY <1>2, <3>2, <3>4, <3>5
  <2> QED  BY <1>2, <2>1 DEF CmEntryKept
<1>3. CASE cmDisk' # cmDisk
  <2>1. PICK k \in cmDisk.old :
          \/ cmDisk' = [cmDisk EXCEPT !.old = @ \ {k}, !.new = @ \union {<<k, "old">>}]
          \/ cmDisk' = [cmDisk EXCEPT !.old = @ \ {k}, !.karch = @ \union {<<k, "old">>}]
    BY <1>3, ZenonT(60) DEF MoveEntry
  <2>2. <<k, "old">> \in CmEntries \X {"old", "new"}  BY DEF CmInv, CmTypes, CmDisks
  <2>3. cmDisk.new \in SUBSET (CmEntries \X {"old", "new"})
        /\ cmDisk.karch \in SUBSET (CmEntries \X {"old", "new"})
    BY DEF CmInv, CmTypes, CmDisks
  <2>4. PICK new : new = cmDisk.new \union {<<k, "old">>}  OBVIOUS
  <2>5. PICK karch : karch = cmDisk.karch \union {<<k, "old">>}  OBVIOUS
  <2>6. PICK old : old = cmDisk.old \ {k}  OBVIOUS
  <2>7. new \in SUBSET (CmEntries \X {"old", "new"})
        /\ karch \in SUBSET (CmEntries \X {"old", "new"})
    BY <2>2, <2>3, <2>4, <2>5
  <2>8. cmDisk.new \subseteq new /\ cmDisk.karch \subseteq karch
        /\ <<k, "old">> \in new /\ <<k, "old">> \in karch
    BY <2>4, <2>5
  <2>9. CASE cmDisk' = [cmDisk EXCEPT !.old = old, !.new = new]
    BY <1>2, <2>3, <2>6, <2>7, <2>8, <2>9
  <2>10. CASE cmDisk' = [cmDisk EXCEPT !.old = old, !.karch = karch]
    BY <1>2, <2>3, <2>6, <2>7, <2>8, <2>10
  <2> QED  BY <2>1, <2>4, <2>5, <2>6, <2>9, <2>10
<1> QED  BY <1>1, <1>3

LEMMA CmEntrySafe ==
    ASSUME CmInv, NEW p \in CmProc, MoveEntry(p), CmQuietStep(p)
    PROVE  CmInv'
<1>1. cmRun[p].at = "sshEntry" /\ cmDisk.newRoot  BY DEF MoveEntry, CmInv, CmHolds
<1>2. /\ cmDisk' \in CmDisks /\ cmDisk'.newRoot
      /\ cmDisk'.conf = cmDisk.conf /\ cmDisk'.store = cmDisk.store
      /\ cmDisk'.export = cmDisk.export /\ cmDisk'.file = cmDisk.file
      /\ cmDisk'.agent = cmDisk.agent /\ cmDisk'.helper = cmDisk.helper
  BY <1>1, CmEntryMoved DEF CmEntryKept
<1>3. PICK r : r = cmRun[p]  OBVIOUS
<1>4. CmShape(r) /\ r.at = "sshEntry"  BY <1>1, <1>3 DEF CmInv, CmTypes
<1>5. PICK k : \/ cmRun' = [cmRun EXCEPT ![p] = [r EXCEPT !.got = @ \ {k}]]
               \/ cmRun' = [cmRun EXCEPT ![p] = [[r EXCEPT !.got = @ \ {k}]
                                                   EXCEPT !.trouble = TRUE]]
  BY <1>3 DEF MoveEntry
<1>6. PICK mid : mid = [r EXCEPT !.got = @ \ {k}]  OBVIOUS
<1>7. CmShape(mid) /\ mid.at = r.at /\ mid.prog = r.prog /\ mid.alone = r.alone
      /\ mid.trouble = r.trouble
  BY <1>4, <1>6 DEF CmShape
<1>8. PICK e : (e = mid \/ e = [mid EXCEPT !.trouble = TRUE])
               /\ cmRun' = [cmRun EXCEPT ![p] = e]
  BY <1>5, <1>6
<1>9. CmShape(e) /\ e.at = r.at /\ e.prog = r.prog /\ e.alone = r.alone
      /\ (r.trouble => e.trouble)
  BY <1>7, <1>8 DEF CmShape
<1>10. cmRun'[p] = e /\ CmOthers(p)
  BY <1>3, <1>8 DEF CmInv, CmTypes, CmOthers
<1>11. CmFits(cmRun[p])' /\ CmKnows(p)'
  BY <1>4, <1>9, <1>10 DEF CmFits, CmKnows
<1>12. CmHolds(p)'
  BY <1>2, <1>3, <1>4, <1>9, <1>10 DEF CmHolds, CmOthers, CmInv
<1>13. CmDone(p)'
  BY <1>2, <1>3, <1>4, <1>9, <1>10, ZenonT(40) DEF CmDone, CmInv, CmAfterKeys, CmAfterHTTPS,
     CmAfterHelper, CmAfterCloud, CmAfterFile
<1> QED
  BY <1>1, <1>2, <1>9, <1>10, <1>11, <1>12, <1>13, CmStepSafe, CmRootFiles DEF CmOwn

LEMMA CmOldRootSafe ==
    ASSUME CmInv, NEW p \in CmProc, RemoveOldRoot(p), CmQuietStep(p)
    PROVE  CmInv'
<1>1. cmRun[p].at = "sshEntry"  BY DEF RemoveOldRoot
<1>2. "done" \in CmStages /\ "done" \in CmRests  BY DEF CmStages, CmRests
<1>3. CASE cmDisk' = [cmDisk EXCEPT !.oldRoot = "none"] /\ Goes(p, "done")
  <2>1. CmOnto(p, "done", FALSE) /\ CmOthers(p) /\ CmShape(cmRun'[p])
    BY <1>2, <1>3, CmGoes DEF CmInv
  <2>2. /\ cmDisk' \in CmDisks /\ cmDisk'.newRoot = cmDisk.newRoot
        /\ cmDisk'.new = cmDisk.new /\ cmDisk'.oldRoot = "none"
        /\ cmDisk'.conf = cmDisk.conf /\ cmDisk'.store = cmDisk.store
        /\ cmDisk'.export = cmDisk.export /\ cmDisk'.file = cmDisk.file
        /\ cmDisk'.agent = cmDisk.agent /\ cmDisk'.helper = cmDisk.helper
    BY <1>3 DEF CmInv, CmTypes, CmDisks
  <2>3. CmDone(p)'
    BY <1>1, <2>1, <2>2 DEF CmDone, CmOnto, CmInv, CmAfterKeys, CmAfterHTTPS,
       CmAfterHelper, CmAfterCloud, CmAfterFile
  <2> QED  BY <1>1, <1>2, <2>1, <2>2, <2>3, CmSameFiles, CmRested
<1>4. CASE Fails(p, "done")  BY <1>1, <1>2, <1>4, CmFailed
<1> QED  BY <1>3, <1>4 DEF RemoveOldRoot

----------------------------------------------------------------------------
\* A command begins; the others learn that they are not alone.

LEMMA CmStartSafe ==
    ASSUME CmInv, NEW p \in CmProc,
           NEW prog \in CmPrograms, NEW at \in {"keys", "cloud", "ask"},
           at = "ask" => prog = "config", at = "cloud" => prog = "cloud",
           CmStart(p, prog, at), CmQuietStep(p)
    PROVE  CmInv'
<1>1. cmRun[p].at = "idle" /\ cmDisk' = cmDisk  BY DEF CmStart
<1>2. PICK alone : alone = \A r \in CmProc \ {p} : cmRun[r].at = "idle"  OBVIOUS
<1>3. PICK todo : todo = IF at = "keys" THEN EnvVar ELSE {}  OBVIOUS
<1>4. PICK e : e = [Idle EXCEPT !.prog = prog, !.at = at, !.todo = todo, !.alone = alone]
  OBVIOUS
<1>5. CmShape(e) /\ e.prog = prog /\ e.at = at /\ e.todo = todo /\ e.alone = alone
  BY <1>2, <1>3, <1>4 DEF CmShape, Idle, CmPrograms, CmStages
<1>6. /\ cmRun' = [q \in CmProc |-> cmRun'[q]] /\ cmRun'[p] = e
      /\ \A q \in CmProc \ {p} : cmRun'[q] = [cmRun[q] EXCEPT !.alone = FALSE]
  BY <1>2, <1>3, <1>4 DEF CmStart
<1>7. ASSUME NEW q \in CmProc \ {p}
      PROVE  /\ CmShape(cmRun'[q]) /\ ~cmRun'[q].alone /\ cmRun'[q].at = cmRun[q].at
             /\ cmRun'[q].prog = cmRun[q].prog /\ cmRun'[q].var = cmRun[q].var
             /\ cmRun'[q].got = cmRun[q].got /\ cmRun'[q].saw = cmRun[q].saw
  <2>1. PICK r : r = cmRun[q]  OBVIOUS
  <2>2. CmShape(r)  BY <2>1 DEF CmInv, CmTypes
  <2>3. PICK s : s = [r EXCEPT !.alone = FALSE]  OBVIOUS
  <2>4. /\ CmShape(s) /\ ~s.alone /\ s.at = r.at /\ s.prog = r.prog /\ s.var = r.var
        /\ s.got = r.got /\ s.saw = r.saw
    BY <2>2, <2>3 DEF CmShape
  <2> QED  BY <1>6, <2>1, <2>3, <2>4
<1>8. CmTypes'
  <2>1. \A q \in CmProc : CmShape(cmRun'[q])  BY <1>5, <1>6, <1>7
  <2>2. \A q \in CmProc : CmFits(cmRun[q])'
    BY <1>5, <1>6, <1>7 DEF CmFits, CmInv, CmTypes
  <2>3. cmQuiet' \in [CmProc -> BOOLEAN]  BY DEF CmQuietStep, CmInv, CmTypes
  <2>4. cmRun' = [q \in CmProc |-> cmRun'[q]]  BY <1>6
  <2> QED  BY <1>1, <2>1, <2>2, <2>3, <2>4 DEF CmTypes, CmInv
<1>9. CmFiles'  BY <1>1 DEF CmFiles, CmKey, CmInv
<1>10. \A s : CmKey(s)' = CmKey(s)  BY <1>1 DEF CmKey
<1>11. CmOwn(p)'
  <2>1. CmHolds(p)'  BY <1>2, <1>5, <1>6, <1>7 DEF CmHolds
  <2>2. CmDone(p)'
    BY <1>3, <1>5, <1>6 DEF CmDone, CmAfterKeys, CmAfterHTTPS,
       CmAfterHelper, CmAfterCloud, CmAfterFile
  <2>3. CmKnows(p)'  BY <1>5, <1>6 DEF CmKnows
  <2> QED  BY <2>1, <2>2, <2>3 DEF CmOwn
<1>12. ASSUME NEW q \in CmProc \ {p}  PROVE CmOwn(q)'
  <2>1. CmHolds(q)'
    <3>1. cmRun[q].at = "cloudSave" =>
             \/ \A k \in cmRun'[q].got : k[2] = CmKey(k[1])'
             \/ \A f \in Fields : cmDisk'.conf[f] = "none"
      BY <1>1, <1>7, <1>10 DEF CmInv, CmHolds
    <3> QED  BY <1>1, <1>7, <3>1 DEF CmHolds, CmInv
  <2>2. CmDone(q)'  BY <1>7 DEF CmDone
  <2>3. ASSUME cmQuiet'[q]  PROVE CmKnows(q)'
    <3>1. cmQuiet[q]  BY <2>3 DEF CmQuietStep, CmInv, CmTypes
    <3>2. CmKnows(q)  BY <3>1 DEF CmInv
    <3> QED  BY <1>1, <1>7, <1>10, <3>2 DEF CmKnows
  <2> QED  BY <2>1, <2>2, <2>3 DEF CmOwn
<1>13. \A q \in CmProc : CmOwn(q)'  BY <1>11, <1>12
<1> QED  BY <1>8, <1>9, <1>13 DEF CmInv, CmOwn

LEMMA CmInvInit == CmInit => CmInv
<1> SUFFICES ASSUME CmInit  PROVE CmInv
  OBVIOUS
<1>1. Clean \in CmDisks
  BY DEF Clean, CmDisks, Slot, Fields, Secret
<1>2. Clean.store = [s \in Slot |-> "none"] /\ Clean.conf = [f \in Fields |-> "none"]
      /\ Clean.new = {} /\ ~Clean.newRoot
  BY DEF Clean
<1>3. PICK c : c = Clean  OBVIOUS
<1>4. cmDisk \in CmDisks /\ CmFiles
  <2>1. ASSUME NEW e \in [EnvVar -> {"none", "x", "bad"}],
               NEW s \in [EnvVar -> {"none", "x", "y"}],
               cmDisk = [Clean EXCEPT !.export = e,
                           !.store = [i \in Slot |-> IF i \in EnvVar THEN s[i] ELSE "none"]]
        PROVE  cmDisk \in CmDisks /\ CmFiles
    <3>1. PICK st : st = [i \in Slot |-> IF i \in EnvVar THEN s[i] ELSE "none"]  OBVIOUS
    <3>2. st \in [Slot -> Secret \union {"none", "blank"}]  BY <3>1 DEF Secret
    <3>3. e \in [EnvVar -> Secret \union {"none", "bad"}]  BY DEF Secret
    <3>4. cmDisk = [c EXCEPT !.export = e, !.store = st]  BY <1>3, <2>1, <3>1
    <3>5. cmDisk \in CmDisks /\ cmDisk.conf = c.conf /\ cmDisk.new = c.new
      BY <1>1, <1>3, <3>2, <3>3, <3>4 DEF CmDisks
    <3> QED  BY <1>2, <1>3, <3>5 DEF CmFiles, CmKey, CmCloud, Fields
  <2>2. ASSUME NEW a \in SUBSET {"l1", "l2"}, NEW h \in SUBSET {"l2", "l3"}, NEW b \in BOOLEAN,
               cmDisk = [Clean EXCEPT !.agent = a, !.host = h, !.helper = b]
        PROVE  cmDisk \in CmDisks /\ CmFiles
    <3>1. cmDisk \in CmDisks /\ cmDisk.conf = c.conf /\ cmDisk.new = c.new
      BY <1>1, <1>3, <2>2 DEF CmDisks, CmLines
    <3> QED  BY <1>2, <1>3, <3>1 DEF CmFiles, CmKey, CmCloud, Fields
  <2>3. ASSUME NEW f \in [Fields -> {"none", "x"}], NEW file \in {"none", "blank", "x"},
               NEW s \in {"none", "x", "y"},
               cmDisk = [Clean EXCEPT !.conf = f, !.file = file, !.store["secret"] = s]
        PROVE  cmDisk \in CmDisks /\ CmFiles
    <3>1. PICK st : st = [c.store EXCEPT !["secret"] = s]  OBVIOUS
    <3>2. st \in [Slot -> Secret \union {"none", "blank"}]
      BY <1>2, <1>3, <3>1 DEF Secret
    <3>3. f \in [Fields -> Secret \union {"none"}] /\ file \in Secret \union {"none", "blank"}
      BY DEF Secret
    <3>4. cmDisk = [c EXCEPT !.conf = f, !.file = file, !.store = st]
      BY <1>3, <2>3, <3>1
    <3>5. cmDisk \in CmDisks /\ cmDisk.new = c.new /\ cmDisk.store = st
      BY <1>1, <1>3, <3>2, <3>3, <3>4 DEF CmDisks
    <3>6. \A t \in CmCloud : st[t] = "none"
      BY <1>2, <1>3, <3>1 DEF CmCloud, Slot
    <3> QED  BY <1>2, <1>3, <3>5, <3>6 DEF CmFiles
  <2>4. ASSUME NEW o \in SUBSET {"d1", "d2", "note"}, NEW n \in SUBSET {"d1"}, NEW r \in BOOLEAN,
               NEW root \in {"dir", "other"}, ~r => n = {},
               cmDisk = [Clean EXCEPT !.old = o, !.oldRoot = root, !.newRoot = r,
                                      !.new = n \X {"new"}]
        PROVE  cmDisk \in CmDisks /\ CmFiles
    <3>1. PICK new : new = n \X {"new"}  OBVIOUS
    <3>2. new \in SUBSET (CmEntries \X {"old", "new"}) /\ (~r => new = {})
      BY <2>4, <3>1 DEF CmEntries
    <3>3. cmDisk = [c EXCEPT !.old = o, !.oldRoot = root, !.newRoot = r, !.new = new]
      BY <1>3, <2>4, <3>1
    <3>4. cmDisk \in CmDisks /\ cmDisk.conf = c.conf /\ cmDisk.new = new
          /\ cmDisk.newRoot = r
      BY <1>1, <1>3, <3>2, <3>3 DEF CmDisks, CmEntries
    <3> QED  BY <1>2, <1>3, <3>2, <3>4 DEF CmFiles, CmKey, CmCloud, Fields
  <2> QED  BY <2>1, <2>2, <2>3, <2>4, ZenonT(40) DEF CmInit
<1>5. CmShape(Idle) /\ CmFits(Idle) /\ Idle.prog = "none" /\ Idle.at = "idle" /\ ~Idle.alone
  BY DEF Idle, CmShape, CmFits, CmPrograms, CmStages
<1>6. \A p \in CmProc : cmRun[p] = Idle  BY DEF CmInit
<1>7. CmTypes  BY <1>4, <1>5, <1>6 DEF CmTypes, CmInit
<1>8. \A p \in CmProc : CmHolds(p) /\ CmDone(p) /\ CmKnows(p)
  BY <1>5, <1>6 DEF CmHolds, CmDone, CmKnows
<1> QED  BY <1>4, <1>7, <1>8 DEF CmInv

LEMMA CmInvNext == CmInv /\ [CmNext]_cmVars => CmInv'
<1> SUFFICES ASSUME CmInv, [CmNext]_cmVars  PROVE CmInv'
  OBVIOUS
<1>1. CASE UNCHANGED cmVars
  BY <1>1 DEF cmVars, CmInv, CmTypes, CmFits, CmFiles, CmHolds, CmKnows, CmDone, CmKey
<1>2. CASE CmNext
  <2>1. PICK p \in CmProc : Step(p) /\ CmQuietStep(p)  BY <1>2 DEF CmNext, CmQuietStep
  <2>2. CASE runMigrateCredentials(p) \/ LaunchSession(p) \/ runConfigAgent(p)
    BY <2>1, <2>2, CmStartSafe
    DEF runMigrateCredentials, LaunchSession, runConfigAgent, CmPrograms
  <2>3. CASE \/ NextKey(p) \/ storeHostAPIKey(p) \/ preserveSecretStoreConflict(p)
             \/ removeLegacyAPIKeyExports(p) \/ CmAsk(p) \/ StoreAnswers(p)
             \/ RemoveExports(p)
    BY <2>1, <2>3, CmNextKeySafe, CmStoreSafe, CmArchiveSafe, CmExportSafe, CmAskSafe,
       CmAnswersSafe, CmExportsSafe
  <2>4. CASE \/ ReadHTTPS(p) \/ mergeGitCredentialStoreLines(p) \/ RemoveHTTPS(p)
             \/ RemoveHelper(p) \/ runGitHTTPSCredentialStore(p) \/ CmEndSession(p)
    BY <2>1, <2>4, CmHTTPSReadSafe, CmMergeSafe, CmLinesSafe, CmHelperSafe,
       CmBrokerSafe, CmEndSafe
  <2>5. CASE \/ ReadConfig(p) \/ saveCloudStoredCredential(p) \/ ScrubConfig(p)
             \/ ReadCloudFile(p) \/ RemoveCloudFile(p) \/ ReadOldRoot(p)
             \/ MoveEntry(p) \/ RemoveOldRoot(p) \/ Finish(p)
    BY <2>1, <2>5, CmConfigSafe, CmCloudSafe, CmScrubSafe, CmFileReadSafe, CmFileSafe,
       CmRootSafe, CmEntrySafe, CmOldRootSafe, CmFinishSafe
  <2> QED  BY <2>1, <2>2, <2>3, <2>4, <2>5 DEF Step
<1> QED  BY <1>1, <1>2

----------------------------------------------------------------------------
(* What is on the disk.                                                    *)

\* The places of a credential, one by one.
CmExported(c, d) == \E v \in EnvVar : CmPresent(d.export[v]) /\ c = <<v, d.export[v]>>
CmStored(c, d) == \E s \in Slot : CmPresent(d.store[s]) /\ c = <<s, d.store[s]>>
CmArchived(c, d) == \E s \in Slot : \E x \in d.arch[s] : c = <<s, x>>
CmConfigured(c, d) ==
    \E f \in {"access", "recovery"} : d.conf[f] # "none" /\ c = <<f, d.conf[f]>>
CmFiled(c, d) == CmPresent(d.file) /\ c = <<"secret", d.file>>
CmLined(c, d) == \E l \in d.host \union d.agent : c = <<"https", l>>
CmDirectory(c, d) == (\E k \in d.old : c = <<k, "old">>) \/ c \in d.new \union d.karch

LEMMA CmHeld ==
    ASSUME NEW c, NEW d
    PROVE  c \in Held(d) <=>
             \/ CmExported(c, d) \/ CmStored(c, d) \/ CmArchived(c, d)
             \/ CmConfigured(c, d) \/ CmFiled(c, d) \/ CmLined(c, d) \/ CmDirectory(c, d)
<1> DEFINE Exports == {<<v, d.export[v]>> : v \in {w \in EnvVar : CmPresent(d.export[w])}}
           Stores == {<<s, d.store[s]>> : s \in {t \in Slot : CmPresent(d.store[t])}}
           Archives == UNION {{s} \X d.arch[s] : s \in Slot}
           Configs == {<<f, d.conf[f]>> :
                         f \in {g \in {"access", "recovery"} : d.conf[g] # "none"}}
           Files == IF CmPresent(d.file) THEN {<<"secret", d.file>>} ELSE {}
           Lines == {"https"} \X (d.host \union d.agent)
           Olds == {<<k, "old">> : k \in d.old}
<1>1. c \in Exports <=> CmExported(c, d)  BY DEF CmExported
<1>2. c \in Stores <=> CmStored(c, d)  BY DEF CmStored
<1>3. c \in Archives <=> CmArchived(c, d)
  <2>1. \A s : c \in {s} \X d.arch[s] <=> \E x \in d.arch[s] : c = <<s, x>>
    OBVIOUS
  <2>2. c \in Archives <=> \E s \in Slot : c \in {s} \X d.arch[s]
    OBVIOUS
  <2> QED  BY <2>1, <2>2, Zenon DEF CmArchived
<1>4. c \in Configs <=> CmConfigured(c, d)  BY DEF CmConfigured
<1>5. c \in Files <=> CmFiled(c, d)  BY DEF CmFiled
<1>6. c \in Lines <=> CmLined(c, d)  BY DEF CmLined
<1>7. c \in Olds \/ c \in d.new \/ c \in d.karch <=> CmDirectory(c, d)
  BY DEF CmDirectory
<1>8. Held(d) = Exports \union Stores \union Archives \union Configs \union Files
                \union Lines \union Olds \union d.new \union d.karch
  BY Zenon DEF Held
<1> HIDE DEF Exports, Stores, Archives, Configs, Files, Lines, Olds
<1> QED  BY <1>1, <1>2, <1>3, <1>4, <1>5, <1>6, <1>7, <1>8

\* The step of p does not lose c, or is excused.
CmExcused(p, c) ==
    \/ cmRun'[p].at = "crashed" /\ cmRun[p].at # "crashed"
    \/ cmRun'[p] # cmRun[p] /\ ~cmQuiet[p]
    \/ cmRun'[p].at = "erased" /\ cmRun[p].at = "session" /\ c[1] = "https"
    \/ cmRun[p].at \in {"configStore", "configRemove"} /\ c[1] \in EnvVar

CmKeeps(p) == \A c \in Held(cmDisk) \ Held(cmDisk') : CmExcused(p, c)

\* It is enough to follow what is in the places that a step changes.
LEMMA CmNoneLost ==
    ASSUME NEW p,
           \A c : c \in Held(cmDisk) /\
             \/ CmExported(c, cmDisk) /\ cmDisk'.export # cmDisk.export
             \/ CmStored(c, cmDisk) /\ cmDisk'.store # cmDisk.store
             \/ CmArchived(c, cmDisk) /\ cmDisk'.arch # cmDisk.arch
             \/ CmConfigured(c, cmDisk) /\ cmDisk'.conf # cmDisk.conf
             \/ CmFiled(c, cmDisk) /\ cmDisk'.file # cmDisk.file
             \/ CmLined(c, cmDisk) /\ (cmDisk'.host # cmDisk.host \/ cmDisk'.agent # cmDisk.agent)
             \/ CmDirectory(c, cmDisk)
                /\ (\/ cmDisk'.old # cmDisk.old \/ cmDisk'.new # cmDisk.new
                    \/ cmDisk'.karch # cmDisk.karch)
             => c \in Held(cmDisk') \/ CmExcused(p, c)
    PROVE  CmKeeps(p)
<1> SUFFICES ASSUME NEW c \in Held(cmDisk), c \notin Held(cmDisk')
             PROVE  CmExcused(p, c)
  BY DEF CmKeeps
<1>1. PICK d, e : d = cmDisk /\ e = cmDisk'  OBVIOUS
<1>2. ~(\/ CmExported(c, e) \/ CmStored(c, e) \/ CmArchived(c, e)
        \/ CmConfigured(c, e) \/ CmFiled(c, e) \/ CmLined(c, e) \/ CmDirectory(c, e))
  BY <1>1, CmHeld
<1>3. \/ CmExported(c, d) \/ CmStored(c, d) \/ CmArchived(c, d)
      \/ CmConfigured(c, d) \/ CmFiled(c, d) \/ CmLined(c, d) \/ CmDirectory(c, d)
  BY <1>1, CmHeld
<1>4. /\ CmExported(c, d) => e.export # d.export
      /\ CmStored(c, d) => e.store # d.store
      /\ CmArchived(c, d) => e.arch # d.arch
      /\ CmConfigured(c, d) => e.conf # d.conf
      /\ CmFiled(c, d) => e.file # d.file
      /\ CmLined(c, d) => e.host # d.host \/ e.agent # d.agent
      /\ CmDirectory(c, d) => e.old # d.old \/ e.new # d.new \/ e.karch # d.karch
  BY <1>2 DEF CmExported, CmStored, CmArchived, CmConfigured, CmFiled, CmLined, CmDirectory
<1> QED  BY <1>1, <1>3, <1>4

\* A disk that does not change loses nothing.
LEMMA CmSameKept == ASSUME NEW p, cmDisk' = cmDisk  PROVE CmKeeps(p)
BY DEF CmKeeps

\* A write that fails or is cut short excuses itself.
LEMMA CmWriteKept ==
    ASSUME CmInv, NEW p \in CmProc, NEW next \in CmStages, NEW onError \in CmStages,
           NEW disk, NEW torn, cmRun[p].at \notin {"crashed", next},
           CmWrites(p, next, disk, onError, torn),
           CmOnto(p, next, FALSE) /\ cmDisk' = disk /\ cmQuiet[p] => CmKeeps(p)
    PROVE  CmKeeps(p)
<1>1. CmTypes  BY DEF CmInv
<1>2. \/ CmOnto(p, next, FALSE) /\ cmDisk' = disk
      \/ CmOnto(p, onError, TRUE) /\ cmDisk' = cmDisk
      \/ CmOnto(p, "crashed", FALSE) /\ cmDisk' = torn
  BY <1>1, CmWritten
<1>3. CASE CmOnto(p, next, FALSE) /\ cmDisk' = disk
  <2>1. CASE cmQuiet[p]  BY <1>3, <2>1
  <2>2. CASE ~cmQuiet[p]
    <3>1. cmRun'[p] # cmRun[p]  BY <1>3 DEF CmOnto
    <3> QED  BY <2>2, <3>1 DEF CmKeeps, CmExcused
  <2> QED  BY <2>1, <2>2
<1>4. CASE CmOnto(p, onError, TRUE) /\ cmDisk' = cmDisk  BY <1>4, CmSameKept
<1>5. CASE CmOnto(p, "crashed", FALSE)  BY <1>5 DEF CmOnto, CmKeeps, CmExcused
<1> QED  BY <1>2, <1>3, <1>4, <1>5

\* One place after the other: a slot of the store,
LEMMA CmStoreKept ==
    ASSUME CmInv, NEW p, NEW s \in Slot, NEW x,
           cmDisk' = [cmDisk EXCEPT !.store[s] = x],
           CmPresent(cmDisk.store[s]) =>
             cmDisk.store[s] = x \/ CmExcused(p, <<s, cmDisk.store[s]>>)
    PROVE  CmKeeps(p)
<1>1. cmDisk \in CmDisks  BY DEF CmInv, CmTypes
<1>2. /\ cmDisk'.export = cmDisk.export /\ cmDisk'.arch = cmDisk.arch
      /\ cmDisk'.conf = cmDisk.conf /\ cmDisk'.file = cmDisk.file
      /\ cmDisk'.host = cmDisk.host /\ cmDisk'.agent = cmDisk.agent
      /\ cmDisk'.old = cmDisk.old /\ cmDisk'.new = cmDisk.new
      /\ cmDisk'.karch = cmDisk.karch
      /\ \A t \in Slot : cmDisk'.store[t] = IF t = s THEN x ELSE cmDisk.store[t]
  BY <1>1 DEF CmDisks
<1>3. ASSUME NEW c, CmStored(c, cmDisk)
      PROVE  c \in Held(cmDisk') \/ CmExcused(p, c)
  <2>1. PICK t \in Slot : CmPresent(cmDisk.store[t]) /\ c = <<t, cmDisk.store[t]>>
    BY <1>3 DEF CmStored
  <2>2. CASE cmDisk'.store[t] = cmDisk.store[t]
    <3>1. CmStored(c, cmDisk')  BY <2>1, <2>2 DEF CmStored
    <3> QED  BY <3>1, CmHeld
  <2>3. CASE cmDisk'.store[t] # cmDisk.store[t]  BY <1>2, <2>1, <2>3
  <2> QED  BY <2>2, <2>3
<1> QED  BY <1>2, <1>3, CmNoneLost

\* ... an archive,
LEMMA CmArchiveKept ==
    ASSUME CmInv, NEW p, NEW s \in Slot, NEW xs,
           cmDisk' = [cmDisk EXCEPT !.arch[s] = @ \union xs]
    PROVE  CmKeeps(p)
<1>1. cmDisk \in CmDisks  BY DEF CmInv, CmTypes
<1>2. /\ cmDisk'.export = cmDisk.export /\ cmDisk'.store = cmDisk.store
      /\ cmDisk'.conf = cmDisk.conf /\ cmDisk'.file = cmDisk.file
      /\ cmDisk'.host = cmDisk.host /\ cmDisk'.agent = cmDisk.agent
      /\ cmDisk'.old = cmDisk.old /\ cmDisk'.new = cmDisk.new
      /\ cmDisk'.karch = cmDisk.karch
      /\ \A t \in Slot : cmDisk.arch[t] \subseteq cmDisk'.arch[t]
  BY <1>1 DEF CmDisks
<1>3. ASSUME NEW c, CmArchived(c, cmDisk)
      PROVE  c \in Held(cmDisk')
  <2>1. CmArchived(c, cmDisk')  BY <1>2, <1>3 DEF CmArchived
  <2> QED  BY <2>1, CmHeld
<1> QED  BY <1>2, <1>3, CmNoneLost

\* ... the exports,
LEMMA CmExportKept ==
    ASSUME CmInv, NEW p, NEW ex, cmDisk' = [cmDisk EXCEPT !.export = ex],
           \A v \in EnvVar : CmPresent(cmDisk.export[v]) =>
             \/ ex[v] = cmDisk.export[v]
             \/ cmDisk.export[v] \in {cmDisk.store[v]} \union cmDisk.arch[v]
             \/ CmExcused(p, <<v, cmDisk.export[v]>>)
    PROVE  CmKeeps(p)
<1>1. cmDisk \in CmDisks  BY DEF CmInv, CmTypes
<1>2. /\ cmDisk'.arch = cmDisk.arch /\ cmDisk'.store = cmDisk.store
      /\ cmDisk'.conf = cmDisk.conf /\ cmDisk'.file = cmDisk.file
      /\ cmDisk'.host = cmDisk.host /\ cmDisk'.agent = cmDisk.agent
      /\ cmDisk'.old = cmDisk.old /\ cmDisk'.new = cmDisk.new
      /\ cmDisk'.karch = cmDisk.karch /\ cmDisk'.export = ex
  BY <1>1 DEF CmDisks
<1>3. ASSUME NEW c, CmExported(c, cmDisk)
      PROVE  c \in Held(cmDisk') \/ CmExcused(p, c)
  <2>1. PICK v \in EnvVar : CmPresent(cmDisk.export[v]) /\ c = <<v, cmDisk.export[v]>>
    BY <1>3 DEF CmExported
  <2>2. v \in Slot  BY DEF Slot
  <2>3. CASE ex[v] = cmDisk.export[v]
    <3>1. CmExported(c, cmDisk')  BY <1>2, <2>1, <2>3 DEF CmExported
    <3> QED  BY <3>1, CmHeld
  <2>4. CASE cmDisk.export[v] = cmDisk.store[v]
    <3>1. CmStored(c, cmDisk')  BY <1>2, <2>1, <2>2, <2>4 DEF CmStored
    <3> QED  BY <3>1, CmHeld
  <2>5. CASE cmDisk.export[v] \in cmDisk.arch[v]
    <3>1. CmArchived(c, cmDisk')  BY <1>2, <2>1, <2>2, <2>5 DEF CmArchived
    <3> QED  BY <3>1, CmHeld
  <2> QED  BY <2>1, <2>3, <2>4, <2>5
<1> QED  BY <1>2, <1>3, CmNoneLost

\* ... and the lines of either user.
LEMMA CmLinesKept ==
    ASSUME CmInv, NEW p, cmDisk' \in CmDisks,
           cmDisk'.export = cmDisk.export, cmDisk'.arch = cmDisk.arch,
           cmDisk'.store = cmDisk.store, cmDisk'.conf = cmDisk.conf,
           cmDisk'.file = cmDisk.file, cmDisk'.old = cmDisk.old,
           cmDisk'.new = cmDisk.new, cmDisk'.karch = cmDisk.karch,
           \A l \in cmDisk.host \union cmDisk.agent :
             l \in cmDisk'.host \union cmDisk'.agent \/ CmExcused(p, <<"https", l>>)
    PROVE  CmKeeps(p)
<1>1. ASSUME NEW c, CmLined(c, cmDisk)
      PROVE  c \in Held(cmDisk') \/ CmExcused(p, c)
  <2>1. PICK l \in cmDisk.host \union cmDisk.agent : c = <<"https", l>>
    BY <1>1 DEF CmLined
  <2>2. CASE l \in cmDisk'.host \union cmDisk'.agent
    <3>1. CmLined(c, cmDisk')  BY <2>1, <2>2 DEF CmLined
    <3> QED  BY <3>1, CmHeld
  <2> QED  BY <2>1, <2>2
<1> QED  BY <1>1, CmNoneLost

----------------------------------------------------------------------------
(* No step loses anything.                                                 *)

LEMMA CmStoreLoses ==
    ASSUME CmInv, NEW p \in CmProc, storeHostAPIKey(p)
    PROVE  CmKeeps(p)
<1>0. PICK v : v = cmRun[p].var  OBVIOUS
<1>1. PICK value \in cmRun[p].got :
         CmWrites(p, "keyRemove", [cmDisk EXCEPT !.store[v] = value],
                  "keys", [cmDisk EXCEPT !.store[v] = "blank"])
  BY <1>0 DEF storeHostAPIKey
<1>2. cmRun[p].at = "keyStore" /\ v \in Slot
  BY <1>0 DEF storeHostAPIKey, CmInv, CmTypes, CmFits, Slot
<1>3. cmQuiet[p] => ~CmPresent(cmDisk.store[v])
  BY <1>0, <1>2 DEF CmInv, CmKnows
<1>4. cmDisk' = [cmDisk EXCEPT !.store[v] = value] /\ cmQuiet[p] => CmKeeps(p)
  BY <1>2, <1>3, CmStoreKept
<1>5. "keyRemove" \in CmStages /\ "keys" \in CmStages  BY DEF CmStages
<1> QED  BY <1>1, <1>2, <1>4, <1>5, CmWriteKept

LEMMA CmArchiveLoses ==
    ASSUME CmInv, NEW p \in CmProc, preserveSecretStoreConflict(p)
    PROVE  CmKeeps(p)
<1>1. PICK v, got : v = cmRun[p].var /\ got = cmRun[p].got  OBVIOUS
<1>2. cmRun[p].at = "keyArchive" /\ v \in Slot
      /\ CmWrites(p, "keyRemove", [cmDisk EXCEPT !.arch[v] = @ \union got], "keys", cmDisk)
  BY <1>1 DEF preserveSecretStoreConflict, CmInv, CmTypes, CmFits, Slot
<1>3. cmDisk' = [cmDisk EXCEPT !.arch[v] = @ \union got] => CmKeeps(p)
  BY <1>2, CmArchiveKept
<1>4. "keyRemove" \in CmStages /\ "keys" \in CmStages  BY DEF CmStages
<1> QED  BY <1>2, <1>3, <1>4, CmWriteKept

LEMMA CmExportLoses ==
    ASSUME CmInv, NEW p \in CmProc, removeLegacyAPIKeyExports(p)
    PROVE  CmKeeps(p)
<1>1. PICK v : v = cmRun[p].var  OBVIOUS
<1>2. PICK ex : ex = [cmDisk.export EXCEPT ![v] = "none"]  OBVIOUS
<1>3. PICK torn : torn = [cmDisk EXCEPT !.export = [w \in EnvVar |-> "none"]]  OBVIOUS
<1>4. cmRun[p].at = "keyRemove" /\ v \in EnvVar
      /\ CmWrites(p, "keys", [cmDisk EXCEPT !.export = ex], "keys", torn)
  BY <1>1, <1>2, <1>3 DEF removeLegacyAPIKeyExports, CmInv, CmTypes, CmFits
<1>5. \A w \in EnvVar : w = v \/ ex[w] = cmDisk.export[w]
  BY <1>2 DEF CmInv, CmTypes, CmDisks
<1>6. cmQuiet[p] /\ CmPresent(cmDisk.export[v]) =>
         cmDisk.export[v] \in {cmDisk.store[v]} \union cmDisk.arch[v]
  BY <1>1, <1>4 DEF CmInv, CmKnows
<1>7. cmDisk' = [cmDisk EXCEPT !.export = ex] /\ cmQuiet[p] => CmKeeps(p)
  BY <1>5, <1>6, CmExportKept
<1>8. "keys" \in CmStages  BY DEF CmStages
<1> QED  BY <1>4, <1>7, <1>8, CmWriteKept

LEMMA CmAnswersLose ==
    ASSUME CmInv, NEW p \in CmProc, StoreAnswers(p)
    PROVE  CmKeeps(p)
<1>1. cmRun[p].at = "configStore"  BY DEF StoreAnswers
<1>2. ASSUME NEW answer \in cmRun[p].got, NEW x,
             cmDisk' = [cmDisk EXCEPT !.store[answer[1]] = x]
      PROVE  CmKeeps(p)
  <2>1. PICK v : v = answer[1]  OBVIOUS
  <2>2. v \in EnvVar /\ v \in Slot
    BY <1>1, <1>2, <2>1 DEF CmInv, CmTypes, CmFits, Slot
  <2>3. CmExcused(p, <<v, cmDisk.store[v]>>)  BY <1>1, <2>2 DEF CmExcused
  <2> QED  BY <1>2, <2>1, <2>2, <2>3, CmStoreKept
<1>3. \/ cmDisk' = cmDisk
      \/ \E answer \in cmRun[p].got : \E x : cmDisk' = [cmDisk EXCEPT !.store[answer[1]] = x]
  BY DEF StoreAnswers, Fails, Dies
<1> QED  BY <1>2, <1>3, CmSameKept

LEMMA CmExportsLose ==
    ASSUME CmInv, NEW p \in CmProc, RemoveExports(p)
    PROVE  CmKeeps(p)
<1>1. cmRun[p].at = "configRemove"  BY DEF RemoveExports
<1>2. ASSUME NEW ex, cmDisk' = [cmDisk EXCEPT !.export = ex]  PROVE CmKeeps(p)
  <2>1. \A v \in EnvVar : CmExcused(p, <<v, cmDisk.export[v]>>)
    BY <1>1 DEF CmExcused
  <2> QED  BY <1>2, <2>1, CmExportKept
<1>3. \/ cmDisk' = cmDisk
      \/ \E ex : cmDisk' = [cmDisk EXCEPT !.export = ex]
  BY DEF RemoveExports, CmWrites, Fails, Dies
<1> QED  BY <1>2, <1>3, CmSameKept

LEMMA CmMergeLoses ==
    ASSUME CmInv, NEW p \in CmProc, mergeGitCredentialStoreLines(p)
    PROVE  CmKeeps(p)
<1>1. PICK lines : lines = cmRun[p].saw \union cmRun[p].got  OBVIOUS
<1>2. PICK disk : disk = [cmDisk EXCEPT !.host = lines]  OBVIOUS
<1>3. PICK torn : torn = [cmDisk EXCEPT !.host = {}]  OBVIOUS
<1>4. PICK err : err = HTTPSError(p)  OBVIOUS
<1>5. cmRun[p].at = "httpsWrite" /\ CmWrites(p, "httpsRemove", disk, err, torn)
      /\ lines \in SUBSET CmLines
  BY <1>1, <1>2, <1>3, <1>4 DEF mergeGitCredentialStoreLines, CmInv, CmTypes, CmFits
<1>6. cmQuiet[p] => cmDisk.host \subseteq lines
  BY <1>1, <1>5 DEF CmInv, CmKnows
<1>7. ASSUME cmDisk' = disk, cmQuiet[p]  PROVE CmKeeps(p)
  <2>1. /\ cmDisk' \in CmDisks /\ cmDisk'.host = lines /\ cmDisk'.agent = cmDisk.agent
        /\ cmDisk'.export = cmDisk.export /\ cmDisk'.arch = cmDisk.arch
        /\ cmDisk'.store = cmDisk.store /\ cmDisk'.conf = cmDisk.conf
        /\ cmDisk'.file = cmDisk.file /\ cmDisk'.old = cmDisk.old
        /\ cmDisk'.new = cmDisk.new /\ cmDisk'.karch = cmDisk.karch
    BY <1>2, <1>5, <1>7 DEF CmInv, CmTypes, CmDisks
  <2> QED  BY <1>6, <1>7, <2>1, CmLinesKept
<1>8. "httpsRemove" \in CmStages /\ err \in CmStages
  BY <1>4 DEF CmStages, HTTPSError
<1> QED  BY <1>5, <1>7, <1>8, CmWriteKept

LEMMA CmLinesLose ==
    ASSUME CmInv, NEW p \in CmProc, RemoveHTTPS(p)
    PROVE  CmKeeps(p)
<1>1. PICK disk : disk = [cmDisk EXCEPT !.agent = {}]  OBVIOUS
<1>2. PICK next, err : next = AfterHTTPS(p) /\ err = HTTPSError(p)  OBVIOUS
<1>3. cmRun[p].at = "httpsRemove" /\ CmWrites(p, next, disk, err, cmDisk)
  BY <1>1, <1>2 DEF RemoveHTTPS
<1>4. next \in CmStages /\ err \in CmStages /\ next # "httpsRemove"
  BY <1>2 DEF CmStages, AfterHTTPS, HTTPSError
<1>5. ASSUME cmDisk' = disk, cmQuiet[p]  PROVE CmKeeps(p)
  <2>1. /\ cmDisk' \in CmDisks /\ cmDisk'.host = cmDisk.host
        /\ cmDisk'.export = cmDisk.export /\ cmDisk'.arch = cmDisk.arch
        /\ cmDisk'.store = cmDisk.store /\ cmDisk'.conf = cmDisk.conf
        /\ cmDisk'.file = cmDisk.file /\ cmDisk'.old = cmDisk.old
        /\ cmDisk'.new = cmDisk.new /\ cmDisk'.karch = cmDisk.karch
    BY <1>1, <1>5 DEF CmInv, CmTypes, CmDisks
  <2>2. cmDisk.agent \subseteq cmDisk.host  BY <1>3, <1>5 DEF CmInv, CmKnows
  <2> QED  BY <2>1, <2>2, CmLinesKept
<1> QED  BY <1>3, <1>4, <1>5, CmWriteKept

LEMMA CmHelperLoses ==
    ASSUME CmInv, NEW p \in CmProc, RemoveHelper(p)
    PROVE  CmKeeps(p)
<1>1. \/ cmDisk' = cmDisk
      \/ cmDisk' = [cmDisk EXCEPT !.helper = FALSE]
  BY DEF RemoveHelper, CmWrites, Fails, Dies
<1>2. ASSUME cmDisk' = [cmDisk EXCEPT !.helper = FALSE]  PROVE CmKeeps(p)
  <2>1. /\ cmDisk' \in CmDisks /\ cmDisk'.host = cmDisk.host /\ cmDisk'.agent = cmDisk.agent
        /\ cmDisk'.export = cmDisk.export /\ cmDisk'.arch = cmDisk.arch
        /\ cmDisk'.store = cmDisk.store /\ cmDisk'.conf = cmDisk.conf
        /\ cmDisk'.file = cmDisk.file /\ cmDisk'.old = cmDisk.old
        /\ cmDisk'.new = cmDisk.new /\ cmDisk'.karch = cmDisk.karch
    BY <1>2 DEF CmInv, CmTypes, CmDisks
  <2> QED  BY <2>1, CmLinesKept
<1> QED  BY <1>1, <1>2, CmSameKept

LEMMA CmBrokerLoses ==
    ASSUME CmInv, NEW p \in CmProc, runGitHTTPSCredentialStore(p)
    PROVE  CmKeeps(p)
<1>1. cmRun[p].at = "session"  BY DEF runGitHTTPSCredentialStore
<1>2. PICK lines \in SUBSET CmLines :
         /\ cmDisk' = [cmDisk EXCEPT !.host = lines]
         /\ cmDisk.host \subseteq lines \/ Goes(p, "erased")
  BY DEF runGitHTTPSCredentialStore, CmInv, CmTypes, CmDisks, CmLines
<1>3. /\ cmDisk' \in CmDisks /\ cmDisk'.host = lines /\ cmDisk'.agent = cmDisk.agent
      /\ cmDisk'.export = cmDisk.export /\ cmDisk'.arch = cmDisk.arch
      /\ cmDisk'.store = cmDisk.store /\ cmDisk'.conf = cmDisk.conf
      /\ cmDisk'.file = cmDisk.file /\ cmDisk'.old = cmDisk.old
      /\ cmDisk'.new = cmDisk.new /\ cmDisk'.karch = cmDisk.karch
  BY <1>2 DEF CmInv, CmTypes, CmDisks
<1>4. ASSUME Goes(p, "erased"), NEW l  PROVE CmExcused(p, <<"https", l>>)
  <2>1. "erased" \in CmStages  BY DEF CmStages
  <2>2. cmRun'[p].at = "erased"  BY <1>4, <2>1, CmGoes DEF CmOnto, CmInv
  <2> QED  BY <1>1, <2>2 DEF CmExcused
<1> QED  BY <1>2, <1>3, <1>4, CmLinesKept

LEMMA CmCloudLoses ==
    ASSUME CmInv, NEW p \in CmProc, saveCloudStoredCredential(p)
    PROVE  CmKeeps(p)
<1>1. cmRun[p].at = "cloudSave"  BY DEF saveCloudStoredCredential
<1>2. PICK k \in cmRun[p].got :
         \/ cmDisk' = [cmDisk EXCEPT !.store[k[1]] = k[2]] /\ cmRun'[p] # cmRun[p]
         \/ cmDisk' = cmDisk
         \/ Goes(p, "crashed")
  <2>1. PICK k \in cmRun[p].got :
           \/ /\ cmDisk' = [cmDisk EXCEPT !.store[k[1]] = k[2]]
              /\ cmRun' = [cmRun EXCEPT ![p].got = @ \ {k},
                             ![p].at = IF cmRun[p].got = {k} THEN "cloudScrub" ELSE @]
           \/ cmDisk' = cmDisk
           \/ Goes(p, "crashed")
    BY DEF saveCloudStoredCredential, Fails, Dies
  <2>2. ASSUME cmRun' = [cmRun EXCEPT ![p].got = @ \ {k},
                           ![p].at = IF cmRun[p].got = {k} THEN "cloudScrub" ELSE @]
        PROVE  cmRun'[p] # cmRun[p]
    <3>1. PICK r, at : r = cmRun[p] /\ at = IF r.got = {k} THEN "cloudScrub" ELSE r.at
      OBVIOUS
    <3>2. PICK e : e = [r EXCEPT !.got = @ \ {k}, !.at = at]  OBVIOUS
    <3>3. CmShape(r)  BY <3>1 DEF CmInv, CmTypes
    <3>4. e.got = r.got \ {k}  BY <3>2, <3>3 DEF CmShape
    <3>5. cmRun'[p] = e  BY <2>2, <3>1, <3>2 DEF CmInv, CmTypes
    <3> QED  BY <2>1, <3>1, <3>4, <3>5
  <2> QED  BY <2>1, <2>2
<1>3. PICK s, y : s = k[1] /\ y = k[2]  OBVIOUS
<1>4. s \in CmCloud /\ y \in Secret /\ s \in Slot
  BY <1>1, <1>2, <1>3 DEF CmInv, CmTypes, CmFits, CmCloud, Slot
<1>5. CASE cmDisk' = [cmDisk EXCEPT !.store[k[1]] = k[2]] /\ cmRun'[p] # cmRun[p]
  <2>1. CASE cmQuiet[p]
    <3>1. y = CmKey(s)  BY <1>1, <1>2, <1>3, <2>1 DEF CmInv, CmKnows
    <3>2. cmDisk.store[s] \in {"none", "blank", y}
      BY <1>4, <3>1 DEF CmInv, CmFiles, Secret
    <3>3. CmPresent(cmDisk.store[s]) => cmDisk.store[s] = y
      BY <3>2 DEF CmPresent, Secret
    <3> QED  BY <1>3, <1>4, <1>5, <3>3, CmStoreKept
  <2>2. CASE ~cmQuiet[p]  BY <1>5, <2>2 DEF CmKeeps, CmExcused
  <2> QED  BY <2>1, <2>2
<1>6. CASE Goes(p, "crashed")
  <2>1. "crashed" \in CmStages  BY DEF CmStages
  <2>2. cmRun'[p].at = "crashed"  BY <1>6, <2>1, CmGoes DEF CmOnto, CmInv
  <2> QED  BY <1>1, <2>2 DEF CmKeeps, CmExcused
<1> QED  BY <1>2, <1>5, <1>6, CmSameKept

LEMMA CmScrubLoses ==
    ASSUME CmInv, NEW p \in CmProc, ScrubConfig(p)
    PROVE  CmKeeps(p)
<1>1. PICK disk : disk = [cmDisk EXCEPT !.conf = [f \in Fields |-> "none"]]  OBVIOUS
<1>2. cmRun[p].at = "cloudScrub" /\ CmWrites(p, "cloudFile", disk, "cloudFile", disk)
  BY <1>1 DEF ScrubConfig
<1>3. ASSUME cmDisk' = disk, cmQuiet[p]  PROVE CmKeeps(p)
  <2>1. /\ cmDisk'.export = cmDisk.export /\ cmDisk'.arch = cmDisk.arch
        /\ cmDisk'.store = cmDisk.store /\ cmDisk'.host = cmDisk.host
        /\ cmDisk'.agent = cmDisk.agent
        /\ cmDisk'.file = cmDisk.file /\ cmDisk'.old = cmDisk.old
        /\ cmDisk'.new = cmDisk.new /\ cmDisk'.karch = cmDisk.karch
    BY <1>1, <1>3 DEF CmInv, CmTypes, CmDisks
  <2>2. ASSUME NEW c, CmConfigured(c, cmDisk)  PROVE c \in Held(cmDisk')
    <3>1. PICK f \in CmCloud : cmDisk.conf[f] # "none" /\ c = <<f, cmDisk.conf[f]>>
      BY <2>2 DEF CmConfigured, CmCloud
    <3>2. CmKey(f) = cmDisk.conf[f]  BY <3>1 DEF CmKey, CmCloud
    <3>3. cmDisk.store[f] = cmDisk.conf[f]
      BY <1>2, <1>3, <3>1, <3>2 DEF CmInv, CmKnows
    <3>4. f \in Slot /\ CmPresent(cmDisk.conf[f])
      BY <3>1 DEF CmInv, CmTypes, CmDisks, CmCloud, Slot, CmPresent, Fields
    <3>5. CmStored(c, cmDisk')  BY <2>1, <3>1, <3>3, <3>4 DEF CmStored
    <3> QED  BY <3>5, CmHeld
  <2> QED  BY <2>1, <2>2, CmNoneLost
<1>4. "cloudFile" \in CmStages  BY DEF CmStages
<1> QED  BY <1>2, <1>3, <1>4, CmWriteKept

LEMMA CmFileReadLoses ==
    ASSUME CmInv, NEW p \in CmProc, ReadCloudFile(p)
    PROVE  CmKeeps(p)
<1>1. cmRun[p].at = "cloudFile"  BY DEF ReadCloudFile
<1>2. PICK after, file : after = AfterCloud(p) /\ file = cmDisk.file  OBVIOUS
<1>3. after \in CmStages /\ "cloudRemove" \in CmStages /\ "secret" \in Slot
  BY <1>2 DEF AfterCloud, CmStages, Slot
<1>4. CASE cmDisk' = cmDisk  BY <1>4, CmSameKept
<1>5. CASE /\ cmDisk.store["secret"] = "none"
           /\ CmWrites(p, "cloudRemove", [cmDisk EXCEPT !.store["secret"] = file],
                       after, [cmDisk EXCEPT !.store["secret"] = "blank"])
  <2>1. ~CmPresent(cmDisk.store["secret"])  BY <1>5 DEF CmPresent, Secret
  <2>2. cmDisk' = [cmDisk EXCEPT !.store["secret"] = file] => CmKeeps(p)
    BY <1>3, <2>1, CmStoreKept
  <2> QED  BY <1>1, <1>3, <1>5, <2>2, CmWriteKept
<1>6. CASE CmWrites(p, "cloudRemove", [cmDisk EXCEPT !.arch["secret"] = @ \union {file}],
                    after, cmDisk)
  <2>1. cmDisk' = [cmDisk EXCEPT !.arch["secret"] = @ \union {file}] => CmKeeps(p)
    BY <1>3, CmArchiveKept
  <2> QED  BY <1>1, <1>3, <1>6, <2>1, CmWriteKept
<1> QED  BY <1>2, <1>4, <1>5, <1>6 DEF ReadCloudFile

LEMMA CmFileLoses ==
    ASSUME CmInv, NEW p \in CmProc, RemoveCloudFile(p)
    PROVE  CmKeeps(p)
<1>1. PICK disk : disk = [cmDisk EXCEPT !.file = "none"]  OBVIOUS
<1>2. PICK after : after = AfterCloud(p)  OBVIOUS
<1>3. cmRun[p].at = "cloudRemove" /\ CmWrites(p, after, disk, after, cmDisk)
  BY <1>1, <1>2 DEF RemoveCloudFile
<1>4. after \in CmStages /\ after # "cloudRemove"
  BY <1>2 DEF AfterCloud, CmStages
<1>5. ASSUME cmDisk' = disk, cmQuiet[p]  PROVE CmKeeps(p)
  <2>1. /\ cmDisk'.export = cmDisk.export /\ cmDisk'.arch = cmDisk.arch
        /\ cmDisk'.store = cmDisk.store /\ cmDisk'.host = cmDisk.host
        /\ cmDisk'.agent = cmDisk.agent
        /\ cmDisk'.conf = cmDisk.conf /\ cmDisk'.old = cmDisk.old
        /\ cmDisk'.new = cmDisk.new /\ cmDisk'.karch = cmDisk.karch
    BY <1>1, <1>5 DEF CmInv, CmTypes, CmDisks
  <2>2. ASSUME NEW c, CmFiled(c, cmDisk)  PROVE c \in Held(cmDisk')
    <3>1. CmPresent(cmDisk.file) /\ c = <<"secret", cmDisk.file>>
      BY <2>2 DEF CmFiled
    <3>2. cmDisk.file \in {cmDisk.store["secret"]} \union cmDisk.arch["secret"]
      BY <1>3, <1>5, <3>1 DEF CmInv, CmKnows
    <3>3. "secret" \in Slot  BY DEF Slot
    <3>4. CmStored(c, cmDisk') \/ CmArchived(c, cmDisk')
      BY <2>1, <3>1, <3>2, <3>3 DEF CmStored, CmArchived
    <3> QED  BY <3>4, CmHeld
  <2> QED  BY <2>1, <2>2, CmNoneLost
<1> QED  BY <1>3, <1>4, <1>5, CmWriteKept

\* Directories that move stay what they are.
LEMMA CmDirectoryKept ==
    ASSUME NEW p,
           cmDisk'.export = cmDisk.export, cmDisk'.arch = cmDisk.arch,
           cmDisk'.store = cmDisk.store, cmDisk'.conf = cmDisk.conf,
           cmDisk'.file = cmDisk.file, cmDisk'.host = cmDisk.host,
           cmDisk'.agent = cmDisk.agent,
           cmDisk.new \subseteq cmDisk'.new, cmDisk.karch \subseteq cmDisk'.karch,
           \A k \in cmDisk.old \ cmDisk'.old :
             <<k, "old">> \in cmDisk'.new \union cmDisk'.karch
    PROVE  CmKeeps(p)
<1>1. ASSUME NEW c, CmDirectory(c, cmDisk)  PROVE c \in Held(cmDisk')
  <2>1. CmDirectory(c, cmDisk')  BY <1>1 DEF CmDirectory
  <2> QED  BY <2>1, CmHeld
<1> QED  BY <1>1, CmNoneLost

LEMMA CmRootLoses ==
    ASSUME CmInv, NEW p \in CmProc, ReadOldRoot(p)
    PROVE  CmKeeps(p)
<1>1. PICK moved : moved = cmDisk.old \X {"old"}  OBVIOUS
<1>2. PICK disk : disk = [cmDisk EXCEPT !.newRoot = TRUE, !.new = moved,
                                        !.old = {}, !.oldRoot = "none"]
  OBVIOUS
<1>3. \/ cmDisk' = cmDisk
      \/ ~cmDisk.newRoot /\ cmDisk' = disk
  BY <1>1, <1>2 DEF ReadOldRoot, CmWrites, Fails, Dies
<1>4. ASSUME ~cmDisk.newRoot, cmDisk' = disk  PROVE CmKeeps(p)
  <2>1. /\ cmDisk'.export = cmDisk.export /\ cmDisk'.arch = cmDisk.arch
        /\ cmDisk'.store = cmDisk.store /\ cmDisk'.host = cmDisk.host
        /\ cmDisk'.agent = cmDisk.agent
        /\ cmDisk'.conf = cmDisk.conf /\ cmDisk'.file = cmDisk.file
        /\ cmDisk'.new = moved /\ cmDisk'.karch = cmDisk.karch
    BY <1>2, <1>4 DEF CmInv, CmTypes, CmDisks
  <2>2. cmDisk.new = {}  BY <1>4 DEF CmInv, CmFiles
  <2>3. \A k \in cmDisk.old : <<k, "old">> \in moved  BY <1>1
  <2> QED  BY <2>1, <2>2, <2>3, CmDirectoryKept
<1> QED  BY <1>3, <1>4, CmSameKept

LEMMA CmOldRootLoses ==
    ASSUME CmInv, NEW p \in CmProc, RemoveOldRoot(p)
    PROVE  CmKeeps(p)
<1>1. \/ cmDisk' = cmDisk
      \/ cmDisk' = [cmDisk EXCEPT !.oldRoot = "none"]
  BY DEF RemoveOldRoot, Fails
<1>2. ASSUME cmDisk' = [cmDisk EXCEPT !.oldRoot = "none"]  PROVE CmKeeps(p)
  <2>1. /\ cmDisk'.export = cmDisk.export /\ cmDisk'.arch = cmDisk.arch
        /\ cmDisk'.store = cmDisk.store /\ cmDisk'.host = cmDisk.host
        /\ cmDisk'.agent = cmDisk.agent
        /\ cmDisk'.conf = cmDisk.conf /\ cmDisk'.file = cmDisk.file
        /\ cmDisk'.old = cmDisk.old
        /\ cmDisk'.new = cmDisk.new /\ cmDisk'.karch = cmDisk.karch
    BY <1>2 DEF CmInv, CmTypes, CmDisks
  <2> QED  BY <2>1, CmDirectoryKept
<1> QED  BY <1>1, <1>2, CmSameKept

LEMMA CmStepKeeps ==
    ASSUME CmInv, NEW p \in CmProc, Step(p)
    PROVE  CmKeeps(p)
<1>1. CASE \/ runMigrateCredentials(p) \/ LaunchSession(p) \/ runConfigAgent(p)
           \/ NextKey(p) \/ CmAsk(p) \/ ReadHTTPS(p) \/ CmEndSession(p)
           \/ ReadConfig(p) \/ Finish(p)
  <2>1. cmDisk' = cmDisk
    BY <1>1 DEF runMigrateCredentials, LaunchSession, runConfigAgent, CmStart,
       NextKey, CmAsk, ReadHTTPS, CmEndSession, ReadConfig, Finish
  <2> QED  BY <2>1, CmSameKept
<1>2. CASE \/ storeHostAPIKey(p) \/ preserveSecretStoreConflict(p)
           \/ removeLegacyAPIKeyExports(p) \/ StoreAnswers(p) \/ RemoveExports(p)
           \/ mergeGitCredentialStoreLines(p) \/ RemoveHTTPS(p) \/ RemoveHelper(p)
           \/ runGitHTTPSCredentialStore(p)
  BY <1>2, CmStoreLoses, CmArchiveLoses, CmExportLoses, CmAnswersLose, CmExportsLose,
     CmMergeLoses, CmLinesLose, CmHelperLoses, CmBrokerLoses
<1>3. CASE \/ saveCloudStoredCredential(p) \/ ScrubConfig(p) \/ ReadCloudFile(p)
           \/ RemoveCloudFile(p) \/ ReadOldRoot(p) \/ MoveEntry(p) \/ RemoveOldRoot(p)
  BY <1>3, CmCloudLoses, CmScrubLoses, CmFileReadLoses, CmFileLoses, CmRootLoses,
     CmEntryMoved, CmDirectoryKept, CmOldRootLoses DEF CmEntryKept
<1> QED  BY <1>1, <1>2, <1>3 DEF Step

LEMMA CmClean == CmInv => MigratedIsClean
<1> SUFFICES ASSUME CmInv, NEW p \in CmProc,
                    cmRun[p].prog = "migrate", cmRun[p].at = "done",
                    cmRun[p].alone, ~cmRun[p].trouble,
                    NEW s \in Slot \union {"https", "ssh"}
             PROVE  Status(s) # "needs-repair"
  BY DEF MigratedIsClean
<1>1. /\ \A v \in EnvVar : cmDisk.export[v] = "none"
      /\ cmDisk.agent = {} /\ ~cmDisk.helper /\ cmDisk.file = "none"
      /\ (\A f \in Fields : cmDisk.conf[f] = "none") /\ cmDisk.oldRoot = "none"
  BY DEF CmInv, CmDone, CmAfterKeys, CmAfterHTTPS, CmAfterHelper, CmAfterCloud, CmAfterFile
<1>2. ~LegacyResidue(s)
  BY <1>1, CmAssumption DEF LegacyResidue, Slot, Fields
<1> QED  BY <1>2 DEF Status

\* However commands of the migration, sessions and edits of the configuration
\* interleave, fail and crash, no credential disappears but in the four cases
\* of NothingLostQuietly, and a migration that ran alone and without trouble
\* leaves nothing in an old place.
THEOREM MigrationKeepsCredentials == CmSpec => CredentialsKept
<1> DEFINE Kept == \A c \in Held(cmDisk) \ Held(cmDisk') : \E p \in CmProc :
         \/ cmRun'[p].at = "crashed" /\ cmRun[p].at # "crashed"
         \/ cmRun'[p] # cmRun[p] /\ ~cmQuiet[p]
         \/ cmRun'[p].at = "erased" /\ cmRun[p].at = "session" /\ c[1] = "https"
         \/ cmRun[p].at \in {"configStore", "configRemove"} /\ c[1] \in EnvVar
<1>1. CmInv /\ [CmNext]_cmVars => [Kept]_cmVars
  <2> SUFFICES ASSUME CmInv, CmNext  PROVE Kept
    OBVIOUS
  <2>1. PICK p \in CmProc : Step(p)  BY DEF CmNext
  <2>2. CmKeeps(p)  BY <2>1, CmStepKeeps
  <2> QED  BY <2>2 DEF CmKeeps, CmExcused
<1>2. CmSpec => []CmInv  BY CmInvInit, CmInvNext, PTL DEF CmSpec
<1>3. CmSpec => [][Kept]_cmVars  BY <1>1, <1>2, PTL DEF CmSpec
<1>4. CmSpec => []MigratedIsClean  BY <1>2, CmClean, PTL
<1> QED  BY <1>3, <1>4, PTL DEF CredentialsKept, NothingLostQuietly

----------------------------------------------------------------------------
(* HostSetup: the types.                                                 *)

LEMMA FewAreFinite ==
    ASSUME NEW a, NEW b, NEW c, NEW d, NEW e
    PROVE  IsFiniteSet({a, b, c, d, e})
<1>1. IsFiniteSet({a}) /\ IsFiniteSet({b}) /\ IsFiniteSet({c}) /\ IsFiniteSet({d}) /\ IsFiniteSet({e})
    BY FS_Singleton
<1>2. IsFiniteSet({a} \union {b} \union {c} \union {d} \union {e})
    BY <1>1, FS_Union
<1>3. {a, b, c, d, e} = {a} \union {b} \union {c} \union {d} \union {e}
    OBVIOUS
<1> QED
    BY <1>2, <1>3

LEMMA ArtifactsAreFinite ==
    ASSUME NEW removes \in SUBSET Artifacts
    PROVE  IsFiniteSet(removes) /\ Cardinality(removes) \in Nat
<1> DEFINE others == {"devGroup", "homeTraverse", "localRepo", "wrappers", "completions"}
           rest == {"safeDirectory", "dnsBlocklist", "launchDaemon", "launchHelper", "launchHelper"}
           entries == {"sudoers", "maintenanceSudoers", "pfAnchor", "pfRegistered", "userRecord"}
           account == {"agentHome", "hiddenAccount", "agentHome", "agentHome", "agentHome"}
           home == {"umask", "seatbelt", "npmrc", "pipConf", "workspaceLink"}
<1>1. Artifacts = others \union rest \union entries \union account \union home
    BY DEF Artifacts, Sudoers, Firewall, Account, InAgentHome
<1>2. /\ IsFiniteSet(others) /\ IsFiniteSet(rest) /\ IsFiniteSet(entries)
      /\ IsFiniteSet(account) /\ IsFiniteSet(home)
    BY FewAreFinite
<1> HIDE DEF others, rest, entries, account, home
<1>3. IsFiniteSet(Artifacts)
    BY <1>1, <1>2, FS_Union
<1> QED
    BY <1>3, FS_Subset, FS_CardinalityType

LEMMA FourReleases == Cardinality(1 .. 4) = 4
<1>1. ASSUME NEW a \in Int, NEW b \in Int, a = 1, b = 4
      PROVE  Cardinality(a .. b) = 4
    <2>1. Cardinality(a .. b) = IF a > b THEN 0 ELSE b - a + 1
        BY FS_Interval
    <2> QED
        BY <1>1, <2>1
<1>2. 1 \in Int /\ 4 \in Int
    OBVIOUS
<1> QED
    BY <1>1, <1>2, Zenon

LEMMA LengthsAdd ==
    ASSUME NEW x, NEW y, NEW z, x = 11, y \in {0, 3}, z = x + y
    PROVE  z \in {11, 14}
OBVIOUS

LEMMA NoneLater ==
    ASSUME NEW x, NEW y, x \in 0 .. 16, y \in {11, 14}, x <= y
    PROVE  x <= 14
OBVIOUS

\* The rollback has eleven or fourteen removals, all of artifacts.
LEMMA RollbackLength ==
    /\ RollbackSteps \in Seq(Removals) /\ Len(RollbackSteps) \in {11, 14}
<1> DEFINE c == CoreRollbackSteps
           d == DestructiveRollbackSteps
<1>1. c \in Seq(Removals) /\ Len(c) = 11
    BY CoreByNumber DEF EntriesFirst
<1>2. d \in Seq(Removals) /\ Len(d) \in {0, 3}
    <2>1. CASE hsOptions.delete
        <3>1. /\ RollbackAgentUser \in Seq(Removals) /\ Len(RollbackAgentUser) = 2
              /\ RollbackDevGroup \in Seq(Removals) /\ Len(RollbackDevGroup) = 1
            BY DEF RollbackAgentUser, RollbackDevGroup, Removals, Artifacts, Account, InAgentHome
        <3>2. /\ RollbackAgentUser \o RollbackDevGroup \in Seq(Removals)
              /\ Len(RollbackAgentUser \o RollbackDevGroup) = Len(RollbackAgentUser) + Len(RollbackDevGroup)
            BY <3>1, ConcatAt, Zenon
        <3>3. Len(RollbackAgentUser \o RollbackDevGroup) = 3
            BY <3>1, <3>2
        <3> QED
            BY <2>1, <3>2, <3>3 DEF DestructiveRollbackSteps
    <2>2. CASE ~hsOptions.delete
        BY <2>2 DEF DestructiveRollbackSteps
    <2> QED
        BY <2>1, <2>2
<1> HIDE DEF c, d
<1>3. c \o d \in Seq(Removals) /\ Len(c \o d) = Len(c) + Len(d)
    BY <1>1, <1>2, ConcatAt
<1>4. Len(c \o d) \in {11, 14}
    BY <1>1, <1>2, <1>3, LengthsAdd
<1> QED
    BY <1>3, <1>4 DEF RollbackSteps, c, d

LEMMA WritesAreNames ==
    ASSUME NEW i \in 1 .. 15
    PROVE  Writes(SetupSteps[i]) \in Seq(Names)
BY WriteLists

\* What setup writes are artifacts, and the backup is of what the user has.
LEMMA WrittenTypes ==
    ASSUME HsTypeOK, NEW i \in 1 .. 15, NEW k \in 0 .. Len(Writes(SetupSteps[i])),
           Written(Writes(SetupSteps[i]), k)
    PROVE  /\ hsHost' \subseteq Artifacts
           /\ hsPf' \in [user : 0 .. MaxPfEdits, backup : 0 .. MaxPfEdits]
<1> DEFINE w == Writes(SetupSteps[i])
<1>1. w \in Seq(Names)
    BY WritesAreNames
<1>2. hsPf' = hsPf \/ hsPf' = [hsPf EXCEPT !.backup = hsPf.user]
    BY DEF Written
<1>3. Written(w, k) /\ k \in 0 .. Len(w)
    OBVIOUS
<1> HIDE DEF w
<1>4. \A j \in 1 .. k : w[j] \in Names
    BY <1>1, <1>3
<1>5. Put(w, k) \subseteq Artifacts
    BY <1>4 DEF Put, Names
<1>6. hsHost' = hsHost \union Put(w, k)
    BY <1>1, <1>3, WrittenPuts
<1> QED
    BY <1>2, <1>5, <1>6 DEF HsTypeOK

LEMMA HsTypesInit == HsInit => HsTypeOK
<1> SUFFICES ASSUME HsInit
             PROVE  HsTypeOK
    OBVIOUS
<1>1. hsHost \subseteq Artifacts /\ hsVersion \in Versions \union {0, -1}
    BY DEF HsInit, SetUpBy, Versions, KnownVersions
<1>2. hsPf \in [user : 0 .. MaxPfEdits, backup : 0 .. MaxPfEdits]
    BY HsAssumption DEF HsAssumption, HsInit
<1>3. hsOptions \in [claude : BOOLEAN, maintenance : BOOLEAN, delete : BOOLEAN,
                     version : BinaryVersions \union {0}]
    BY DEF HsInit, NoOptions
<1>4. hsCommands \in 0 .. MaxHostCommands /\ hsFailures \in 0 .. MaxRemovalFailures
    BY HsAssumption DEF HsAssumption, HsInit
<1>5. hsPhase = "idle" /\ hsStep = 0 /\ hsStuck = {} /\ hsTorn = FALSE
    BY DEF HsInit
<1>6. 0 \in 0 .. Len(SetupSteps) + 1
    BY SetupLength
<1> QED
    BY <1>1, <1>2, <1>3, <1>4, <1>5, <1>6 DEF HsTypeOK

\* No more removals fail than may.
LEMMA FailuresAreBounded ==
    ASSUME HsTypeOK, NEW removes \in SUBSET Artifacts, NEW kept \in Failing(removes)
    PROVE  hsFailures + Cardinality(kept) \in 0 .. MaxRemovalFailures
<1>1. kept \in SUBSET Artifacts /\ hsFailures + Cardinality(kept) <= MaxRemovalFailures
    BY DEF Failing
<1>2. Cardinality(kept) \in Nat
    BY <1>1, ArtifactsAreFinite
<1> QED
    BY <1>1, <1>2 DEF HsTypeOK, HsAssumption

LEMMA StartTypes ==
    ASSUME HsTypeOK, NEW phase \in {"migrate", "down"},
           NEW options \in [claude : BOOLEAN, maintenance : BOOLEAN, delete : BOOLEAN,
                            version : BinaryVersions \union {0}],
           Start(phase, options), UNCHANGED <<hsHost, hsPf, hsVersion, hsStuck, hsTorn, hsFailures>>
    PROVE  HsTypeOK'
<1>1. hsCommands' \in 0 .. MaxHostCommands
    BY HsAssumption DEF HsAssumption, Start, HsTypeOK
<1> QED
    BY <1>1, SetupLength DEF Start, HsTypeOK

LEMMA HsTypesStep == HsTypeOK /\ HsInv /\ [HsNext]_hsVars => HsTypeOK'
<1> SUFFICES ASSUME HsTypeOK, HsInv, [HsNext]_hsVars
             PROVE  HsTypeOK'
    OBVIOUS
<1>1. CASE RunInit
    <2>1. PICK claude, maintenance \in BOOLEAN, v \in BinaryVersions :
             Start("migrate", [NoOptions EXCEPT !.claude = claude, !.maintenance = maintenance,
                                                !.version = v])
        BY <1>1, Zenon DEF RunInit
    <2> QED
        BY <1>1, <2>1, StartTypes DEF RunInit, NoOptions
<1>2. CASE RunMigrations
    <2>1. CASE PendingMigrations = {} \/ hsStep > Cardinality(KnownVersions)
        BY <1>2, <2>1, SetupLength DEF RunMigrations, HsTypeOK
    <2>2. CASE ~(PendingMigrations = {} \/ hsStep > Cardinality(KnownVersions))
        <3>1. MigrateUp(InstalledVersion) /\ hsStep' = hsStep + 1 /\ UNCHANGED hsPhase
            BY <1>2, <2>2 DEF RunMigrations
        <3>2. Cardinality(KnownVersions) = 4
            BY FourReleases DEF KnownVersions
        <3>3. hsStep' \in 0 .. Len(SetupSteps) + 1
            BY <2>2, <3>1, <3>2, SetupLength DEF HsTypeOK
        <3>4. InstalledVersion + 1 \in KnownVersions
            <4>1. PICK v \in PendingMigrations : TRUE
                BY <2>2
            <4> QED
                BY <4>1 DEF PendingMigrations, KnownVersions
        <3>5. hsVersion' \in Versions \union {0, -1}
            BY <3>1, <3>4 DEF MigrateUp, HsTypeOK, Versions
        <3>6. hsHost' \subseteq Artifacts
            BY <3>1 DEF MigrateUp, HsTypeOK
        <3> QED
            BY <1>2, <3>1, <3>3, <3>5, <3>6 DEF RunMigrations, HsTypeOK
    <2> QED
        BY <2>1, <2>2
<1>3. CASE RunSetupStep
    <2>1. hsStep \in 1 .. 15
        BY <1>3, SetupLength DEF RunSetupStep, HsInv
    <2>2. /\ hsHost' \subseteq Artifacts
          /\ hsPf' \in [user : 0 .. MaxPfEdits, backup : 0 .. MaxPfEdits]
        <3>1. Len(Writes(SetupSteps[hsStep])) \in 0 .. Len(Writes(SetupSteps[hsStep]))
            BY <2>1, WritesAreNames
        <3> QED
            BY <1>3, <2>1, <3>1, WrittenTypes DEF RunSetupStep
    <2> QED
        BY <1>3, <2>1, <2>2, SetupLength DEF RunSetupStep, HsTypeOK
<1>4. CASE SetupStepFails
    <2>1. hsStep \in 1 .. 15
        BY <1>4, SetupLength DEF SetupStepFails, HsInv
    <2>2. PICK k \in 0 .. Len(Writes(SetupSteps[hsStep])) : Written(Writes(SetupSteps[hsStep]), k)
        BY <1>4 DEF SetupStepFails
    <2>3. /\ hsHost' \subseteq Artifacts
          /\ hsPf' \in [user : 0 .. MaxPfEdits, backup : 0 .. MaxPfEdits]
        BY <2>1, <2>2, WrittenTypes
    <2>4. hsTorn' \in BOOLEAN
        BY <1>4 DEF SetupStepFails, HsTypeOK
    <2> QED
        BY <1>4, <2>3, <2>4, SetupLength DEF SetupStepFails, Ends, HsTypeOK
<1>5. CASE SaveVersion
    BY <1>5, HsAssumption, SetupLength DEF HsAssumption, SaveVersion, HsTypeOK
<1>6. CASE Return
    BY <1>6, SetupLength DEF Return, Ends, HsTypeOK
<1>7. CASE RunRollback
    <2>1. PICK delete \in BOOLEAN : Start("down", [NoOptions EXCEPT !.delete = delete])
        BY <1>7 DEF RunRollback
    <2> QED
        BY <1>7, <2>1, StartTypes DEF RunRollback, NoOptions
<1>8. CASE RunDownMigrations
    <2>1. PICK removes \in SUBSET Artifacts :
             \E kept \in Failing(removes) :
                hsHost' \subseteq hsHost /\ hsFailures' = hsFailures + Cardinality(kept)
        <3> DEFINE down == UNION {MigrateDown(v) : v \in 2 .. (IF hsVersion \in KnownVersions
                                                               THEN hsVersion ELSE 0)}
        <3>1. \E kept \in Failing(down \intersect hsHost) :
                 hsHost' = hsHost \ (down \ kept) /\ hsFailures' = hsFailures + Cardinality(kept)
            BY <1>8 DEF RunDownMigrations
        <3>2. down \intersect hsHost \in SUBSET Artifacts
            BY DEF HsTypeOK
        <3> HIDE DEF down
        <3> QED
            BY <3>1, <3>2
    <2>2. /\ hsHost' \subseteq hsHost /\ hsFailures' \in 0 .. MaxRemovalFailures
        BY <2>1, FailuresAreBounded
    <2> QED
        BY <1>8, <2>2, SetupLength DEF RunDownMigrations, HsTypeOK
<1>9. CASE RunRollbackStep
    <2>1. PICK kept \in Failing(RollbackSteps[hsStep] \intersect hsHost) :
             LET removed == (RollbackSteps[hsStep] \intersect hsHost) \ kept
             IN  /\ hsHost' = hsHost \ removed
                 /\ hsFailures' = hsFailures + Cardinality(kept)
                 /\ hsStuck' = (hsStuck \ removed) \union (kept \intersect Sudoers)
                 /\ hsTorn' = (hsTorn \/ kept \intersect Account # {})
                 /\ hsPf' \in IF "pfRegistered" \in removed
                              THEN {hsPf, [hsPf EXCEPT !.user = hsPf.backup]} ELSE {hsPf}
        BY <1>9 DEF RunRollbackStep
    <2>2. RollbackSteps[hsStep] \intersect hsHost \in SUBSET Artifacts
        BY DEF HsTypeOK
    <2>3. hsFailures' \in 0 .. MaxRemovalFailures
        BY <2>1, <2>2, FailuresAreBounded
    <2>4. /\ hsHost' \subseteq Artifacts /\ hsStuck' \subseteq Sudoers /\ hsTorn' \in BOOLEAN
          /\ hsPf' \in [user : 0 .. MaxPfEdits, backup : 0 .. MaxPfEdits]
        BY <2>1 DEF HsTypeOK
    <2>5. hsStep' \in 0 .. Len(SetupSteps) + 1
        <3>1. hsStep \in 0 .. 16 /\ hsStep <= Len(RollbackSteps) /\ hsStep' = hsStep + 1
            BY <1>9, SetupLength DEF RunRollbackStep, HsTypeOK
        <3>2. hsStep <= 14
            BY <3>1, RollbackLength, NoneLater
        <3> QED
            BY <3>1, <3>2, SetupLength
    <2> QED
        BY <1>9, <2>3, <2>4, <2>5 DEF RunRollbackStep, HsTypeOK
<1>10. CASE RollbackReturns
    BY <1>10, SetupLength DEF RollbackReturns, HsTypeOK
<1>11. CASE RollbackDies
    BY <1>11, SetupLength DEF RollbackDies, Ends, HsTypeOK
<1>12. CASE EditPfConf
    <2>1. hsPf.user + 1 \in 0 .. MaxPfEdits
        BY <1>12, HsAssumption DEF HsAssumption, EditPfConf, HsTypeOK
    <2>2. hsPf' = [user |-> hsPf.user + 1, backup |-> hsPf.backup]
        BY <1>12 DEF EditPfConf, HsTypeOK
    <2>3. hsPf' \in [user : 0 .. MaxPfEdits, backup : 0 .. MaxPfEdits]
        BY <2>1, <2>2 DEF HsTypeOK
    <2> QED
        BY <1>12, <2>3 DEF EditPfConf, HsTypeOK
<1>13. CASE UNCHANGED hsVars
    BY <1>13 DEF hsVars, HsTypeOK
<1> QED
    BY <1>1, <1>2, <1>3, <1>4, <1>5, <1>6, <1>7, <1>8, <1>9, <1>10, <1>11, <1>12, <1>13
    DEF HsNext

\* The host, the rollback and the counters have their types.
LEMMA HostSetupHasItsTypes == HsSpec => []HsTypeOK
BY HsTypesInit, HsTypesStep, HsInvInit, HsInvNext, PTL DEF HsSpec

----------------------------------------------------------------------------
(* LinuxSetup: the types.                                                *)

LEMMA LsNames == LsResources =
    {"distroProfile", "agentUser", "sharedGroup", "agentHome", "workspaceAccess", "toolHome",
     "firewallPolicy", "resolverPolicy", "cgroupRoot", "launchHelper", "sudoers"}
<1>1. LsResources = {LsSetupSteps[i] : i \in DOMAIN LsSetupSteps}
    BY DEF LsResources, Range
<1>2. DOMAIN LsSetupSteps = 1 .. 11
    BY DEF LsSetupSteps
<1>3. DOMAIN LsSetupSteps = {1, 2, 3, 4, 5, 6, 7, 8, 9, 10, 11}
    BY <1>2
<1> QED
    BY <1>1, <1>3 DEF LsSetupSteps

LEMMA LsStepsAreSeqs ==
    /\ LsSetupSteps \in Seq(LsResources)
    /\ \A r \in LsResources : <<r>> \in Seq(LsResources)
<1>1. LsSetupSteps \in Seq(LsResources)
    BY LsNames DEF LsSetupSteps
<1>2. \A r \in LsResources : <<r>> \in Seq(LsResources)
    OBVIOUS
<1> QED
    BY <1>1, <1>2

LEMMA LsRollbackIsSeq ==
    ASSUME NEW delete
    PROVE  LsRollbackSteps(delete) \in Seq(LsResources) /\ LsRollbackSteps(delete) # <<>>
<1> DEFINE first == <<"sudoers", "launchHelper", "cgroupRoot", "firewallPolicy", "resolverPolicy",
                      "workspaceAccess">>
<1>1. first \in Seq(LsResources) /\ Len(first) = 6
    BY LsNames
<1>2. /\ Asked("toolHome", delete) \in Seq(LsResources)
      /\ Asked("agentHome", delete) \in Seq(LsResources)
      /\ Asked("agentUser", delete) \in Seq(LsResources)
      /\ Asked("sharedGroup", delete) \in Seq(LsResources)
    BY LsNames, AskedIsSeq
<1> HIDE DEF first
<1>3. ASSUME NEW s \in Seq(LsResources), NEW t \in Seq(LsResources), Len(s) >= 6
      PROVE  s \o t \in Seq(LsResources) /\ Len(s \o t) >= 6
    BY <1>3, ConcatProperties
<1>10. Len(first) >= 6
    BY <1>1
<1> DEFINE a == first \o Asked("toolHome", delete)
           b == a \o Asked("agentHome", delete)
           c == b \o Asked("agentUser", delete)
           d == c \o Asked("sharedGroup", delete)
<1>4. a \in Seq(LsResources) /\ Len(a) >= 6
    BY <1>1, <1>10, <1>2, <1>3
<1> HIDE DEF a
<1>5. b \in Seq(LsResources) /\ Len(b) >= 6
    BY <1>2, <1>3, <1>4
<1> HIDE DEF b
<1>6. c \in Seq(LsResources) /\ Len(c) >= 6
    BY <1>2, <1>3, <1>5
<1> HIDE DEF c
<1>7. d \in Seq(LsResources) /\ Len(d) >= 6
    BY <1>2, <1>3, <1>6
<1> HIDE DEF d
<1>8. d # <<>>
    BY <1>7
<1>9. LsRollbackSteps(delete) = d
    BY DEF LsRollbackSteps, a, b, c, d, first
<1> QED
    BY <1>7, <1>8, <1>9

LEMMA LsTypesInit == LsInit => LsTypeOK
<1>1. 0 \in 0 .. MaxLinuxCommands /\ 0 \in 0 .. MaxLinuxDrift
    BY LsAssumption DEF LsAssumption
<1>2. <<>> \in Seq(LsResources)
    OBVIOUS
<1> QED
    BY <1>1, <1>2 DEF LsInit, LsTypeOK

\* Going through the steps ends with the last one.
LEMMA StepDoneTypes ==
    ASSUME NEW q \in Seq(LsResources), q # <<>>
    PROVE  /\ Head(q) \in LsResources
           /\ Tail(q) \in Seq(LsResources)
           /\ Tail(q) = <<>> <=> Len(q) = 1
<1>1. Len(q) \in Nat \ {0}
    BY EmptySeq, LenProperties
<1>2. Tail(q) \in Seq(LsResources) /\ Len(Tail(q)) = Len(q) - 1 /\ Head(q) \in LsResources
    BY HeadTailProperties
<1>3. Tail(q) = <<>> <=> Len(Tail(q)) = 0
    BY <1>2, EmptySeq
<1> QED
    BY <1>1, <1>2, <1>3

LEMMA ApplyTypes ==
    ASSUME LsTypeOK, NEW r \in LsResources, LsApply(r)
    PROVE  lsPresent' \subseteq LsResources
<1>1. "sudoers" \in LsResources
    BY LsNames
<1> QED
    BY <1>1 DEF LsApply, applyResource, applySudoers, LsTypeOK

LEMMA LsTypesStep == LsTypeOK /\ [LsNext]_lsVars => LsTypeOK'
<1> SUFFICES ASSUME LsTypeOK, [LsNext]_lsVars
             PROVE  LsTypeOK'
    OBVIOUS
<1>1. ASSUME BeginCommand, lsPhase' \in {"setup", "repair", "rollback"},
             lsSteps' \in Seq(LsResources), lsSteps' # <<>>
      PROVE  LsTypeOK'
    <2>1. lsCommands' \in 0 .. MaxLinuxCommands
        BY <1>1, LsAssumption DEF BeginCommand, LsTypeOK, LsAssumption
    <2> QED
        BY <1>1, <2>1 DEF BeginCommand, LsTypeOK
<1>2. CASE RunSetupSteps
    <2>1. LsSetupSteps # <<>>
        BY DEF LsSetupSteps
    <2> QED
        BY <1>1, <1>2, <2>1, LsStepsAreSeqs DEF RunSetupSteps
<1>3. CASE RunRepairAction
    <2>1. PICK r \in LsResources : lsSteps' = <<r>>
        BY <1>3 DEF RunRepairAction
    <2>2. lsSteps' \in Seq(LsResources) /\ lsSteps' # <<>>
        BY <2>1
    <2> QED
        BY <1>1, <1>3, <2>2 DEF RunRepairAction
<1>4. CASE runLinuxRollback
    BY <1>1, <1>4, LsRollbackIsSeq DEF runLinuxRollback
<1>5. ASSUME lsPhase # "idle"
      PROVE  /\ Head(lsSteps) \in LsResources
             /\ LsStepDone => /\ lsSteps' \in Seq(LsResources)
                              /\ lsPhase' \in {lsPhase, "idle"}
                              /\ lsPhase' = "idle" <=> lsSteps' = <<>>
    BY <1>5, StepDoneTypes DEF LsTypeOK, LsStepDone
<1>6. CASE runSetupStep
    <2>1. lsPresent' \subseteq LsResources
        BY <1>5, <1>6, ApplyTypes DEF runSetupStep
    <2> QED
        BY <1>5, <1>6, <2>1 DEF runSetupStep, LsTypeOK
<1>7. CASE applyLinuxSetupRepair
    <2>1. lsPresent' \subseteq LsResources
        BY <1>5, <1>7, ApplyTypes DEF applyLinuxSetupRepair
    <2> QED
        BY <1>7, <2>1 DEF applyLinuxSetupRepair, LsTypeOK
<1>8. CASE verifyLinuxSetupRepair
    BY <1>5, <1>8 DEF verifyLinuxSetupRepair, LsTypeOK
<1>9. CASE runRollbackStep
    BY <1>5, <1>9 DEF runRollbackStep, LsRollback, LsTypeOK
<1>10. CASE LinuxStepFails
    BY <1>10 DEF LinuxStepFails, LsTypeOK
<1>11. CASE LinuxDrifts
    <2>1. lsDrifts' \in 0 .. MaxLinuxDrift
        BY <1>11, LsAssumption DEF LinuxDrifts, LsTypeOK, LsAssumption
    <2> QED
        BY <1>11, <2>1 DEF LinuxDrifts, LsTypeOK
<1>12. CASE UNCHANGED lsVars
    BY <1>12 DEF lsVars, LsTypeOK
<1> QED
    BY <1>2, <1>3, <1>4, <1>6, <1>7, <1>8, <1>9, <1>10, <1>11, <1>12 DEF LsNext

\* What is present, the phase and its steps have their types.
LEMMA LinuxHasItsTypes == LsSpec => []LsTypeOK
BY LsTypesInit, LsTypesStep, PTL DEF LsSpec

----------------------------------------------------------------------------
(* DiagnosticRepair: the types.                                          *)

LEMMA DrTypesInit == DrInit => DrTypeOK
<1> SUFFICES ASSUME DrInit PROVE DrTypeOK
    OBVIOUS
<1>1. drHost \in Hosts
    BY DEF DrInit, SoundHost, Hosts
<1>2. 0 \in 0 .. MaxDrift /\ 0 \in 0 .. MaxDoctorRuns
    BY DrAssumption DEF DrAssumption
<1> QED
    BY <1>1, <1>2 DEF DrInit, DrTypeOK

LEMMA DrTypesStep == DrTypeOK /\ DrInv /\ DrInv' /\ [DrNext]_drVars => DrTypeOK'
<1> SUFFICES ASSUME DrTypeOK, DrInv, DrInv', [DrNext]_drVars
             PROVE  DrTypeOK'
    OBVIOUS
<1>1. drHost' \in Hosts /\ drBlind' \in BOOLEAN /\ drItems' \subseteq DOMAIN Checks
    BY DEF DrInv
<1>2. \A i \in drItems : Checks[i] \in DrFindings
    BY ChecksDiffer DEF DrTypeOK
<1>3. ASSUME drDrifts' = drDrifts, drRuns' = drRuns, drBlind' \in BOOLEAN,
             drReceipts' \subseteq DrFindings, drFailed' \subseteq DrFindings,
             drPhase' \in {"idle", "asking", "applying", "verifying"},
             drPhase' = "idle" <=> drItems' = {}
      PROVE  DrTypeOK'
    BY <1>1, <1>3 DEF DrTypeOK
<1>4. CASE diagnosticRepairPlan
    <2>1. PICK mode \in DrModes, full \in BOOLEAN, observed \in BOOLEAN,
               unread \in SUBSET ShellFindings :
             LET items == planDiagnosticRepairs(full, observed, unread)
                 mutates == mode \in {"fix-yes", "fix-interactive"} /\ items # {}
             IN  /\ drPhase' = CASE mutates /\ mode = "fix-yes" -> "applying"
                                 [] mutates /\ mode = "fix-interactive" -> "asking"
                                 [] OTHER -> "idle"
                 /\ drItems' = IF mutates THEN items ELSE {}
        BY <1>4 DEF diagnosticRepairPlan
    <2> DEFINE items == planDiagnosticRepairs(full, observed, unread)
    <2> HIDE DEF items
    <2>2. /\ drPhase' \in {"idle", "asking", "applying"}
          /\ drPhase' = "idle" <=> drItems' = {}
        BY <2>1 DEF items
    <2>3. drRuns' \in 0 .. MaxDoctorRuns
        BY <1>4, DrAssumption DEF diagnosticRepairPlan, DrTypeOK, DrAssumption
    <2> QED
        BY <1>1, <1>4, <2>2, <2>3 DEF diagnosticRepairPlan, DrTypeOK
<1>5. CASE confirmDiagnosticRepairPlan
    BY <1>3, <1>5 DEF confirmDiagnosticRepairPlan, DrTypeOK
<1>6. CASE diagnosticRepairPlanDeclined
    BY <1>3, <1>6 DEF diagnosticRepairPlanDeclined, DrTypeOK
<1>7. ASSUME NEW i \in drItems, NextItem(i)
      PROVE  /\ drPhase' \in {"idle", "applying"}
             /\ drPhase' = "idle" <=> drItems' = {}
    BY <1>7 DEF NextItem
<1>8. CASE ApplyItem
    <2>1. PICK i \in drItems :
             \/ NextItem(i) /\ drFailed' = drFailed \union {Checks[i]}
             \/ drPhase' = "verifying" /\ UNCHANGED <<drItems, drFailed>>
        BY <1>8 DEF ApplyItem
    <2>2. CASE NextItem(i) /\ drFailed' = drFailed \union {Checks[i]}
        BY <1>2, <1>3, <1>7, <1>8, <2>2 DEF ApplyItem, DrTypeOK
    <2>3. CASE drPhase' = "verifying" /\ UNCHANGED <<drItems, drFailed>>
        BY <1>3, <1>8, <2>3 DEF ApplyItem, DrTypeOK
    <2> QED
        BY <2>1, <2>2, <2>3
<1>9. CASE VerifyItem
    <2>1. PICK i \in drItems :
             /\ drReceipts' \subseteq drReceipts \union {Checks[i]}
             /\ drFailed' \subseteq drFailed \union {Checks[i]}
             /\ NextItem(i)
        BY <1>9 DEF VerifyItem
    <2> QED
        BY <1>2, <1>3, <1>7, <1>9, <2>1 DEF VerifyItem, DrTypeOK
<1>10. CASE DoctorDies
    BY <1>3, <1>10 DEF DoctorDies, DrTypeOK
<1>11. CASE HostDrifts
    <2>1. drDrifts' \in 0 .. MaxDrift
        BY <1>11, DrAssumption DEF HostDrifts, DrTypeOK, DrAssumption
    <2> QED
        BY <1>1, <1>11, <2>1 DEF HostDrifts, DrTypeOK
<1>12. CASE UNCHANGED drVars
    BY <1>12 DEF drVars, DrTypeOK
<1> QED
    BY <1>4, <1>5, <1>6, <1>8, <1>9, <1>10, <1>11, <1>12 DEF DrNext

\* The host, the items of a run and its receipts have their types.
LEMMA DoctorHasItsTypes == DrSpec => []DrTypeOK
BY DrTypesInit, DrTypesStep, DrInvInit, DrInvNext, PTL DEF DrSpec

----------------------------------------------------------------------------
(* Backup: the types.                                                    *)

\* The snapshots hold versions of the files that were written.
BkTypes ==
    /\ BkTypeOK
    /\ bkLocal \in Seq(0 .. MaxWork) /\ bkCloud \in Seq(0 .. MaxWork)

LEMMA BkTypesInit == BkInit => BkTypes
<1> SUFFICES ASSUME BkInit PROVE BkTypes
    OBVIOUS
<1>1. 0 \in 0 .. MaxWork /\ 1 \in 0 .. MaxWork /\ 1 \in 1 .. MaxWork
    BY BackupAssumption DEF BackupAssumption
<1>2. bkTree \in [src : 0 .. MaxWork, left : 0 .. MaxWork]
    BY <1>1 DEF BkInit
<1>3. /\ <<>> \in Seq(0 .. MaxWork) /\ Len(<<>>) <= MaxSnapshots
    BY EmptySeq, BackupAssumption DEF BackupAssumption
<1> QED
    BY <1>1, <1>2, <1>3 DEF BkInit, BkTypes, BkTypeOK

\* One snapshot more keeps the types, where there was room for one.
LEMMA SavedTypes ==
    ASSUME BkTypes, NEW q \in Seq(0 .. MaxWork), Len(q) < MaxSnapshots
    PROVE  Saved(q) \in Seq(0 .. MaxWork) /\ Len(Saved(q)) <= MaxSnapshots
<1>1. bkTree.src \in 0 .. MaxWork
    BY DEF BkTypes, BkTypeOK
<1>2. Append(q, bkTree.src) \in Seq(0 .. MaxWork) /\ Len(Append(q, bkTree.src)) = Len(q) + 1
    BY <1>1, AppendProperties
<1>3. Len(q) \in Nat
    BY LenProperties
<1> QED
    BY <1>2, <1>3, BackupAssumption DEF Saved, BackupAssumption

LEMMA SnapshotTypes ==
    ASSUME NEW q \in Seq(0 .. MaxWork), NEW i \in 1 .. Len(q)
    PROVE  q[i] \in 0 .. MaxWork
BY ElementOfSeq

LEMMA BkTypesStep == BkTypes /\ [BkNext]_bkVars => BkTypes'
<1> SUFFICES ASSUME BkTypes, [BkNext]_bkVars PROVE BkTypes'
    OBVIOUS
<1> USE DEF BkTypes, BkTypeOK, bkStores, bkRestore
<1>1. CASE UNCHANGED bkVars
    BY <1>1 DEF bkVars
<1>2. CASE MakeRepo \/ ConnectRepo \/ UpdateRetention \/ ConfigureCloud \/ EndSession
    BY <1>2 DEF MakeRepo, ConnectRepo, SetRetentionPolicy, UpdateRetention, ConfigureCloud, EndSession
<1>3. CASE StartSession
    <2>1. bkLocal' \in Seq(0 .. MaxWork) /\ Len(bkLocal') <= MaxSnapshots
        BY <1>3, SavedTypes DEF StartSession
    <2> QED
        BY <1>3, <2>1 DEF StartSession
<1>4. CASE Work
    <2>1. bkWork' \in 1 .. MaxWork /\ bkWork + 1 \in 0 .. MaxWork
        BY <1>4, BackupAssumption DEF Work, BackupAssumption
    <2>2. bkTree' \in [src : 0 .. MaxWork, left : 0 .. MaxWork]
        BY <1>4, <2>1 DEF Work
    <2> QED
        BY <1>4, <2>1, <2>2 DEF Work
<1>5. CASE CloudBackup
    <2>1. bkCloud' \in Seq(0 .. MaxWork) /\ Len(bkCloud') <= MaxSnapshots
        BY <1>5, SavedTypes DEF CloudBackup
    <2> QED
        BY <1>5, <2>1 DEF CloudBackup
<1>6. CASE LocalTarget
    <2>1. PICK n \in 1 .. Len(bkLocal) : bkTarget' = bkLocal[Len(bkLocal) + 1 - n]
        BY <1>6 DEF LocalTarget
    <2>2. Len(bkLocal) + 1 - n \in 1 .. Len(bkLocal)
        BY LenProperties
    <2>3. bkTarget' \in 0 .. MaxWork
        BY <2>1, <2>2, SnapshotTypes
    <2> QED
        BY <1>6, <2>3 DEF LocalTarget
<1>7. CASE CloudTarget
    <2>1. Len(bkCloud) \in 1 .. Len(bkCloud)
        BY <1>7, EmptySeq, LenProperties DEF CloudTarget
    <2>2. bkTarget' \in 0 .. MaxWork
        BY <1>7, <2>1, SnapshotTypes DEF CloudTarget
    <2> QED
        BY <1>7, <2>2 DEF CloudTarget
<1>8. CASE PreRestoreSnapshot
    <2>1. /\ bkLocal' \in Seq(0 .. MaxWork) /\ Len(bkLocal') <= MaxSnapshots
          /\ bkSafe' \in BOOLEAN
        BY <1>8, SavedTypes DEF PreRestoreSnapshot
    <2> QED
        BY <1>8, <2>1 DEF PreRestoreSnapshot
<1>9. CASE ClearProject \/ RestoreFails \/ RestoreEnds
    <2>1. 0 \in 0 .. MaxWork
        BY BackupAssumption DEF BackupAssumption
    <2>2. NoTree \in [src : 0 .. MaxWork, left : 0 .. MaxWork]
        BY <2>1 DEF NoTree
    <2> QED
        BY <1>9, <2>1, <2>2 DEF ClearProject, RestoreFails, RestoreEnds
<1>10. CASE RestoreFiles
    <2>1. bkTree' \in [src : 0 .. MaxWork, left : 0 .. MaxWork]
        BY <1>10 DEF RestoreFiles
    <2> QED
        BY <1>10, <2>1 DEF RestoreFiles
<1> QED
    BY <1>1, <1>2, <1>3, <1>4, <1>5, <1>6, <1>7, <1>8, <1>9, <1>10 DEF BkNext

\* The trees, the snapshots and the command in progress have their types.
LEMMA BackupHasItsTypes == BkSpec => []BkTypeOK
<1>1. BkTypes => BkTypeOK
    BY DEF BkTypes
<1> QED
    BY <1>1, BkTypesInit, BkTypesStep, PTL DEF BkSpec

----------------------------------------------------------------------------
(* HarnessAssets: the types.                                             *)

Copies == [v : Version, by : {"none", "agent", "hazmat"}]

LEMMA NothingIsACopy == NoCopy \in Copies /\ 0 \in Version /\ 1 \in Version
BY AssetsAssumption DEF AssetsAssumption, NoCopy, Copies, Version

LEMMA HaTypesInit == HaInit => HaTypeOK
<1> SUFFICES ASSUME HaInit PROVE HaTypeOK
    OBVIOUS
<1>1. haSrc \in [Asset -> Version] /\ haDst \in [Asset -> Copies] /\ haClock \in Version
    BY NothingIsACopy DEF HaInit
<1>2. /\ haStep \in [HaProcess -> {"idle", "lock", "judge", "copy", "swap", "place"}]
      /\ haWant \in [HaProcess -> SUBSET Asset]
      /\ haDesired \in [HaProcess -> [Asset -> Version]]
      /\ haMan \in [HaProcess -> SUBSET Asset] /\ haTodo \in [HaProcess -> SUBSET Asset]
      /\ haAsset \in [HaProcess -> SUBSET Asset] /\ haTemp \in [HaProcess -> Version]
      /\ haSeen \in [HaProcess -> Copies] /\ haAside \in [HaProcess -> Copies]
    BY NothingIsACopy DEF HaInit
<1> QED
    BY <1>1, <1>2 DEF HaInit, HaTypeOK, Copies

\* The end of a sync leaves the variables of its process in their types.
LEMMA EndSyncTypes ==
    ASSUME HaTypeOK, NEW p \in HaProcess, NEW loose \in SUBSET Asset, EndSync(p, loose),
           UNCHANGED <<haSrc, haClock>>, haManifest' \subseteq Asset, haDst' \in [Asset -> Copies]
    PROVE  HaTypeOK'
<1>1. [a \in Asset |-> 0] \in [Asset -> Version]
    BY NothingIsACopy
<1>2. /\ haStep' \in [HaProcess -> {"idle", "lock", "judge", "copy", "swap", "place"}]
      /\ haWant' \in [HaProcess -> SUBSET Asset]
      /\ haMan' \in [HaProcess -> SUBSET Asset] /\ haTodo' \in [HaProcess -> SUBSET Asset]
      /\ haAsset' \in [HaProcess -> SUBSET Asset]
    BY DEF EndSync, HaTypeOK
<1>3. haDesired' \in [HaProcess -> [Asset -> Version]]
    BY <1>1 DEF EndSync, HaTypeOK
<1>4. /\ haTemp' \in [HaProcess -> Version] /\ haSeen' \in [HaProcess -> Copies]
      /\ haAside' \in [HaProcess -> Copies]
    BY NothingIsACopy DEF EndSync, HaTypeOK, Copies
<1>5. haLock' \subseteq HaProcess /\ haLoose' \subseteq Asset
    BY DEF EndSync, HaTypeOK
<1> QED
    BY <1>2, <1>3, <1>4, <1>5 DEF HaTypeOK, Copies

LEMMA HaTypesStep == HaTypeOK /\ [HaNext]_haVars => HaTypeOK'
<1> SUFFICES ASSUME HaTypeOK, [HaNext]_haVars PROVE HaTypeOK'
    OBVIOUS
<1>0. /\ haDst \in [Asset -> Copies] /\ haSeen \in [HaProcess -> Copies]
      /\ haAside \in [HaProcess -> Copies]
    BY DEF HaTypeOK, Copies
<1>1. CASE UNCHANGED haVars
    BY <1>1 DEF haVars, HaTypeOK
<1>2. ASSUME NEW a \in Asset, EditSource(a) PROVE HaTypeOK'
    <2>1. haClock + 1 \in Version /\ haClock' = haClock + 1
        BY <1>2, AssetsAssumption DEF EditSource, HaTypeOK, Version, AssetsAssumption
    <2>2. haSrc' \in [Asset -> Version]
        BY <1>2, <2>1, NothingIsACopy DEF EditSource, HaTypeOK
    <2> QED
        BY <1>2, <2>1, <2>2 DEF EditSource, HaTypeOK, haItem
<1>3. ASSUME NEW a \in Asset, AgentWrites(a) PROVE HaTypeOK'
    <2>1. haClock + 1 \in Version /\ haClock' = haClock + 1
        BY <1>3, AssetsAssumption DEF AgentWrites, HaTypeOK, Version, AssetsAssumption
    <2>2. PICK v \in {haClock + 1, haSrc[a]} : haDst' = [haDst EXCEPT ![a] = [v |-> v, by |-> "agent"]]
        BY <1>3 DEF AgentWrites
    <2>3. [v |-> v, by |-> "agent"] \in Copies
        BY <2>1 DEF HaTypeOK, Copies
    <2>4. haDst' \in [Asset -> Copies]
        BY <1>0, <2>2, <2>3
    <2> QED
        BY <1>3, <2>1, <2>4 DEF AgentWrites, HaTypeOK, haItem, Copies
<1>4. ASSUME NEW want \in SUBSET Asset PROVE Desired(want) \in [Asset -> Version]
    BY NothingIsACopy DEF Desired, HaTypeOK
<1>5. ASSUME NEW p \in HaProcess, Preview(p) PROVE HaTypeOK'
    <2>1. PICK want \in Harness : /\ haWant' = [haWant EXCEPT ![p] = want]
                                  /\ haDesired' = [haDesired EXCEPT ![p] = Desired(want)]
        BY <1>5 DEF Preview
    <2>2. want \in SUBSET Asset
        BY DEF Harness, Asset
    <2>3. haWant' \in [HaProcess -> SUBSET Asset] /\ haDesired' \in [HaProcess -> [Asset -> Version]]
        BY <1>4, <2>1, <2>2 DEF HaTypeOK
    <2>4. haStep' \in [HaProcess -> {"idle", "lock", "judge", "copy", "swap", "place"}]
        BY <1>5 DEF Preview, HaGo, HaTypeOK
    <2> QED
        BY <1>5, <2>3, <2>4 DEF Preview, HaTypeOK, haFiles, haItem
<1>6. ASSUME NEW p \in HaProcess, Begin(p) PROVE HaTypeOK'
    <2>1. haDesired' \in [HaProcess -> [Asset -> Version]]
        BY <1>4, <1>6 DEF Begin, HaTypeOK
    <2>2. haStep' \in [HaProcess -> {"idle", "lock", "judge", "copy", "swap", "place"}]
        BY <1>6 DEF Begin, HaGo, HaTypeOK
    <2>3. /\ haMan' \in [HaProcess -> SUBSET Asset] /\ haTodo' \in [HaProcess -> SUBSET Asset]
          /\ haLock' \subseteq HaProcess
        BY <1>6 DEF Begin, LockManifest, HaTypeOK
    <2> QED
        BY <1>6, <2>1, <2>2, <2>3 DEF Begin, HaTypeOK, haFiles, haItem
<1>7. ASSUME NEW p \in HaProcess, NEW a \in Asset, Judge(p, a) PROVE HaTypeOK'
    <2>1. /\ haTodo' \in [HaProcess -> SUBSET Asset] /\ haMan' \in [HaProcess -> SUBSET Asset]
          /\ haAsset' \in [HaProcess -> SUBSET Asset]
          /\ haStep' \in [HaProcess -> {"idle", "lock", "judge", "copy", "swap", "place"}]
        <3>1. haTodo' \in [HaProcess -> SUBSET Asset]
            BY <1>7 DEF Judge, HaTypeOK
        <3>2. haMan' = haMan \/ haMan' = [haMan EXCEPT ![p] = @ \union {a}]
            BY <1>7 DEF Judge
        <3>3. haMan' \in [HaProcess -> SUBSET Asset]
            <4>1. haMan \in [HaProcess -> SUBSET Asset] /\ haMan[p] \union {a} \in SUBSET Asset
                BY DEF HaTypeOK
            <4> QED
                BY <3>2, <4>1
        <3>4. /\ haAsset' = haAsset \/ haAsset' = [haAsset EXCEPT ![p] = {a}]
              /\ haStep' = haStep \/ haStep' = [haStep EXCEPT ![p] = "copy"]
            BY <1>7 DEF Judge
        <3>5. haAsset' \in [HaProcess -> SUBSET Asset]
            <4>1. haAsset \in [HaProcess -> SUBSET Asset] /\ {a} \in SUBSET Asset
                BY DEF HaTypeOK
            <4> QED
                BY <3>4, <4>1
        <3>6. haStep' \in [HaProcess -> {"idle", "lock", "judge", "copy", "swap", "place"}]
            BY <3>4 DEF HaTypeOK
        <3> QED
            BY <3>1, <3>3, <3>5, <3>6
    <2>2. haSeen' \in [HaProcess -> Copies]
        BY <1>0, <1>7 DEF Judge
    <2> QED
        BY <1>7, <2>1, <2>2 DEF Judge, HaTypeOK, haFiles, Copies
<1>8. ASSUME NEW p \in HaProcess, Copy(p) PROVE HaTypeOK'
    <2>1. haStep' \in [HaProcess -> {"idle", "lock", "judge", "copy", "swap", "place"}]
        BY <1>8 DEF Copy, HaGo, HaTypeOK
    <2>2. haTemp' \in [HaProcess -> Version] /\ haAsset' \in [HaProcess -> SUBSET Asset]
        BY <1>8 DEF Copy, HaTypeOK
    <2>3. haSeen' \in [HaProcess -> Copies]
        BY <1>0, <1>8, NothingIsACopy DEF Copy
    <2> QED
        BY <1>8, <2>1, <2>2, <2>3 DEF Copy, HaTypeOK, haFiles, Copies
<1>9. ASSUME NEW p \in HaProcess, MoveAside(p) PROVE HaTypeOK'
    <2>1. haStep' \in [HaProcess -> {"idle", "lock", "judge", "copy", "swap", "place"}]
        BY <1>9 DEF MoveAside, HaGo, HaTypeOK
    <2>2. haDst' \in [Asset -> Copies] /\ haAside' \in [HaProcess -> Copies]
        <3>1. PICK a \in haAsset[p] : /\ haDst' = [haDst EXCEPT ![a] = NoCopy]
                                      /\ haAside' = [haAside EXCEPT ![p] = haDst[a]]
            BY <1>9 DEF MoveAside
        <3>2. haDst[a] \in Copies
            BY <1>0 DEF HaTypeOK
        <3> QED
            BY <1>0, <3>1, <3>2, NothingIsACopy
    <2> QED
        BY <1>9, <2>1, <2>2 DEF MoveAside, HaTypeOK, haItem, Copies
<1>10. ASSUME NEW p \in HaProcess, Place(p) PROVE HaTypeOK'
    <2>1. haStep' \in [HaProcess -> {"idle", "lock", "judge", "copy", "swap", "place"}]
        BY <1>10 DEF Place, HaGo, HaTypeOK
    <2>2. PICK a \in haAsset[p] :
             /\ \/ haDst' = [haDst EXCEPT ![a] = [v |-> haTemp[p], by |-> "hazmat"]]
                \/ haDst' = [haDst EXCEPT ![a] = haAside[p]]
                \/ haDst' = haDst
             /\ haMan' = [haMan EXCEPT ![p] = @ \union {a}] \/ haMan' = haMan
             /\ haLoose' = haLoose \union ({a} \ haMan[p]) \/ haLoose' = haLoose
        BY <1>10 DEF Place
    <2>3. /\ a \in Asset /\ [v |-> haTemp[p], by |-> "hazmat"] \in Copies
          /\ haAside[p] \in Copies /\ haMan[p] \union {a} \in SUBSET Asset
        BY <1>0 DEF HaTypeOK, Copies
    <2>4. /\ haDst' \in [Asset -> Copies] /\ haMan' \in [HaProcess -> SUBSET Asset]
          /\ haLoose' \subseteq Asset
        <3>1. haDst' \in [Asset -> Copies]
            BY <1>0, <2>2, <2>3
        <3>2. haMan \in [HaProcess -> SUBSET Asset] /\ haLoose \subseteq Asset
            BY DEF HaTypeOK
        <3>3. haMan' \in [HaProcess -> SUBSET Asset]
            BY <2>2, <2>3, <3>2
        <3>4. haLoose' \subseteq Asset
            BY <2>2, <2>3, <3>2
        <3> QED
            BY <3>1, <3>3, <3>4
    <2>5. haTemp' \in [HaProcess -> Version] /\ haAsset' \in [HaProcess -> SUBSET Asset]
        BY <1>10, NothingIsACopy DEF Place, HaTypeOK
    <2>6. haSeen' \in [HaProcess -> Copies] /\ haAside' \in [HaProcess -> Copies]
        BY <1>0, <1>10, NothingIsACopy DEF Place
    <2> QED
        BY <1>10, <2>1, <2>4, <2>5, <2>6 DEF Place, HaTypeOK, Copies
<1>11. ASSUME NEW p \in HaProcess, NEW a \in Asset, DeleteOne(p, a) PROVE HaTypeOK'
    <2>1. CASE UNCHANGED <<haLock, haStep, haWant, haDesired, haItem, haLoose>> /\
               haDst' = [haDst EXCEPT ![a] = NoCopy] /\ haMan' = [haMan EXCEPT ![p] = @ \ {a}] /\
               haTodo' = [haTodo EXCEPT ![p] = @ \ {a}]
        <3>1. haDst' \in [Asset -> Copies]
            BY <1>0, <2>1, NothingIsACopy
        <3>2. haMan' \in [HaProcess -> SUBSET Asset] /\ haTodo' \in [HaProcess -> SUBSET Asset]
            BY <2>1 DEF HaTypeOK
        <3> QED
            BY <1>11, <2>1, <3>1, <3>2 DEF DeleteOne, HaTypeOK, haItem, Copies
    <2>2. CASE EndSync(p, haLoose \union (haMan[p] \ haManifest)) /\ UNCHANGED haDst
        <3>1. haLoose \union (haMan[p] \ haManifest) \in SUBSET Asset
            BY DEF HaTypeOK
        <3>2. haManifest' \subseteq Asset /\ UNCHANGED <<haSrc, haClock>>
            BY <1>11 DEF DeleteOne, HaTypeOK
        <3> QED
            BY <1>0, <2>2, <3>1, <3>2, EndSyncTypes
    <2> QED
        BY <1>11, <2>1, <2>2 DEF DeleteOne
<1>12. ASSUME NEW p \in HaProcess, WriteManifest(p) PROVE HaTypeOK'
    <2>1. haLoose \ haMan[p] \in SUBSET Asset /\ haManifest' \subseteq Asset
        BY <1>12 DEF WriteManifest, HaTypeOK
    <2> QED
        BY <1>0, <1>12, <2>1, EndSyncTypes DEF WriteManifest
<1>13. ASSUME NEW p \in HaProcess, HaCrash(p) PROVE HaTypeOK'
    <2>1. haLoose \union (haMan[p] \ haManifest) \in SUBSET Asset /\ haManifest \subseteq Asset
        BY DEF HaTypeOK
    <2> QED
        BY <1>0, <1>13, <2>1, EndSyncTypes DEF HaCrash
<1> QED
    BY <1>1, <1>2, <1>3, <1>5, <1>6, <1>7, <1>8, <1>9, <1>10, <1>11, <1>12, <1>13 DEF HaNext

\* Sources, copies and the processes that sync them have their types.
LEMMA AssetsHaveTheirTypes == HaSpec => []HaTypeOK
BY HaTypesInit, HaTypesStep, PTL DEF HaSpec

----------------------------------------------------------------------------
(* RuntimeCapability: the types.                                         *)

\* The clock and the version stay in their ranges; the rest is in RcInv.
RcClock == rcNow \in 1..MaxNow /\ rcVersion \in 1..2

LEMMA RcTypesInit == RcInit => RcClock
<1>1. 1 \in 1 .. MaxNow
    BY CapabilityAssumption DEF CapabilityAssumption
<1> QED
    BY <1>1 DEF RcInit, RcClock

LEMMA RcTypesStep == RcClock /\ [RcNext]_rcVars => RcClock'
<1> SUFFICES ASSUME RcClock, [RcNext]_rcVars PROVE RcClock'
    OBVIOUS
<1>1. CASE RcTick \/ Upgrade
    BY <1>1, CapabilityAssumption DEF RcTick, Upgrade, RcClock, CapabilityAssumption
<1>2. CASE UNCHANGED <<rcNow, rcVersion>>
    BY <1>2 DEF RcClock
<1> QED
    BY <1>1, <1>2 DEF RcNext, SignVerifierResult, SignRevocationFeed, SignDeclaration, RouteWork, rcVars

\* Results, feeds and declarations have their types.
LEMMA CapabilityHasItsTypes == RcSpec => []RcTypeOK
<1>1. RcInv /\ RcClock => RcTypeOK
    <2> SUFFICES ASSUME RcInv, RcClock PROVE RcTypeOK
        OBVIOUS
    <2>1. \A i \in 1..Len(rcFeeds) : rcFeeds[i].state \in Lifecycle
        <3>1. \A i \in 1..Len(rcFeeds) : rcFeeds[i] \in Feed
            BY DEF RcInv
        <3> QED
            BY <3>1 DEF Feed
    <2> QED
        BY <2>1 DEF RcInv, RcClock, RcTypeOK
<1> QED
    BY <1>1, RcInvInit, RcInvStep, RcTypesInit, RcTypesStep, PTL DEF RcSpec

----------------------------------------------------------------------------
(* HarnessLifecycle: the types.                                          *)

LEMMA LcTypesInit == LcInit => LcTypeOK
<1> SUFFICES ASSUME LcInit PROVE LcTypeOK
    OBVIOUS
<1>1. lcFile \in Snapshots
    BY EmptyIsSnapshot DEF LcInit
<1>2. /\ lcArtifact \in [LcHarness -> ArtifactStates] /\ lcHistory \in [LcHarness -> Records]
    BY DEF LcInit, ArtifactStates, Records
<1>3. lcCount \in 0 .. MaxLcCommands
    BY LcAssumption DEF LcInit
<1> QED
    BY <1>1, <1>2, <1>3 DEF LcInit, LcTypeOK

\* What the commands hold follows from the invariant; what is left are the code, the
\* flag and the count.
LEMMA LcTypesLeft ==
    ASSUME LcInv', lcArtifact' \in [LcHarness -> ArtifactStates], lcClean' \in BOOLEAN,
           lcCount' \in 0 .. MaxLcCommands
    PROVE  LcTypeOK'
<1>1. \A p \in LcProcess : CommandOK(lcCommand[p])'
    BY DEF LcInv, LcTypes
<1>2. \A p \in LcProcess :
         \/ lcCommand'[p] = LcIdle
         \/ /\ lcCommand'[p].op \in Operations /\ lcCommand'[p].h \in LcHarness
            /\ lcCommand'[p].at \in LcPlaces /\ lcCommand'[p].snapshot \in Snapshots
    BY <1>1 DEF CommandOK
<1> QED
    BY <1>2 DEF LcTypeOK, LcInv, LcTypes, LcPlaces

LEMMA LcTypesStep == LcTypeOK /\ LcInv /\ LcInv' /\ [LcNext]_lcVars => LcTypeOK'
<1> SUFFICES ASSUME LcTypeOK, LcInv, LcInv', [LcNext]_lcVars PROVE LcTypeOK'
    OBVIOUS
<1>1. ASSUME lcArtifact' \in [LcHarness -> ArtifactStates], lcClean' \in BOOLEAN,
             lcCount' = lcCount
      PROVE  LcTypeOK'
    BY <1>1, LcTypesLeft DEF LcTypeOK
<1>2. ASSUME NEW h \in LcHarness, NEW a \in ArtifactStates
      PROVE  [lcArtifact EXCEPT ![h] = a] \in [LcHarness -> ArtifactStates]
    BY DEF LcTypeOK
<1>3. "absent" \in ArtifactStates /\ "managed" \in ArtifactStates /\ "drifted" \in ArtifactStates
    BY DEF ArtifactStates
<1>4. CASE UNCHANGED lcVars
    BY <1>1, <1>4 DEF lcVars, LcTypeOK
<1>5. ASSUME NEW h \in LcHarness, AgentChanges(h) PROVE LcTypeOK'
    <2>1. lcArtifact' \in [LcHarness -> ArtifactStates]
        BY <1>2, <1>3, <1>5 DEF AgentChanges
    <2> QED
        BY <1>1, <1>5, <2>1 DEF AgentChanges, LcTypeOK
<1>6. ASSUME NEW p \in LcProcess, NEW h \in LcHarness,
             \/ runManagedHarnessUpdate(p, h) \/ PlanLaunchUpdate(p, h) \/ RunImport(p, h)
             \/ RunSaveVersion(p, h) \/ PlanUninstall(p, h)
      PROVE  LcTypeOK'
    <2>1. /\ UNCHANGED <<lcArtifact, lcClean>>
          /\ lcCount < MaxLcCommands /\ lcCount' = lcCount + 1
        BY <1>6 DEF runManagedHarnessUpdate, PlanLaunchUpdate, RunImport, RunSaveVersion,
                    PlanUninstall, LcBegin
    <2>2. lcCount' \in 0 .. MaxLcCommands
        BY <2>1, LcAssumption DEF LcTypeOK
    <2> QED
        BY <2>1, <2>2, LcTypesLeft DEF LcTypeOK
<1>7. ASSUME NEW p \in LcProcess,
             \/ ApplyLaunchUpdate(p) \/ ResolveFails(p) \/ VerifyManualBinary(p)
             \/ PrepareDirectories(p) \/ UninstallStops(p) \/ UpdateHarnessState(p)
             \/ RemoveHarnessState(p) \/ LcSaveVersion(p) \/ LcTruncate(p) \/ Fill(p) \/ LcCrash(p)
      PROVE  LcTypeOK'
    <2>1. UNCHANGED <<lcArtifact, lcCount>> /\ lcClean' \in BOOLEAN
        BY <1>7 DEF ApplyLaunchUpdate, ResolveFails, VerifyManualBinary, PrepareDirectories,
                    UninstallStops, UpdateHarnessState, RemoveHarnessState, LcSaveVersion,
                    LcTruncate, Fill, LcCrash, LcTypeOK
    <2> QED
        BY <1>1, <2>1 DEF LcTypeOK
<1>8. ASSUME NEW p \in LcProcess, RunInstallOrUpdateStep(p) \/ InstallFails(p)
      PROVE  LcTypeOK'
    <2>1. lcCommand[p].h \in LcHarness
        BY <1>8, RunningCommand DEF RunInstallOrUpdateStep, InstallFails, LcPlaces
    <2>2. lcArtifact' \in [LcHarness -> ArtifactStates] /\ UNCHANGED <<lcClean, lcCount>>
        BY <1>2, <1>3, <1>8, <2>1 DEF RunInstallOrUpdateStep, InstallFails
    <2> QED
        BY <1>1, <2>2 DEF LcTypeOK
<1>9. ASSUME NEW p \in LcProcess, ExecuteUninstallPlan(p) PROVE LcTypeOK'
    <2>1. lcCommand[p].h \in LcHarness
        BY <1>9, RunningCommand DEF ExecuteUninstallPlan, LcPlaces
    <2>2. lcArtifact' \in [LcHarness -> ArtifactStates] /\ UNCHANGED <<lcClean, lcCount>>
        BY <1>2, <1>3, <1>9, <2>1 DEF ExecuteUninstallPlan, LcTypeOK
    <2> QED
        BY <1>1, <2>2 DEF LcTypeOK
<1>10. CASE RollbackState
    <2>1. lcArtifact' \in [LcHarness -> ArtifactStates] /\ UNCHANGED lcClean
        BY <1>3, <1>10 DEF RollbackState, LcTypeOK
    <2>2. lcCount' \in 0 .. MaxLcCommands
        BY <1>10, LcAssumption DEF RollbackState, LcTypeOK
    <2> QED
        BY <2>1, <2>2, LcTypesLeft DEF LcTypeOK
<1> QED
    BY <1>4, <1>5, <1>6, <1>7, <1>8, <1>9, <1>10 DEF LcNext

\* The record file, the artifacts and the processes have their types.
LEMMA LifecycleHasItsTypes == LcSpec => []LcTypeOK
BY LcTypesInit, LcTypesStep, LcInvInit, LcInvNext, PTL DEF LcSpec

----------------------------------------------------------------------------
(* HostImport: the types.                                                *)

LEMMA ImTypesInit == ImInit => ImTypeOK
<1> SUFFICES ASSUME ImInit PROVE ImTypeOK
    OBVIOUS
<1>1. ImTypes
    BY ImInvInit DEF ImInv
<1>2. imCount \in 0 .. MaxImports /\ imEdits \in 0 .. MaxEditsMade /\ imRaced = {}
    BY ImAssumption DEF ImInit
<1> QED
    BY <1>1, <1>2, ItemNames DEF ImTypes, ImTypeOK, ImItems

LEMMA ImTypesStep == ImTypeOK /\ ImInv /\ ImInv' /\ [ImNext]_imVars => ImTypeOK'
<1> SUFFICES ASSUME ImTypeOK, ImInv, ImInv', [ImNext]_imVars PROVE ImTypeOK'
    OBVIOUS
<1>1. ASSUME imRaced' \subseteq ToSet(Items), imCount' \in 0 .. MaxImports,
             imEdits' \in 0 .. MaxEditsMade
      PROVE  ImTypeOK'
    <2>1. ImTypes'
        BY DEF ImInv
    <2> QED
        BY <1>1, <2>1, ItemNames DEF ImTypes, ImTypeOK, ImItems
<1>2. CASE UNCHANGED imVars
    BY <1>1, <1>2 DEF imVars, ImTypeOK
<1>3. CASE RunBasicsImport
    <2>1. imCount' \in 0 .. MaxImports
        BY <1>3, ImAssumption DEF RunBasicsImport, ImTypeOK
    <2> QED
        BY <1>1, <1>3, <2>1 DEF RunBasicsImport, ImTypeOK
<1>4. ASSUME NEW item \in ToSet(Items), OthersChange(item) PROVE ImTypeOK'
    <2>1. imEdits' \in 0 .. MaxEditsMade
        BY <1>4, ImAssumption DEF OthersChange, ImTypeOK
    <2>2. imRaced' \subseteq ToSet(Items)
        BY <1>4 DEF OthersChange, ImTypeOK
    <2> QED
        BY <1>1, <1>4, <2>1, <2>2 DEF OthersChange, ImTypeOK
<1>5. CASE StopBeforeApply \/ ApplyStops
    BY <1>1, <1>5 DEF StopBeforeApply, ApplyStops, EndImport, ImTypeOK
<1>6. CASE \/ \E policy \in {"overwrite", "skip"} : ResolveConflicts(policy)
           \/ SkipItem \/ RemoveDestination \/ CopyPortablePath \/ writeImportedGitIdentity
           \/ writeImportedClaudeState \/ removeClaudeStateKeysFromAgent
           \/ writeStoredCredential \/ removeAgentCredential
    <2>1. UNCHANGED <<imRaced, imCount, imEdits>>
        BY <1>6 DEF ResolveConflicts, SkipItem, RemoveDestination, CopyPortablePath,
                    writeImportedGitIdentity, writeImportedClaudeState,
                    removeClaudeStateKeysFromAgent, writeStoredCredential, removeAgentCredential
    <2> QED
        BY <1>1, <2>1 DEF ImTypeOK
<1> QED
    BY <1>2, <1>3, <1>4, <1>5, <1>6 DEF ImNext

\* Host, agent and store, and the import in progress, have their types.
LEMMA ImportHasItsTypes == ImSpec => []ImTypeOK
BY ImTypesInit, ImTypesStep, ImInvInit, ImInvNext, PTL DEF ImSpec

----------------------------------------------------------------------------
(* Configuration: the types.                                             *)

ConfigProfiles == [ProfileName -> HostArg \union {NoProfile}]
ConfigKeys == [KeyName -> KeyEntry]

\* A configuration is its four parts, and stays one when one of them is replaced.
LEMMA ConfigParts ==
    ASSUME NEW cfg \in ConfigRecord
    PROVE  /\ cfg.profiles \in ConfigProfiles /\ cfg.keys \in ConfigKeys
           /\ cfg.exposed \in BOOLEAN /\ cfg.legacy \in BOOLEAN
BY DEF ConfigRecord, ConfigProfiles, ConfigKeys

LEMMA KeysPut ==
    ASSUME NEW cfg \in ConfigRecord, NEW q \in ConfigKeys
    PROVE  [cfg EXCEPT !.keys = q] \in ConfigRecord
BY DEF ConfigRecord, ConfigKeys

LEMMA ProfilesPut ==
    ASSUME NEW cfg \in ConfigRecord, NEW r \in ConfigProfiles
    PROVE  [cfg EXCEPT !.profiles = r] \in ConfigRecord
BY DEF ConfigRecord, ConfigProfiles

LEMMA FlagsPut ==
    ASSUME NEW cfg \in ConfigRecord, NEW b \in BOOLEAN
    PROVE  [cfg EXCEPT !.exposed = b] \in ConfigRecord /\ [cfg EXCEPT !.legacy = b] \in ConfigRecord
BY DEF ConfigRecord

LEMMA EntriesTyped ==
    /\ NoKey \in KeyEntry
    /\ \A s \in Source, h \in HostArg : [from |-> s, hosts |-> h] \in KeyEntry
    /\ \A e \in KeyEntry, m \in ProfileName : e # NoKey => [e EXCEPT !.from = m] \in KeyEntry
    /\ \A e \in KeyEntry : e # NoKey => e.from \in Source /\ e.hosts \in HostArg
BY DEF KeyEntry, Source, NoKey

LEMMA DefaultTyped == ASSUME NEW b \in BOOLEAN PROVE DefaultConfig(b) \in ConfigRecord
BY EntriesTyped DEF DefaultConfig, ConfigRecord

LEMMA EarlierTyped == ASSUME NEW b \in BOOLEAN PROVE EarlierConfigs(b) \subseteq ConfigRecord
<1>1. ASSUME NEW h \in {{"h1"}, {"w1"}}
      PROVE  [DefaultConfig(b) EXCEPT !.profiles["P"] = h,
                                      !.keys["k1"] = [from |-> "P", hosts |-> {}]] \in ConfigRecord
    <2>1. h \in HostArg /\ {} \in HostArg
        BY DEF HostArg, Pattern
    <2>2. [from |-> "P", hosts |-> {}] \in KeyEntry
        BY <2>1, EntriesTyped DEF Source, ProfileName
    <2> DEFINE cfg == DefaultConfig(b)
               e == [from |-> "P", hosts |-> {}]
    <2>3. cfg \in ConfigRecord /\ cfg.profiles \in ConfigProfiles /\ cfg.keys \in ConfigKeys
        BY DefaultTyped, ConfigParts
    <2> HIDE DEF cfg, e
    <2>4. [cfg EXCEPT !.profiles["P"] = h, !.keys["k1"] = e]
            = [[cfg EXCEPT !.profiles = [cfg.profiles EXCEPT !["P"] = h]]
                   EXCEPT !.keys = [cfg.keys EXCEPT !["k1"] = e]]
        BY <2>3 DEF ConfigRecord
    <2>5. /\ [cfg.profiles EXCEPT !["P"] = h] \in ConfigProfiles
          /\ [cfg.keys EXCEPT !["k1"] = e] \in ConfigKeys
        BY <2>1, <2>2, <2>3 DEF ConfigProfiles, ConfigKeys, e
    <2>6. [cfg EXCEPT !.profiles["P"] = h, !.keys["k1"] = e] \in ConfigRecord
        BY <2>3, <2>4, <2>5, ProfilesPut, KeysPut
    <2> QED
        BY <2>6 DEF cfg, e
<1> QED
    BY <1>1, DefaultTyped DEF EarlierConfigs

\* What a command makes of a configuration is one.
LEMMA ResultsTyped == ASSUME NEW cfg \in ConfigRecord PROVE Results(cfg) \subseteq ConfigRecord
<1> DEFINE prof == cfg.profiles
           keys == cfg.keys
<1>1. /\ prof \in ConfigProfiles /\ keys \in ConfigKeys /\ cfg.exposed \in BOOLEAN
    BY ConfigParts
<1> HIDE DEF prof, keys
<1>2. ASSUME NEW k \in KeyName, NEW e \in KeyEntry PROVE [cfg EXCEPT !.keys[k] = e] \in ConfigRecord
    <2>1. [cfg EXCEPT !.keys[k] = e] = [cfg EXCEPT !.keys = [keys EXCEPT ![k] = e]]
        BY DEF ConfigRecord, keys
    <2>2. [keys EXCEPT ![k] = e] \in ConfigKeys
        BY <1>1 DEF ConfigKeys
    <2> QED
        BY <2>1, <2>2, KeysPut
<1>3. ASSUME NEW n \in ProfileName, NEW h \in HostArg \union {NoProfile}
      PROVE  [prof EXCEPT ![n] = h] \in ConfigProfiles
    BY <1>1 DEF ConfigProfiles
<1>4. runConfigSSHAdd(cfg) \subseteq ConfigRecord
    <2>1. ASSUME NEW k \in KeyName, NEW s \in Source, NEW h \in HostArg
          PROVE  [cfg EXCEPT !.keys[k] = [from |-> s, hosts |-> h]] \in ConfigRecord
        BY <1>2, EntriesTyped
    <2> QED
        BY <2>1 DEF runConfigSSHAdd
<1>5. runConfigSSHRemove(cfg) \subseteq ConfigRecord
    BY <1>2, EntriesTyped DEF runConfigSSHRemove, UsedKeys
<1>6. runConfigSSHUnset(cfg) \subseteq ConfigRecord
    <2>1. [k \in KeyName |-> NoKey] \in ConfigKeys
        BY EntriesTyped DEF ConfigKeys
    <2> QED
        BY <2>1, KeysPut DEF runConfigSSHUnset
<1>7. runConfigSSHProfileAdd(cfg) \subseteq ConfigRecord
    <2>1. ASSUME NEW n \in ProfileName, NEW h \in HostArg
          PROVE  [cfg EXCEPT !.profiles[n] = h] \in ConfigRecord
        <3>1. [cfg EXCEPT !.profiles[n] = h] = [cfg EXCEPT !.profiles = [prof EXCEPT ![n] = h]]
            BY DEF ConfigRecord, prof
        <3> QED
            BY <1>3, <3>1, ProfilesPut
    <2> QED
        BY <2>1 DEF runConfigSSHProfileAdd
<1>8. runConfigSSHProfileRemove(cfg) \subseteq ConfigRecord
    <2>1. ASSUME NEW n \in ProfileName
          PROVE  [cfg EXCEPT !.profiles[n] = NoProfile,
                             !.keys = [k \in KeyName |->
                                IF k \in findProfileReferrers(cfg, n) THEN NoKey ELSE @[k]]]
                   \in ConfigRecord
        <3> DEFINE q == [k \in KeyName |-> IF k \in findProfileReferrers(cfg, n) THEN NoKey ELSE keys[k]]
        <3>1. q \in ConfigKeys
            BY <1>1, EntriesTyped DEF ConfigKeys
        <3>2. [cfg EXCEPT !.profiles[n] = NoProfile,
                          !.keys = [k \in KeyName |->
                                IF k \in findProfileReferrers(cfg, n) THEN NoKey ELSE @[k]]]
                = [[cfg EXCEPT !.profiles = [prof EXCEPT ![n] = NoProfile]] EXCEPT !.keys = q]
            BY DEF ConfigRecord, prof, keys
        <3> HIDE DEF q
        <3> QED
            BY <1>3, <3>1, <3>2, ProfilesPut, KeysPut
    <2> QED
        BY <2>1, Zenon DEF runConfigSSHProfileRemove
<1>9. runConfigSSHProfileRename(cfg) \subseteq ConfigRecord
    <2>1. ASSUME NEW n \in ProfileName, NEW m \in ProfileName
          PROVE  Renamed(cfg, n, m) \in ConfigRecord
        <3> DEFINE q == [k \in KeyName |-> IF k \in findProfileReferrers(cfg, n)
                                           THEN [keys[k] EXCEPT !.from = m] ELSE keys[k]]
                   r == [[prof EXCEPT ![n] = NoProfile] EXCEPT ![m] = prof[n]]
        <3>1. ASSUME NEW k \in KeyName, k \in findProfileReferrers(cfg, n) PROVE keys[k] # NoKey
            BY <3>1 DEF findProfileReferrers, NoKey, ProfileName, keys
        <3>2. q \in ConfigKeys
            <4>1. \A k \in KeyName : keys[k] \in KeyEntry
                BY <1>1 DEF ConfigKeys
            <4> QED
                BY <3>1, <4>1, EntriesTyped DEF ConfigKeys
        <3>3. r \in ConfigProfiles
            BY <1>1 DEF ConfigProfiles
        <3>4. Renamed(cfg, n, m) = [[cfg EXCEPT !.profiles = r] EXCEPT !.keys = q]
            BY DEF Renamed, ConfigRecord, prof, keys
        <3> HIDE DEF q, r
        <3>5. [[cfg EXCEPT !.profiles = r] EXCEPT !.keys = q] \in ConfigRecord
            BY <3>2, <3>3, ProfilesPut, KeysPut
        <3> QED
            BY <3>4, <3>5
    <2> QED
        BY <2>1 DEF runConfigSSHProfileRename
<1>10. runConfigAccess(cfg) \subseteq ConfigRecord /\ runConfigSet(cfg) \subseteq ConfigRecord
    BY <1>1, FlagsPut DEF runConfigAccess, runConfigSet
<1> QED
    BY <1>4, <1>5, <1>6, <1>7, <1>8, <1>9, <1>10 DEF Results

CmdPlaces == {"idle", "migrate", "change", "truncate", "write", "truncateMigrated",
              "writeMigrated", "removeSecret"}

\* The keys of a session have names of the configuration.
CfgTypes == CfgTypeOK /\ \A k \in sessKeys : k.name \in KeyName

LEMMA CfgTypesInit == CfgInit => CfgTypes
<1> SUFFICES ASSUME CfgInit PROVE CfgTypes
    OBVIOUS
<1>1. cfgFile \in ConfigRecord /\ cloudAt \subseteq {"config", "store"} /\ secretAt \subseteq {"file", "store"}
    BY EarlierTyped DEF CfgInit
<1>2. cmdCount \in 0 .. MaxCommands
    BY ConfigurationAssumption DEF CfgInit, ConfigurationAssumption
<1>3. cmdCopy \in [Command -> ConfigRecord]
    BY DefaultTyped DEF CfgInit
<1> QED
    BY <1>1, <1>2, <1>3 DEF CfgInit, CfgTypes, CfgTypeOK

\* The commands leave the session alone, the session leaves the rest alone.
LEMMA CommandTypes ==
    ASSUME CfgTypes, UNCHANGED <<sessKeys, sshAnswer>>,
           cfgFile' \in ConfigRecord, cfgText' \in {"empty", "saved", "mixed", "broken"},
           cloudAt' \subseteq {"config", "store"}, secretAt' \subseteq {"file", "store"},
           cmdStep' \in [Command -> CmdPlaces], cmdCopy' \in [Command -> ConfigRecord],
           cmdCount' \in 0 .. MaxCommands
    PROVE  CfgTypes'
BY DEF CfgTypes, CfgTypeOK, CmdPlaces

LEMMA SessionTypes ==
    ASSUME CfgTypes, UNCHANGED <<cfgFile, cfgText, cloudAt, secretAt, cmdStep, cmdCopy, cmdCount>>,
           \A k \in sessKeys' : k.hosts \in HostArg /\ k.name \in KeyName,
           sshAnswer' \in [host : Host, key : KeyName \union {"refused"}] \union {NoAnswer}
    PROVE  CfgTypes'
BY DEF CfgTypes, CfgTypeOK

LEMMA GoTypes ==
    ASSUME CfgTypes, NEW c \in Command, NEW here, NEW there \in CmdPlaces, CmdGo(c, here, there)
    PROVE  cmdStep' \in [Command -> CmdPlaces]
BY DEF CmdGo, CfgTypes, CfgTypeOK, CmdPlaces

LEMMA ForgetTypes ==
    ASSUME CfgTypes, NEW c \in Command, Forget(c)
    PROVE  cmdCopy' \in [Command -> ConfigRecord]
BY DefaultTyped DEF Forget, CfgTypes, CfgTypeOK

LEMMA PutTyped ==
    ASSUME NEW cfg \in ConfigRecord, cfgFile \in ConfigRecord, PutText(cfg)
    PROVE  cfgFile' \in ConfigRecord /\ cfgText' \in {"empty", "saved", "mixed", "broken"}
<1>1. ASSUME NEW ps \in SUBSET ProfileName, NEW ks \in SUBSET KeyName,
             NEW e \in {cfg.exposed, cfgFile.exposed}
      PROVE  Mixed(cfg, cfgFile, ps, ks, e) \in ConfigRecord
    <2>1. /\ cfg.profiles \in ConfigProfiles /\ cfg.keys \in ConfigKeys
          /\ cfgFile.profiles \in ConfigProfiles /\ cfgFile.keys \in ConfigKeys
          /\ e \in BOOLEAN
        BY ConfigParts
    <2> DEFINE p == [n \in ProfileName |-> IF n \in ps THEN cfgFile.profiles[n]
                                           ELSE cfg.profiles[n]]
               q == [k \in KeyName |-> IF k \in ks THEN cfgFile.keys[k] ELSE cfg.keys[k]]
    <2>2. p \in ConfigProfiles /\ q \in ConfigKeys
        BY <2>1 DEF ConfigProfiles, ConfigKeys
    <2>3. Mixed(cfg, cfgFile, ps, ks, e)
            = [profiles |-> p, keys |-> q, exposed |-> e, legacy |-> FALSE]
        BY DEF Mixed
    <2> HIDE DEF p, q
    <2> QED
        BY <2>1, <2>2, <2>3 DEF ConfigRecord, ConfigProfiles, ConfigKeys
<1> QED
    BY <1>1 DEF PutText

LEMMA CommandStepTypes ==
    ASSUME CfgTypes, NEW c \in Command,
           \/ Load(c) \/ Migrate(c) \/ Change(c) \/ Truncate(c) \/ WriteConfig(c)
           \/ KillCommand(c) \/ LoadCloudSecretKey(c) \/ SaveCloudSecretKey(c) \/ ConfigCloud(c)
    PROVE  CfgTypes'
<1>0. /\ cmdStep \in [Command -> CmdPlaces] /\ cmdCopy \in [Command -> ConfigRecord]
      /\ cmdCopy[c] \in ConfigRecord
    BY DEF CfgTypes, CfgTypeOK, CmdPlaces
<1>1. {"idle", "migrate", "change", "truncate", "write", "truncateMigrated",
       "writeMigrated", "removeSecret"} \subseteq CmdPlaces
    BY DEF CmdPlaces
<1>2. CASE Load(c)
    <2>1. cmdStep' \in [Command -> CmdPlaces]
        BY <1>1, <1>2, GoTypes DEF Load
    <2>2. [cfgFile EXCEPT !.legacy = FALSE] \in ConfigRecord
        BY FlagsPut DEF CfgTypes, CfgTypeOK
    <2>3. cmdCopy' \in [Command -> ConfigRecord]
        BY <1>0, <1>2, <2>2 DEF Load
    <2>4. cmdCount' \in 0 .. MaxCommands
        BY <1>2, ConfigurationAssumption DEF Load, CfgTypes, CfgTypeOK, ConfigurationAssumption
    <2> QED
        BY <1>2, <2>1, <2>3, <2>4, CommandTypes DEF Load, CfgTypes, CfgTypeOK
<1>3. CASE Migrate(c)
    <2>1. cmdStep' \in [Command -> CmdPlaces]
        BY <1>1, <1>3, GoTypes DEF Migrate
    <2> QED
        BY <1>3, <2>1, CommandTypes DEF Migrate, CfgTypes, CfgTypeOK
<1>4. CASE Change(c)
    <2>1. cmdStep' \in [Command -> CmdPlaces]
        BY <1>1, <1>4, GoTypes DEF Change
    <2>2. cmdCopy' \in [Command -> ConfigRecord]
        BY <1>0, <1>4, ResultsTyped, ForgetTypes DEF Change
    <2> QED
        BY <1>4, <2>1, <2>2, CommandTypes DEF Change, CfgTypes, CfgTypeOK
<1>5. CASE Truncate(c)
    <2>1. cmdStep' \in [Command -> CmdPlaces]
        BY <1>1, <1>5, GoTypes DEF Truncate
    <2> QED
        BY <1>5, <2>1, CommandTypes DEF Truncate, CfgTypes, CfgTypeOK
<1>6. CASE WriteConfig(c)
    <2>1. cmdStep' \in [Command -> CmdPlaces]
        BY <1>1, <1>6, GoTypes DEF WriteConfig
    <2>2. cmdCopy' \in [Command -> ConfigRecord]
        BY <1>0, <1>6, ForgetTypes DEF WriteConfig
    <2>3. cfgFile' \in ConfigRecord /\ cfgText' \in {"empty", "saved", "mixed", "broken"}
        BY <1>0, <1>6, PutTyped DEF WriteConfig, CfgTypes, CfgTypeOK
    <2> QED
        BY <1>6, <2>1, <2>2, <2>3, CommandTypes DEF WriteConfig, CfgTypes, CfgTypeOK
<1>7. CASE KillCommand(c)
    <2>1. cmdStep' \in [Command -> CmdPlaces]
        BY <1>0, <1>1, <1>7 DEF KillCommand
    <2> QED
        BY <1>7, <2>1, ForgetTypes, CommandTypes DEF KillCommand, CfgTypes, CfgTypeOK
<1>8. CASE LoadCloudSecretKey(c)
    <2>1. cmdStep' \in [Command -> CmdPlaces]
        BY <1>1, <1>8, GoTypes DEF LoadCloudSecretKey
    <2>2. cmdCount' \in 0 .. MaxCommands
        BY <1>8, ConfigurationAssumption
        DEF LoadCloudSecretKey, CfgTypes, CfgTypeOK, ConfigurationAssumption
    <2> QED
        BY <1>8, <2>1, <2>2, CommandTypes DEF LoadCloudSecretKey, CfgTypes, CfgTypeOK
<1>9. CASE SaveCloudSecretKey(c)
    <2>1. cmdStep' \in [Command -> CmdPlaces]
        BY <1>1, <1>9, GoTypes DEF SaveCloudSecretKey
    <2> QED
        BY <1>9, <2>1, CommandTypes DEF SaveCloudSecretKey, CfgTypes, CfgTypeOK
<1>10. CASE ConfigCloud(c)
    <2>1. cmdStep' \in [Command -> CmdPlaces]
        BY <1>1, <1>10, GoTypes DEF ConfigCloud
    <2> QED
        BY <1>10, <2>1, CommandTypes DEF ConfigCloud, CfgTypes, CfgTypeOK
<1> QED
    BY <1>2, <1>3, <1>4, <1>5, <1>6, <1>7, <1>8, <1>9, <1>10

LEMMA CfgTypesStep == CfgTypes /\ [CfgNext]_cfgVars => CfgTypes'
<1> SUFFICES ASSUME CfgTypes, [CfgNext]_cfgVars PROVE CfgTypes'
    OBVIOUS
<1>1. CASE UNCHANGED cfgVars
    BY <1>1 DEF cfgVars, CfgTypes, CfgTypeOK
<1>2. CASE EditConfig
    <2>1. cmdCount' \in 0 .. MaxCommands
        BY <1>2, ConfigurationAssumption DEF EditConfig, CfgTypes, CfgTypeOK, ConfigurationAssumption
    <2>2. cfgFile' \in ConfigRecord /\ cfgText' \in {"saved", "broken"}
        BY <1>2, DefaultTyped DEF EditConfig, CfgTypes, CfgTypeOK
    <2> QED
        BY <1>2, <2>1, <2>2 DEF EditConfig, CfgTypes, CfgTypeOK
<1>3. CASE ResolveKeys
    <2>1. ASSUME NEW k \in UsedKeys(cfgFile) PROVE effectiveKeyHosts(cfgFile, k) \in HostArg
        <3>1. /\ k \in KeyName /\ cfgFile.keys[k] \in KeyEntry /\ cfgFile.keys[k] # NoKey
              /\ cfgFile.profiles \in ConfigProfiles
            BY ConfigParts DEF UsedKeys, CfgTypes, CfgTypeOK, ConfigKeys
        <3>2. cfgFile.keys[k].from \in Source /\ cfgFile.keys[k].hosts \in HostArg
            BY <3>1, EntriesTyped
        <3>3. ASSUME cfgFile.keys[k].from # "inline"
              PROVE  cfgFile.profiles[cfgFile.keys[k].from] \in HostArg
            <4>1. cfgFile.keys[k].from \in ProfileName
                BY <3>2, <3>3 DEF Source
            <4>2. cfgFile.profiles[cfgFile.keys[k].from] # NoProfile
                BY <1>3, <4>1 DEF ResolveKeys, FileLoads, Loads, ValidateProjectSSHProfileRefs
            <4> QED
                BY <3>1, <4>1, <4>2 DEF ConfigProfiles
        <3> QED
            BY <3>2, <3>3 DEF effectiveKeyHosts
    <2>2. \A k \in sessKeys' : k.hosts \in HostArg /\ k.name \in KeyName
        BY <1>3, <2>1 DEF ResolveKeys, UsedKeys
    <2> QED
        BY <1>3, <2>2, SessionTypes DEF ResolveKeys
<1>4. CASE CloseSession
    BY <1>4, SessionTypes DEF CloseSession
<1>5. ASSUME NEW h \in Host, SelectKey(h) PROVE CfgTypes'
    <2> DEFINE key == IF Cardinality(Matching(h)) = 1
                      THEN (CHOOSE k \in Matching(h) : TRUE).name ELSE "refused"
    <2>1. Matching(h) # {} => (CHOOSE k \in Matching(h) : TRUE) \in Matching(h)
        OBVIOUS
    <2>2. Cardinality(Matching(h)) = 1 => Matching(h) # {}
        BY FS_EmptySet
    <2>3. key \in KeyName \union {"refused"}
        BY <2>1, <2>2 DEF Matching, CfgTypes
    <2>4. sshAnswer' = [host |-> h, key |-> key]
        BY <1>5 DEF SelectKey
    <2> HIDE DEF key
    <2>5. sshAnswer' \in [host : Host, key : KeyName \union {"refused"}]
        BY <2>3, <2>4
    <2> QED
        BY <1>5, <2>5, SessionTypes DEF SelectKey, CfgTypes, CfgTypeOK
<1> QED
    BY <1>1, <1>2, <1>3, <1>4, <1>5, CommandStepTypes DEF CfgNext

\* The file, the commands and the keys of a session have their types.
LEMMA ConfigurationHasItsTypes == CfgSpec => []CfgTypeOK
<1>1. CfgTypes => CfgTypeOK
    BY DEF CfgTypes
<1> QED
    BY <1>1, CfgTypesInit, CfgTypesStep, PTL DEF CfgSpec

----------------------------------------------------------------------------
(* CredentialMigration: the types.                                        *)

\* The invariant of the migration says more than the types.
LEMMA CredentialsHaveTheirTypes == CmSpec => []CmTypeOK
<1>1. CmSpec => []CmInv
    BY CmInvInit, CmInvNext, PTL DEF CmSpec
<1>2. CmInv => CmTypeOK
    BY DEF CmInv, CmTypes, CmDisks, CmShape, CmTypeOK
<1> QED
    BY <1>1, <1>2, PTL

----------------------------------------------------------------------------
(* MCHost.                                                                 *)

\* Each component is in one of its initial states, whether it is to run or rests.
LEMMA ComponentsStart ==
    HostInit =>
        /\ CfgInit
        /\ RsInit
        /\ HaInit
        /\ BkInit
        /\ RcInit
        /\ CmInit
        /\ PsInit
        /\ HsInit
        /\ LcInit
        /\ ImInit
        /\ DrInit
        /\ LsInit
BY DEF HostInit, ConfigRests, RepoRests, AssetsRests, CredentialsRests,
   SetupRests, LifecycleRests, ImportRests

\* A step is one of one component, and leaves the others alone.
LEMMA ComponentsMove ==
    [HostNext]_HostVars =>
        /\ [CfgNext]_cfgVars
        /\ [RsNext]_rsVars
        /\ [HaNext]_haVars
        /\ [BkNext]_bkVars
        /\ [RcNext]_rcVars
        /\ [CmNext]_cmVars
        /\ [PsNext]_psVars
        /\ [HsNext]_hsVars
        /\ [LcNext]_lcVars
        /\ [ImNext]_imVars
        /\ [DrNext]_drVars
        /\ [LsNext]_lsVars
<1> SUFFICES ASSUME [HostNext]_HostVars
             PROVE  /\ [CfgNext]_cfgVars
                    /\ [RsNext]_rsVars
                    /\ [HaNext]_haVars
                    /\ [BkNext]_bkVars
                    /\ [RcNext]_rcVars
                    /\ [CmNext]_cmVars
                    /\ [PsNext]_psVars
                    /\ [HsNext]_hsVars
                    /\ [LcNext]_lcVars
                    /\ [ImNext]_imVars
                    /\ [DrNext]_drVars
                    /\ [LsNext]_lsVars
    OBVIOUS
<1>1. CASE UNCHANGED HostVars
    BY <1>1 DEF HostVars
<1>2. CASE ConfigMoves
    BY <1>2 DEF ConfigMoves
<1>3. CASE RepoMoves
    BY <1>3 DEF RepoMoves
<1>4. CASE AssetsMoves
    BY <1>4 DEF AssetsMoves
<1>5. CASE BackupMoves
    BY <1>5 DEF BackupMoves
<1>6. CASE CapabilityMoves
    BY <1>6 DEF CapabilityMoves
<1>7. CASE CredentialsMoves
    BY <1>7 DEF CredentialsMoves
<1>8. CASE ProviderMoves
    BY <1>8 DEF ProviderMoves
<1>9. CASE SetupMoves
    BY <1>9 DEF SetupMoves
<1>10. CASE LifecycleMoves
    BY <1>10 DEF LifecycleMoves
<1>11. CASE ImportMoves
    BY <1>11 DEF ImportMoves
<1>12. CASE DoctorMoves
    BY <1>12 DEF DoctorMoves
<1>13. CASE LinuxSetupMoves
    BY <1>13 DEF LinuxSetupMoves
<1> QED
    BY <1>1, <1>2, <1>3, <1>4, <1>5, <1>6, <1>7, <1>8, <1>9, <1>10, <1>11,
       <1>12, <1>13 DEF HostNext

\* So that a behaviour of the host is one of every component.
LEMMA ComponentsRun ==
    HostSpec =>
        /\ CfgSpec
        /\ RsSpec
        /\ HaSpec
        /\ BkSpec
        /\ RcSpec
        /\ CmSpec
        /\ PsSpec
        /\ HsSpec
        /\ LcSpec
        /\ ImSpec
        /\ DrSpec
        /\ LsSpec
BY ComponentsStart, ComponentsMove, PTL
DEF HostSpec, CfgSpec, RsSpec, HaSpec, BkSpec, RcSpec, CmSpec, PsSpec, HsSpec,
    LcSpec, ImSpec, DrSpec, LsSpec

\* The steps of hostsetup/setup.go and linuxsetup: on neither platform does the
\* right to start the agent outlive what contains it.
THEOREM ContainmentOutlives == HostSpec => []ContainmentOutlivesPrivilege
BY ComponentsRun, SetupContainsAndConverges, LinuxPrivilegeIsLast, PTL
DEF ContainmentOutlivesPrivilege

\* What hazmat init and the doctor of diagnostic_repair.go report done is done.
THEOREM ClaimsHold == HostSpec => []SetupClaimsHold
BY ComponentsRun, SetupContainsAndConverges, ReceiptsAreTrue, PTL DEF SetupClaimsHold

\* restore.go and snapshots.go, and the import of config_import_harness.go: neither
\* throws away work that is not saved elsewhere, unless the user was told.
THEOREM WorkIsKept == HostSpec => OverwrittenWorkIsKept
BY ComponentsRun, RestoreClearsWhatIsSaved, ImportAsksFirst, PTL DEF OverwrittenWorkIsKept

\* What harness_lifecycle.go and harness_assets.go record of a harness is what they did.
THEOREM HarnessRecordsStay == HostSpec => HarnessRecordsTrue
BY ComponentsRun, AssetsAreManaged, RecordsAreTrue, PTL DEF HarnessRecordsTrue

\* config.go, config_ssh.go and git_ssh.go, as part of the host: the configuration
\* that is saved loads, and the keys it names are told apart.
THEOREM ConfigurationStays == HostSpec => ConfigurationKept
BY ComponentsRun, ConfigurationIsKept, PTL

\* runtimecapability, as part of the host: a revocation bounds what is routed.
THEOREM CapabilityStaysBounded == HostSpec => []CapabilityBounded
BY ComponentsRun, CapabilityIsBounded, PTL

\* credential_migrate.go and its neighbours, as part of the host: credentials
\* stay on the disk while they move to the store, and clean means clean.
THEOREM CredentialsStay == HostSpec => CredentialsKept
BY ComponentsRun, MigrationKeepsCredentials, PTL

\* Every component's variables keep their types, however the commands of the
\* host are run, fail, overlap and are killed, and whatever its limits are.
THEOREM HostHasItsTypes == HostSpec => []HostTypeOK
<1>1. /\ CfgTypeOK /\ RsTypeOK /\ HaTypeOK /\ BkTypeOK /\ RcTypeOK /\ CmTypeOK
      /\ PsTypeOK /\ HsTypeOK /\ LcTypeOK /\ ImTypeOK /\ DrTypeOK /\ LsTypeOK
      => HostTypeOK
    BY DEF HostTypeOK
<1>2. HostSpec => []CfgTypeOK /\ []RsTypeOK /\ []HaTypeOK /\ []BkTypeOK
    BY ComponentsRun, ConfigurationHasItsTypes, RepoHasItsTypes, AssetsHaveTheirTypes,
       BackupHasItsTypes
<1>3. HostSpec => []RcTypeOK /\ []CmTypeOK /\ []PsTypeOK /\ []HsTypeOK
    BY ComponentsRun, CapabilityHasItsTypes, CredentialsHaveTheirTypes, ProviderHasItsTypes,
       HostSetupHasItsTypes
<1>4. HostSpec => []LcTypeOK /\ []ImTypeOK /\ []DrTypeOK /\ []LsTypeOK
    BY ComponentsRun, LifecycleHasItsTypes, ImportHasItsTypes, DoctorHasItsTypes,
       LinuxHasItsTypes
<1> QED
    BY <1>1, <1>2, <1>3, <1>4, PTL
=============================================================================
