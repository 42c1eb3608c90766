--------------------------- MODULE MCLaunchBroker ---------------------------
(* Instances of LaunchBroker for TLC.                                      *)
EXTENDS LaunchBroker

CONSTANTS c1, c2

\* Two hazmat processes.  The specification treats them alike, so one order
\* of each pair of kinds is enough.
TwoClients == {c1, c2}

Pair(k1, k2) == [c \in TwoClients |-> IF c = c1 THEN k1 ELSE k2]

\* Two launches that may each start a broker; one beside a launch whose
\* socket is explicit or that uses no broker; and each kind of launch where
\* an earlier process has left its broker running.
MixedLaunches == {Pair("shell", k) : k \in {"shell", "explicit", "off"}}
                 \cup {Pair(k, "past") : k \in {"shell", "direct", "explicit"}}

\* Two launches that each may start a broker.
ShellLaunches == {Pair("shell", "shell")}
=============================================================================
