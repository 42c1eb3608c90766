----------------------------- MODULE MCGitHooks -----------------------------
(* Instances of GitHooks for TLC: which hook types the bundles declare.    *)
EXTENDS GitHooks, TLC

CONSTANTS b1, h1

\* Bundles that declare the same hooks, and bundles of which all but one drop
\* a hook.
SameHooks == [b \in Bundle |-> Hook]

ShrinkingHooks == [b \in Bundle |-> IF b = b1 THEN Hook ELSE {h1}]

\* Commands are alike, and so are bundles and hooks where the bundles declare
\* the same hooks.
InstanceSymmetry ==
    Permutations(Process) \cup Permutations(Bundle) \cup Permutations(Hook)
=============================================================================
