--------------------------- MODULE MCHarnessAuth ---------------------------
(* TLC instances of HarnessAuth: small sets, and the symmetry of tokens.   *)
EXTENDS HarnessAuth, TLC

TokenSymmetry == Permutations(Token)

ProcessSymmetry == Permutations(Token) \cup Permutations(Session)

=============================================================================
