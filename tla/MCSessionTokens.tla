--------------------------- MODULE MCSessionTokens ---------------------------
(* The instances of SessionTokens that TLC checks, and mutants of its code. *)
EXTENDS SessionTokens, TLC

Symmetry == Permutations(Users) \cup Permutations(Tokens) \cup Permutations(Requests)
=============================================================================
