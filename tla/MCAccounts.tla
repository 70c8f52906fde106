------------------------------ MODULE MCAccounts ------------------------------
EXTENDS Accounts, TLC

CONSTANTS h1, a1

\* Every code is one that user h1 sent to client a1.
OneOwner == [k \in Codes |-> <<h1, a1>>]

Symmetry == Permutations(Users) \cup Permutations(Tokens) \cup Permutations(Requests)
=============================================================================
