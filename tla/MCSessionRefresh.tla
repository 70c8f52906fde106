--------------------------- MODULE MCSessionRefresh ---------------------------
EXTENDS SessionRefresh, TLC

CONSTANTS tabA, tabB, a1, a2, b1

\* Two callers in the first tab share its refresh; one runs in the second tab.
Placement == (a1 :> tabA) @@ (a2 :> tabA) @@ (b1 :> tabB)
SinglePlacement == (a1 :> tabA) @@ (b1 :> tabB)

\* Tokens are compared only with each other, and so are two callers of a tab.
Symmetry == Permutations(Tokens) \cup Permutations({a1, a2})
=============================================================================
