------------------------------- MODULE MCQRPage -------------------------------
EXTENDS QRPage, TLC

Symmetry == Permutations(Codes) \cup Permutations(Calls)
=============================================================================
