------------------------------ MODULE MCQRCodes ------------------------------
EXTENDS QRCodes, TLC

Symmetry ==
    Permutations(Codes) \cup Permutations(Users)
        \cup Permutations(Sessions) \cup Permutations(Requests)
=============================================================================
