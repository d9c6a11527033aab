------------------------------ MODULE MCSessions ------------------------------
EXTENDS Sessions, TLC

CONSTANTS r1, r2, r3, r4

\* Requests are interchangeable: no definition tells two apart.
RequestSymmetry == Permutations(Requests)
=============================================================================
