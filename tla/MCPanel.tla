-------------------------------- MODULE MCPanel --------------------------------
EXTENDS Access, TLC

CONSTANTS r1, r2, r3

\* Requests are interchangeable: no definition tells two apart.
RequestSymmetry == Permutations({r1, r2, r3})
=============================================================================
