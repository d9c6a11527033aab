---------------------------- MODULE MCRequisitions ----------------------------
EXTENDS Requisitions, TLC

CONSTANTS x1, c1, c2, r1, r2, r3

\* Requests and candidates are interchangeable: no definition tells two apart.
RequestSymmetry == Permutations({r1, r2, r3}) \cup Permutations({c1, c2})
=============================================================================
