----------------------------- MODULE MCPipeline -----------------------------
(***************************************************************************)
(* Small instances of Pipeline.  Requests are interchangeable: symmetry is *)
(* used by the runs that check no liveness property.                       *)
(***************************************************************************)
EXTENDS Pipeline, TLC

RequestSymmetry == Permutations(Transactions)

AppAndRequestSymmetry == Permutations(Transactions) \cup Permutations(Apps)
=============================================================================
