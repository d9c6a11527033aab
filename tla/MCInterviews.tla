---------------------------- MODULE MCInterviews ----------------------------
(***************************************************************************)
(* Small instances of Interviews.  A decision request and a recruiter's    *)
(* request are not interchangeable; two decision requests are.             *)
(***************************************************************************)
EXTENDS Interviews, TLC

VerdictSymmetry == Permutations(Verdicts)
=============================================================================
