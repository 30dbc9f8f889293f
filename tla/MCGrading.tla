----------------------------- MODULE MCGrading ------------------------------
(* Small instance of Grading for TLC. *)
EXTENDS Grading, TLC

\* sessions are interchangeable
SessionSymmetry == Permutations(Session)
=============================================================================
