--------------------------- MODULE MCExpectedPath ---------------------------
(* Small instance of ExpectedPath for TLC. *)
EXTENDS ExpectedPath, TLC

\* questions, and requests, are interchangeable
PathSymmetry == Permutations(Question) \cup Permutations(Request)
=============================================================================
