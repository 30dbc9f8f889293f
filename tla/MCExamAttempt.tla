--------------------------- MODULE MCExamAttempt ---------------------------
(* Small instances of ExamAttempt for TLC. *)
EXTENDS ExamAttempt, TLC

CONSTANTS s1, s2, prof, x1, x2, x3, r1, r2, r3

TwoStudents == {s1, s2}
OneStudent == {s1}
TwoSessions == {x1, x2}
ThreeSessions == {x1, x2, x3}
TwoRequests == {r1, r2}
ThreeRequests == {r1, r2, r3}

\* interchangeable ids; only for runs without liveness properties
Symmetry == Permutations({x1, x2, x3}) \cup Permutations({r1, r2, r3})
=============================================================================
