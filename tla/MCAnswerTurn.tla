---------------------------- MODULE MCAnswerTurn ----------------------------
(* Small instance of AnswerTurn for TLC. *)
EXTENDS AnswerTurn, TLC

CONSTANTS a1, a2, n1, n2

\* two answers that show different parts of the path
Finds == (a1 :> {n1}) @@ (a2 :> {n2})

\* requests are interchangeable
RequestSymmetry == Permutations(Request)
=============================================================================
