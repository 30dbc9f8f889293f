---------------------------- MODULE MCCourseGraph ----------------------------
(* Two documents, three operations that may overlap, and three labels, two  *)
(* of which spell one concept.                                              *)
EXTENDS CourseGraph, TLC

CONSTANTS x, X, y   \* X is x, spelled differently

Spellings == [l \in Label |-> IF l = X THEN x ELSE l]
Texts == {{}, {x}, {X}, {x, y}}
Symmetry == Permutations(Op)
=============================================================================
