CONSTANTS
  a1 = a1  a2 = a2  n1 = n1  n2 = n2
  None = None
  Answer = {a1, a2}
  Node = {n1, n2}
  Demonstrates <- Finds
  Request = {r1, r2, r3}
SPECIFICATION Spec
SYMMETRY RequestSymmetry
INVARIANTS
  TranscriptKept
  EvaluationsFitAnswers
  AggregateIsUnion
PROPERTIES
  CoverageKept
CHECK_DEADLOCK FALSE
