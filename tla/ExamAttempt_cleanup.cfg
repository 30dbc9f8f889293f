CONSTANTS
  s1 = s1  s2 = s2  prof = prof
  x1 = x1  x2 = x2  x3 = x3
  r1 = r1  r2 = r2  r3 = r3
  None = None
  Student = {s1}
  Owner = prof
  Session = {x1, x2}
  Request = {r1, r2}
  Teardowns = {"publish", "discard", "cleanup", "delete"}
SPECIFICATION Spec
INVARIANT ReleasedKeepsQuestions
CHECK_DEADLOCK FALSE
