CONSTANTS
  None = None
  Question = {q1, q2}
  Request = {r1, r2, r3}
SPECIFICATION FairSpec
INVARIANTS
  InflightIsServed
PROPERTIES
  ImplementsPathBook
  ReplacedOnlyWhenStale
  SubmitsProceed
CHECK_DEADLOCK FALSE
