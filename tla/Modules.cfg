SPECIFICATION Spec
CONSTANTS
  Parts = {"delivery", "graph", "questions", "evaluation", "demo", "runs", "courses", "roster", "prompts"}
  a = a  b = b  q1 = q1  q2 = q2
  None = None
  Question = {q1, q2}
  Concept = {a, b}
  Concepts <- ConceptsOf
  Session = {s1}
  MaxQuestions = 2
  MaxFailures = 1
  Build = {b1, b2}
  Version = {v1, v2, v3}
  Generation = {j1}
  Draft = {d1, d2}
  Turn = {t1, t2}
  Unanswered = {t2}
  Score = {1, 2}
  Simulated = {q1}
  Position = {0}
  Student = {q1}
  Date = {1}
  Document = {a, q1}
  Fold <- Stripped
  Trimmed <- AsStored
  Loose = {q1}
  Listed = {q1}
  Blank = None
  Schedule <- OneEntry
  Row = {i1, i2}
  MaxAttempts = 2
  MaxAnswers = 2
  MaxFaults = 2
  Agents = 2
  Capacity = 1
  Ttl = 1
  Actor = {p1, p2}
  MaxCrashes = 1
  MaxLate = 1
SYMMETRY Symmetry
INVARIANTS
  SessionsSound
  OutcomesTold
  DecisionsStand
  CoursesHold
  AccountsKept
PROPERTIES
  NeverWithoutGraph
  MessagesHandedOn
CHECK_DEADLOCK FALSE
