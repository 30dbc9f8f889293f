CONSTANTS
  None = None
  Session = {s1, s2}
  Request = {r1, r2}
  Manual = {30}
  MaxQuestions = 1
  Total = {0, 2}
SPECIFICATION FairSpec
INVARIANTS
  TypeOK
  InputKeptUnlessOvertaken
  ReplyIsTrue
PROPERTIES
  ReleasedIsFinal
  RequestsEnd
CHECK_DEADLOCK FALSE
