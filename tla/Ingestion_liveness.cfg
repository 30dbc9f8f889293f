CONSTANTS
  None = None
  Version = {v1}
  Job = {j1}
  Worker = {w1, w2}
  MaxCrashes = 2
  MaxLate = 2
SPECIFICATION FairSpec
PROPERTY MessagesHandled
CHECK_DEADLOCK FALSE
