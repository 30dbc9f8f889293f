CONSTANTS
  None = None
  Version = {v1}
  Job = {j1}
  Worker = {w1}
  MaxCrashes = 0
  MaxLate = 0
SPECIFICATION Spec
INVARIANT FailureRecorded
CHECK_DEADLOCK FALSE
