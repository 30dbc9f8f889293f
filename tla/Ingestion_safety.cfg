CONSTANTS
  None = None
  Version = {v1, v2}
  Job = {j1, j2}
  Worker = {w1, w2}
  MaxCrashes = 1
  MaxLate = 1
SYMMETRY Symmetry
SPECIFICATION Spec
INVARIANTS
  VersionsNumbered
  ReadyIsSearchable
  RecordedUnlessLost
PROPERTIES
  ProgressNotReset
  ImplementsWorkQueue
CHECK_DEADLOCK FALSE
