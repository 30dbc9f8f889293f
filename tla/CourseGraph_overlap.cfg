CONSTANTS
  Doc = {d1, d2}
  DataDoc = {d2}
  x = x
  X = X
  y = y
  Label = {x, X, y}
  Fold <- Spellings
  Contents <- Texts
  Op = {o1, o2, o3}
  Kind = {"ingest", "build", "rebuild", "delete", "mark", "curate"}
  None = None
  MaxRestarts = 1
SYMMETRY Symmetry
SPECIFICATION Spec
INVARIANTS
  CurrentUnlessDisturbed
  ActiveVersionsDisjoint
  StaleIsServed
CHECK_DEADLOCK FALSE
