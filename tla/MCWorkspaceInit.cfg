SPECIFICATION FairSpec
CONSTANTS
  i1 = i1
  i2 = i2
  d1 = d1
  d2 = d2
  w1 = w1
  Workspaces = {w1, w2}
  Inits = {i1, i2}
  Deletes = {d1, d2}
  MaxRestarts = 1
  None = None
CONSTRAINT Focus
INVARIANTS
  OneHolder
  DeletedLeavesNoWorktree
  ProgressIsTrue
PROPERTIES
  DeletesSettle
CHECK_DEADLOCK FALSE
