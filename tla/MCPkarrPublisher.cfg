SPECIFICATION Spec
CONSTANTS
  Key = {k1, k2}
  Editor = {e1, e2}
  Runner = {task, caller}
  Task = task
  Clock = {1, 2}
  MaxEdits = 2
  MaxSeq = 3
  None = None
INVARIANTS TypeOK RoundsAreNewest
PROPERTIES WaitMeansPublished NeverGoesBack
SYMMETRY Symmetry
CHECK_DEADLOCK FALSE
