SPECIFICATION Spec
CONSTANTS
  Launches = {l1, l2}
  Checked = {l1}
  Chunks = 2
  MaxRounds = 2
  None = None
INVARIANT NeverHalfWritten
CHECK_DEADLOCK FALSE
