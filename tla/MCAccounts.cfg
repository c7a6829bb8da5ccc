\* Two people with tokens and one without, two launches, two writes in flight.
SPECIFICATION Spec
CONSTANTS
  People = {p1, p2, p3}
  Offline = {p3}
  Launches = {l1, l2}
  MaxTokens = 2
  MaxWrites = 2
  None = None
INVARIANTS TypeOK AccountsAreKept
SYMMETRY Symmetry
CHECK_DEADLOCK FALSE
