\* Two people with tokens and one without, one launch, one write in flight.
SPECIFICATION Spec
CONSTANTS
  People = {p1, p2, p3}
  Offline = {p3}
  Launches = {l1}
  MaxTokens = 3
  MaxWrites = 1
  None = None
INVARIANT RefreshKeepsAccounts
CHECK_DEADLOCK FALSE
