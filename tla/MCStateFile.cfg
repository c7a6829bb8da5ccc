\* The config and the instances; two states, two writes in flight, changes back and forth.
SPECIFICATION FairSpec
CONSTANTS
  Values = {v0, v1}
  Default = v0
  Slots = {s1, s2}
  MaxChanges = 3
  MaxRestarts = 2
  None = None
INVARIANTS TypeOK NothingIsLost
PROPERTIES SyncedSurvives EventuallySaved
CHECK_DEADLOCK FALSE
