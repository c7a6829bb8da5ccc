\* The instances: one restart after the file was left torn.
SPECIFICATION Spec
CONSTANTS
  Values = {v0, v1}
  Default = v0
  Slots = {s1}
  MaxChanges = 1
  MaxRestarts = 1
  None = None
INVARIANT CorruptIsBackedUp
CHECK_DEADLOCK FALSE
