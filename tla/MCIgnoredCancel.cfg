\* One launch is enough.
SPECIFICATION Spec
CONSTANTS
  MaxAttempts = 1
  Stages = {libraries, client}
  Modpack = modpack
  Catching = {client}
  Unzipping = {libraries}
  MaxReloads = 0
  None = None
INVARIANT ConfirmedNeverSpawns
CHECK_DEADLOCK FALSE
