\* Two launches of an instance, two download stages that fail differently, one reload.
SPECIFICATION BoundedSpec
CONSTANTS
  MaxAttempts = 2
  Stages = {libraries, client}
  Modpack = modpack
  Catching = {client}
  Unzipping = {libraries}
  MaxReloads = 1
  None = None
INVARIANTS TypeOK OneProcess LaunchedIsShown CancelledNeverSpawns
PROPERTIES DownloadsEnd KilledIsClosed
CHECK_DEADLOCK FALSE
