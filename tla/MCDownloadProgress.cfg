\* The backend that awaits its ticker; two concurrent calls of at most one entry.
SPECIFICATION FairSpec
CONSTANTS
  Batches = {b1, b2}
  MaxEntries = 1
  MaxTicks = 1
  TickerAwaited = TRUE
  None = None
INVARIANTS TypeOK NoGhostDownloads TotalsSettle
PROPERTIES CountsNeverFall CallsReturn
CHECK_DEADLOCK FALSE
