\* The backend that does not await its ticker: one call of one entry suffices.
SPECIFICATION Spec
CONSTANTS
  Batches = {b1}
  MaxEntries = 1
  MaxTicks = 2
  TickerAwaited = FALSE
  None = None
INVARIANT NoGhostDownloads
CHECK_DEADLOCK FALSE
