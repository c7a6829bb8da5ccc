\* Two batches that may share a cancel id, two workers each, up to two entries.
SPECIFICATION Spec
CONSTANTS
  Ids = {i1, i2}
  Batches = {b1, b2}
  Workers = {w1, w2}
  MaxEntries = 2
  None = None
INVARIANTS TypeOK ClaimedOnce ReportAccounts RegistryTracksBatches FlagsAreSeparate
PROPERTIES FreshBatchUncancelled KeepsPromise
SYMMETRY Symmetry
CHECK_DEADLOCK FALSE
