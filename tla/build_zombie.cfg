SPECIFICATION FairSpec
CONSTANTS
  p1 = p1
  p2 = p2
  i1 = i1
  i2 = i2
  i3 = i3
  b1 = b1
  b2 = b2
  v1 = v1
  Procs = {p1, p2}
  Images = {i1, i2}
  Batches = {b1}
  Versions = {v1}
  BatchOf <- OneBatchOfTwo
  VersionOf <- SameVersion
  CreatedAt <- InOrder
  NoImage = NoImage
  NoNumber = NoNumber
  EditNumbers = {0, 2}
  MaxEdits = 0
  MaxCrashes = 1
  MaxDbErrors = 1
  LateHeartbeats = TRUE
  SlowTransactions = TRUE
INVARIANTS
  OneOwnerPerImage
  DocumentedBatchesSucceeded
PROPERTIES
  OutcomesAreFinal
  EveryImageEnds
CHECK_DEADLOCK FALSE
