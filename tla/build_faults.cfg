SPECIFICATION Spec
CONSTANTS
  p1 = p1
  p2 = p2
  i1 = i1
  i2 = i2
  i3 = i3
  b1 = b1
  b2 = b2
  v1 = v1
  Procs = {p1, p2}
  Images = {i1, i2, i3}
  Batches = {b1, b2}
  Versions = {v1}
  BatchOf <- TwoThenOne
  VersionOf <- SameVersion
  CreatedAt <- InOrder
  NoImage = NoImage
  NoNumber = NoNumber
  EditNumbers = {0, 2}
  MaxEdits = 1
  MaxCrashes = 1
  MaxDbErrors = 1
  LateHeartbeats = FALSE
  SlowTransactions = FALSE
INVARIANTS
  BatchOutcomeIsTrue
  FailedBatchesGiveBack
PROPERTIES
  BumpedOncePerBatch
  ImplementsSingleFlight
  BatchesAreJobs
