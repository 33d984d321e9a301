SPECIFICATION ContextSpec
CONSTANTS
  b1 = b1
  u1 = u1
  main = main
  dev = dev
  Builds = {b1}
  Previews = {u1}
  Resyncs = {}
  Unguarded = {}
  BranchOf <- PreviewOnDev
  Branches = {main, dev}
  Default = main
  NoBranch = NoBranch
  AtStart <- DevAhead
  MaxEvents = 0
INVARIANTS
  ImageIsItsCommit
CHECK_DEADLOCK FALSE
