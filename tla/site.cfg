SPECIFICATION SiteSpec
CONSTANTS
  e1 = e1
  e2 = e2
  e3 = e3
  e4 = e4
  e5 = e5
  r1 = r1
  r2 = r2
  r3 = r3
  r4 = r4
  t1 = t1
  t2 = t2
  b1 = b1
  b2 = b2
  s1 = s1
  u1 = u1
  main = main
  dev = dev
  Procs = {p1}
  Executions = {e1, e2, e3, e4, e5}
  Runs = {r1, r2, r3, r4}
  Targets = {t1, t2}
  RunOf <- TwoThenOne
  TargetOf <- OneApart
  ActionOf <- Lifecycle
  CreatedAt <- InOrder
  NoExecution = NoExecution
  MaxCrashes = 1
  MaxDbErrors = 0
  LateHeartbeats = FALSE
  SlowTransactions = FALSE
  Workloads = 3
  Labelled = {1, 3}
  Budgets = {0, 3}
  Buffer = 2
  Interval = 1
  ProbeTime = 1
  StopTime = 1
  MaxShifts = 3
  Admins = {a1, a2}
  Keys = {k1, k2}
  Users = {d1, d2}
  MaxWrites = 2
  MaxOutside = 1
  MaxPeers = 1
  Builds = {b1, b2}
  Previews = {u1}
  Resyncs = {s1}
  Unguarded = {u1}
  BranchOf <- OneOnDev
  Branches = {main, dev}
  Default = main
  NoBranch = NoBranch
  AtStart <- DevAhead
  MaxEvents = 1
  Referrers = {f1, f2}
  Requests = {q1, q2}
  Setups = {w1, w2}
  Readers = {x1}
  Values = {v1}
  DefaultSettings = d0
  MaxFaults = 1
  MaxReleases = 1
  MaxSaves = 1
INVARIANTS
  SiteTypeOK
  
  
  HeldForOneBudget
  WaitIsHonest
  UsersCatchUp
  ImageIsItsCommitAlone
  JobsAreCleanedUp
  SeededOnceAndWhole
PROPERTIES
  UntouchedKeysSurvive
  
  ReferencesSurvive
  
CHECK_DEADLOCK FALSE
