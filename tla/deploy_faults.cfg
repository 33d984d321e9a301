SPECIFICATION Spec
CONSTANTS
  p1 = p1
  p2 = p2
  e1 = e1
  e2 = e2
  e3 = e3
  e4 = e4
  r1 = r1
  r2 = r2
  r3 = r3
  r4 = r4
  t1 = t1
  t2 = t2
  Procs = {p1,p2}
  Executions = {e1,e2,e3,e4}
  Runs = {r1,r2,r3}
  Targets = {t1,t2}
  RunOf <- TwoThenOne
  TargetOf <- TwoTargets
  ActionOf <- ThenStop
  CreatedAt <- InOrder
  NoExecution = NoExecution
  MaxCrashes = 1
  MaxDbErrors = 1
  LateHeartbeats = FALSE
  SlowTransactions = FALSE
INVARIANTS
  OverlapOnlyBySkip
  TerminalRunsAreDone
  CurrentMatchesCluster
PROPERTIES
  ClaimedOnlyBeforeSkip
