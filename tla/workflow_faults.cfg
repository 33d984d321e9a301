SPECIFICATION FairSpec
CONSTANTS
  p1 = p1
  p2 = p2
  v1 = v1
  r1 = r1
  r2 = r2
  s1 = s1
  s2 = s2
  s3 = s3
  Procs = {p1, p2}
  Reviewers = {v1}
  Runs = {r1}
  Steps = {s1, s2, s3}
  Kind <- Mixed
  OnFailure <- FirstContinues
  MayNotResolve = {s1, s2, s3}
  InitialOrder <- InOrder
  NoRun = NoRun
  NoStep = NoStep
  Outcomes = {"success", "failed", "partial_failure"}
  LateHeartbeats = TRUE
  MaxAborts = 1
  MaxGitFailures = 0
  MayReorder = TRUE
  MaxEdits = 0
  OneTrouble = FALSE
INVARIANTS
  ApprovedOnce
  OneJobPerStep
PROPERTIES
  EndedRunsRest
  ImplementsPipeline
  EveryRunEnds
