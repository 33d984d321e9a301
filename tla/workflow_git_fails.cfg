SPECIFICATION Spec
CONSTANTS
  p1 = p1
  p2 = p2
  v1 = v1
  r1 = r1
  r2 = r2
  s1 = s1
  s2 = s2
  s3 = s3
  Procs = {p1}
  Reviewers = {}
  Runs = {r1}
  Steps = {s1}
  Kind <- AllReviewed
  OnFailure <- AlwaysStop
  MayNotResolve = {}
  InitialOrder <- InOrder
  NoRun = NoRun
  NoStep = NoStep
  Outcomes = {"success", "failed"}
  LateHeartbeats = FALSE
  MaxAborts = 0
  MaxGitFailures = 1
  MayReorder = FALSE
  MaxEdits = 0
  OneTrouble = FALSE
INVARIANTS
  AwaitingRunsWait
