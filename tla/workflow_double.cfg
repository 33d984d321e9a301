SPECIFICATION Spec
CONSTANTS
  p1 = p1
  p2 = p2
  v1 = v1
  r1 = r1
  r2 = r2
  s1 = s1
  s2 = s2
  s3 = s3
  Procs = {p1, p2}
  Reviewers = {}
  Runs = {r1, r2}
  Steps = {s1}
  Kind <- Building
  OnFailure <- AlwaysStop
  MayNotResolve = {s1}
  InitialOrder <- InOrder
  NoRun = NoRun
  NoStep = NoStep
  Outcomes = {"success", "failed", "partial_failure"}
  LateHeartbeats = FALSE
  MaxAborts = 0
  MaxGitFailures = 0
  MayReorder = TRUE
  MaxEdits = 0
  OneTrouble = FALSE
INVARIANTS
  OneJobPerStep
