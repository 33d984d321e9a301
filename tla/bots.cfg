SPECIFICATION BotsSpec
CONSTANTS
  w1 = w1
  b1 = b1
  b2 = b2
  m1 = m1
  m2 = m2
  s1 = s1
  g1 = g1
  v1 = v1
  p1 = p1
  p2 = p2
  c1 = c1
  c2 = c2
  t1 = t1
  Procs = {p1, p2}
  Gateways = {c1, c2}
  PoolThreads = {t1}
  Actors = {p1, p2, c1, c2, t1}
  Users = {u1}
  Workflows = {w1}
  Builders = {b1, b2}
  Manifests = {m1, m2}
  Steps = {s1}
  GroupOf <- OneGroup
  VersionOf <- BothOnOne
  Deployed = {m1}
  Contested <- Lost
  NoGroup = NoGroup
  NoButton = NoButton
  NoProc = NoProc
  NoGateway = NoGateway
  MaxPresses = 2
  MaxEdits = 1
  MaxFaults = 1
  MaxToggles = 1
  MaxInteractions = 1
  MaxBreaks = 1
  MaxSwitches = 2
  PickedActions = {"build", "stop", "approve"}
INVARIANTS
  BotsTypeOK
  ActedOnOncePerFault
  ActedOnOnce
  NoInteractionLost
PROPERTIES
  EveryUpdateIsPassed
CHECK_DEADLOCK FALSE
