SPECIFICATION MCSpec
CONSTANTS
  Links = {"l1"}
  Rtts = {0, 3}
  StaleFloor = 1
  StaleRttMult = 4
  StaleCeiling = 2
  ProofFloor = 3
  DwellMult = 2
  ProbationMult = 3
  BackoffMax = 2
  SilenceFloor = 1
  SilenceRttMult = 2
  ConnTimeout = 4
  Budget = 1
  IdleTime = 2
  AgeCap = 9
  Reserve = TRUE
  Steady = TRUE
  GuardSettings = {TRUE}
  MaxFaults = 2
PROPERTIES ReleaseEarned PairLastUsableKept GateLetsGo
