SPECIFICATION LiveSpec
CONSTANTS
  WMin = 8
  WDef = 11
  WMax = 14
  WIncr = 8
  WDecr = 3
  FastEnter = 8
  FastDisable = 11
  BurstWindow = 1
  BurstThreshold = 3
  BurstMaxAge = 2
  NormalMinWait = 2
  FastMinWait = 0
  NormalIncWait = 1
  FastIncWait = 0
  SlowAfter = 1
  ModerateAfter = 1
  AggressiveAfter = 2
  Grace = 2
  WarmingProbes = 2
  WarmingTimeout = 2
  Decay <- DecayBySecond
  LossVerdicts = {FALSE, TRUE}
  Modes = {"enhanced", "classic"}
  AgeCap = 3
  MaxNaks = 3
  MaxResets = 1
INVARIANTS BurstCountsRun GraceProtects
PROPERTY WindowRecovers
