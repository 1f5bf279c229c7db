SPECIFICATION MCSpec
CONSTANTS
  Links = {"l1", "l2"}
  LinkRates = {0, 10, 150}
  Rtts = {40, 2000}
  Latencies = {0, 300}
  MinTotal = 100
  Sustain = 2
  Interval = 1
  Window = 2
  BackoffMax = 4
  FailCap = 3
  MinTarget = 10
  InitialTarget = 20
  MaxTarget = 30
  AiStep = 250
  HaiStep = 500
  FastStep = 250
  BackoffPm = 500
  DrainPm = 500
  OutlierFactor = 2
  MinLoadPm = 300
  LossBackoffPm = 5
  EfficacyTicks = 2
  ImprovementPm = 800
  RetestTicks = 2
  FastTicks = 2
  DegradeSustain = 2
  LossWindow = 1
  Gaps = {1}
  Rates = {0, 25}
  Traffic <- SomeTraffic
INVARIANTS FastWindowFull VainCutsStop LateIsGated FailuresPriced
PROPERTIES TargetEarned StarvedFreed
