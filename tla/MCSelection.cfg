SPECIFICATION MCSpec
CONSTANTS
  NLinks = 2
  Healths = {"ok", "share", "late"}
  Rtts = {0, 1, 2}
  Scores = {10}
  Modes = {"enhanced"}
  MinHold = 1
  Margin = 2
  RampLen = 1
  StallRampLen = 1
  RampFloor = 50
  GatePenalty = 20
  AgeCap = 1
  MaxResets = 0
  Histories = {}
INVARIANTS PoolNeverEmptied OverrideMeant
PROPERTIES ReturnsRamped RampsRunOut
