SPECIFICATION MCSpec
CONSTANTS
  SeqHalf = 4
  NLinks = 2
  Start = 7
  RingSize = 1
  WalkLimit = 1
  BatchSizes = {1, 2}
  ProbeCap = 1
  MaxPackets = 3
  MaxResends = 1
  MaxResets = 0
  MaxHolds = 0
  MaxExpired = 0
  UpAtStart = {0, 1}
INVARIANTS RemovedForCause NoPhantomInFlight TrackerNamesCarrier BlameOnlyCarrier LossesMeant FloorMeant
PROPERTY EchoesKeepComing
CHECK_DEADLOCK FALSE
