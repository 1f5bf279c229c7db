SPECIFICATION Spec
CONSTANTS
  N = 2
  Reg2Timeout = 1
  ProbeTimeout = 1
  Grace = 1
  ConnTimeout = 2
  SlowRetry = 1
  FastAttempts = 0
  GlobalTimeout = 0
  RehomeGap = 1
  MaxGroups = 1
  MaxFaults = 1
  MaxMoves = 1
  Stable = {0}
  Duplicates = {FALSE}
CONSTRAINT OneTrouble
INVARIANTS NoGrantOnConnected NothingStuck
PROPERTY RehomeOnlyDeadBond
