\* The timeouts of the code, in ticks of one second.
SPECIFICATION LiveSpec
CONSTANTS
  N = 2
  Reg2Timeout = 4
  ProbeTimeout = 2
  Grace = 5
  ConnTimeout = 5
  SlowRetry = 5
  FastAttempts = 4
  GlobalTimeout = 10
  RehomeGap = 60
  MaxGroups = 1
  MaxFaults = 1
  MaxMoves = 0
  Stable = {0, 1}
  Duplicates = {FALSE}
PROPERTY StableRegisters
