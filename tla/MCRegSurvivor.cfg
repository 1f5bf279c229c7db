\* The timeouts of the code.  Uplink 0 may go away for good; uplink 1 works.
SPECIFICATION LiveSpec
CONSTANTS
  N = 2
  Reg2Timeout = 4
  ProbeTimeout = 2
  Grace = 5
  ConnTimeout = 5
  SlowRetry = 5
  FastAttempts = 4
  GlobalTimeout = 10
  RehomeGap = 60
  MaxGroups = 1
  MaxFaults = 0
  MaxMoves = 0
  Stable = {1}
  Duplicates = {FALSE}
PROPERTY SurvivorRegisters
