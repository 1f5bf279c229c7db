SPECIFICATION MCSpec
CONSTANTS
  Clients = {c1, c2}
  Fields = {"timeout", "latency"}
  TimeoutMin = 2
  TimeoutMax = 3
  Timeouts = {1, 9}
  Latencies = {0, 7}
  Remember = FALSE
  Tasks = {"t1", "t2", "t3"}
  Interval = 2
  Pinned = "a"
  Addrs = {"a", "b"}
  MaxTime = 4
  BatchSize <- Sizes
  LowActivityThreshold = 1
  HighLoadThreshold = 2
  Bitrates = {1, 2, 3}
  BatchSendSize = 3
  BatchRecvSize = 2
  SendBuf = 2
  MaxOut = 3
  MaxIn = 1
  MaxSignals = 1
  MaxErrors = 1
INVARIANTS LatencyMeant NoLostWakeup
PROPERTIES AnswersTrue SubscriptionsKept ClaimsMeant
