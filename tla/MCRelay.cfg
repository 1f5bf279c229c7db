SPECIFICATION MCSpec
CONSTANTS
  Acks = {a1, a2, a3}
  Naks = {n1}
  Links = {l1, l2}
  AckRing = 2
  NakRing = 1
  AckWindow = 2
  NakWindow = 1
  Skew = 2
  Period = 2
  MaxRounds = 2
  a1 = a1
  a2 = a2
  a3 = a3
  n1 = n1
  l1 = l1
  l2 = l2
SYMMETRY Alike
INVARIANTS NothingWithheld Accounted
PROPERTY RelaysAsLog
