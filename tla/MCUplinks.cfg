SPECIFICATION MCSpec
CONSTANTS
  A = A
  B = B
  C = C
  Ips = {A, B, C}
  Files <- MCFiles
  WeightMax = 8
  Answers <- MCAnswers
  MaxIds = 3
  MaxGen = 2
  MaxMoves = 1
  MaxChan = 0
  ReadersEnd = FALSE
INVARIANTS InStep SelectionMeant
PROPERTIES GrantsKept BondKept ReaderRevived
