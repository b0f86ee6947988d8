CONSTANTS
  w1 = w1
  w2 = w2
  c1 = c1
  c2 = c2
  d1 = d1
  d2 = d2
  NoDocument = NoDocument
  Documents <- OneDocument
  Workers <- TwoWorkers
  Clients <- OneClient
  Pieces <- TwoPieces
  ChunkSize = 1
  Operations = {"pause", "recover", "update", "delete"}
  MaxRequests = 3
  MaxCrashes = 1
  MaxSplits = 4
SPECIFICATION Spec
SYMMETRY ActorSymmetry
INVARIANTS
  CompletedDocumentIsWhole
  PausedIsResumable
  DeletedLeavesNothing
CHECK_DEADLOCK FALSE
