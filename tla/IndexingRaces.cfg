CONSTANTS
  w1 = w1
  w2 = w2
  c1 = c1
  c2 = c2
  d1 = d1
  d2 = d2
  NoDocument = NoDocument
  Documents <- OneDocument
  Workers <- TwoWorkers
  Clients <- TwoClients
  Pieces <- TwoPieces
  ChunkSize = 1
  Operations = {"pause", "recover", "delete"}
  MaxRequests = 3
  MaxCrashes = 0
  MaxSplits = 3
SPECIFICATION Spec
SYMMETRY ActorSymmetry
INVARIANTS
  TypeOK
  CompletedRowIsIndexed
  CompletedDocumentIsWhole
  PausedIsResumable
  DeletedLeavesNothing
PROPERTIES
  StatusFollowsLifecycle
  ResumeKeepsCompleted
CHECK_DEADLOCK FALSE
