CONSTANTS
  w1 = w1
  w2 = w2
  c1 = c1
  c2 = c2
  d1 = d1
  d2 = d2
  NoDocument = NoDocument
  Documents <- TwoDocuments
  Workers <- OneWorker
  Clients <- OneClient
  Pieces <- OnePiece
  ChunkSize = 1
  Operations = {"pause", "recover", "delete"}
  MaxRequests = 3
  MaxCrashes = 0
  MaxSplits = 3
SPECIFICATION FairSpec
PROPERTIES
  UninterruptedFinishes
  RecoverResumes
CHECK_DEADLOCK FALSE
