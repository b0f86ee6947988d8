CONSTANTS
  n1 = n1
  n2 = n2
  k1 = k1
  k2 = k2
  w1 = w1
  w2 = w2
  NoCall = NoCall
  Nodes <- OneNode
  Keywords <- TwoKeywords
  Writers <- OneWriter
  WordSets <- SomeWords
  Jobs = {"index", "edit"}
  MaxJobs = 3
  MaxKills = 0
SPECIFICATION Spec
SYMMETRY Symmetry
INVARIANTS
  EditsAreIndexed
CHECK_DEADLOCK FALSE
