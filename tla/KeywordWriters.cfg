CONSTANTS
  n1 = n1
  n2 = n2
  k1 = k1
  k2 = k2
  w1 = w1
  w2 = w2
  NoCall = NoCall
  Nodes <- TwoNodes
  Keywords <- TwoKeywords
  Writers <- TwoWriters
  WordSets <- SomeWords
  Jobs = {"index", "create", "remove", "rewrite", "edit", "drop"}
  MaxJobs = 3
  MaxKills = 1
SPECIFICATION Spec
SYMMETRY Symmetry
INVARIANTS
  TypeOK
  ShownKeywordsFind
PROPERTIES
  KeepsContract
CHECK_DEADLOCK FALSE
