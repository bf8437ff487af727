SPECIFICATION Spec
CONSTANTS
  NumLayers = 40
  Compressed <- V41Compressed
  KvSources <- V41Kv
  IndexSources <- V41Index
  CandSource = 20
  NumRanks = 4
  Cuts <- ReapCut
  NumBatches = 2
INVARIANTS
  CutsOnIndexSources
