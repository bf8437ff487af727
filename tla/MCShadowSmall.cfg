SPECIFICATION Spec
CONSTANTS
  NumLayers = 8
  Compressed <- SmallCompressed
  KvSources <- SmallKv
  IndexSources <- SmallIndex
  CandSource = 4
  NumRanks = 3
  Cuts <- AllCuts
  NumBatches = 3
INVARIANTS
  TypeOK
  TopkFresh
  CachesComplete
  CandidatesFresh
  InputsFresh
  TransfersMatch
PROPERTIES
  BatchesLeave
