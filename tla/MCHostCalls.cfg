SPECIFICATION Spec
CONSTANTS
  Threads = {0, 1}
  NumExperts = 3
  TopK = 2
  GateBlocks = 2
  DownBlocks = 2
  SmallBatch = 1
  MaxTokens = 4
  Share <- MCShare
  Heads = 3
  BatchSizes = {1, 3, 4}
  Routings <- MCRoutings
  MaxLaunches = 2
  MaxAhead = 2
INVARIANTS
  ResultsExact
  CaptureNeverRefused
  PhasesSeparate
