SPECIFICATION Spec
CONSTANTS
  r1 = r1
  r2 = r2
  r3 = r3
  va = va
  vb = vb
  eos = eos
  Eos = eos
  NumRanks = 2
  NumSpec = 1
  BlockSize = 1
  ReserveFullIsl = TRUE
  Requests = {r1, r2}
  PromptLen <- PreemptPrompt
  MaxTokens <- PreemptMax
  Vocab = {va}
  QueueSize = 3
  MaxRunning = 2
  TokenBudget = 3
  MaxModelLen = 7
  NumBlocks = 7
  MaxResets = 0
INVARIANTS
  TypeOK
  OutputInOrder
  InputsKnown
  RowsInOrder
  InFlightAccounted
  OneSampleInFlight
  OneTokenToCompute
  DraftsFollowHistory
  KVBacked
