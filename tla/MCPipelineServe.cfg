SPECIFICATION Spec
CONSTANTS
  r1 = r1
  r2 = r2
  r3 = r3
  va = va
  vb = vb
  eos = eos
  Eos = eos
  NumRanks = 2
  NumSpec = 1
  BlockSize = 2
  ReserveFullIsl = TRUE
  Requests = {r1, r2, r3}
  PromptLen <- ServePrompt
  MaxTokens <- ServeMax
  Vocab = {va, eos}
  QueueSize = 2
  MaxRunning = 2
  TokenBudget = 3
  MaxModelLen = 6
  NumBlocks = 3
  MaxResets = 0
INVARIANTS
  OutputInOrder
