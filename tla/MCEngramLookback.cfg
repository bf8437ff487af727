SPECIFICATION Spec
SYMMETRY MCSymmetry
CONSTANTS
  Requests = {r1, r2}
  BlockIds = {b1, b2}
  Null = null
  BlockSize = 2
  Window = 2
  PromptLen = 1
  MaxLen = 5
  NumSpec = 1
  Budget = 2
  QueueSize = 2
  DeferFree = {FALSE, TRUE}
  MaxVersion = 1
  Depth = 1
INVARIANTS
  LookbackExact
  WindowHeld
  BlocksOnce
PROPERTIES
  FreedWhenWritten
