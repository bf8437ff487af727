SPECIFICATION FairSpec
CONSTANTS
  r1 = r1
  r2 = r2
  Requests = {r1, r2}
  Tokens = 1
  QueueSize = 2
  DrainModes = {FALSE, TRUE}
  Patient = TRUE
  Pauses <- MCPauses
  MaxQueued = 2
  MaxCalls = 2
  MaxAborts = 1
  MaxPreemptions = 1
  MaxSignals = 1
INVARIANTS
  PauseHolds
  AbortSticks
  AnsweredOnce
PROPERTIES
  CallsReturn
