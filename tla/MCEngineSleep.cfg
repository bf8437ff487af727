SPECIFICATION Spec
CONSTANTS
  r1 = r1
  r2 = r2
  Requests = {r1}
  Tokens = 1
  QueueSize = 2
  DrainModes = {FALSE}
  Patient = FALSE
  Pauses <- MCPauses
  MaxQueued = 2
  MaxCalls = 2
  MaxAborts = 0
  MaxPreemptions = 0
  MaxSignals = 0
INVARIANTS
  ResumedResident
