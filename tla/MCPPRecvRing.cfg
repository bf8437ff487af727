SPECIFICATION Spec
CONSTANTS
  NumRanks = 2
  Requests = {r1, r2}
  NumSlots = 2
  NumSpec = 1
  Prefills = {2}
  MaxSteps = 5
  LastAdmission = 4
  r1 = r1
  r2 = r2
INVARIANTS
  TokensOfOwner
  PositionsExact
  BroadcastsPaired
