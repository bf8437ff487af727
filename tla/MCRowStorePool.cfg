SPECIFICATION Spec
CONSTANTS
  Requests <- MCRequests
  MaxRows = 5
  Rows = 4
  RowLo = 1
  RowHi = 4
  Chunk = 2
  MaxLookups = 3
  Threads = {t1, t2}
INVARIANTS
  TypeOK
  NoDanglingCall
  NoDoubleClaim
  NoLostWakeup
PROPERTIES
  ImplementsRowLookup
  CallsReturn
