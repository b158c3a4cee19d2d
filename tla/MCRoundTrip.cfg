SPECIFICATION Spec
CONSTANTS
  r1 = r1
  r2 = r2
  Requests = {r1, r2}
  Scans <- MCScans
  Length = 4
  TTL = 1
  MaxTime = 2
INVARIANTS
  TypeOK
  NoFlaggedTextLeft
  UnredactRestores
PROPERTY
  PutSweepsStale
