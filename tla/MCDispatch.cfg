SPECIFICATION DispatchFairSpec
CONSTANTS
  r1 = r1
  r2 = r2
  r3 = r3
  Rules = {r1, r2, r3}
  Order <- MCOrder
  MaxConcurrent = 2
INVARIANTS
  TypeOK
  BoundedFanout
  NoOrphanJudge
PROPERTIES
  NoJudgeAfterDecision
  AuditEnds
  EveryWayImplementsAuditVerdict
