SPECIFICATION FairSpec
CONSTANTS
  r1 = r1
  r2 = r2
  plain = plain
  alice = alice
  bob = bob
  masked = masked
  bad = bad
  huge = huge
  None = None
  NumRedactors = 2
  Reqs = {r1, r2}
  Texts <- MCTexts
  Histories <- MCHistories
  Configs <- MCConfigs
  Oversized <- MCOversized
  Cut <- MCCut
  Flagged <- MCFlagged
  Mask <- MCMask
  Finds <- MCFinds
INVARIANTS
  TypeOK
  CacheHoldsVerdicts
  PassHasReason
  ShadowNeverBlocks
  ResultIsOwn
  EventsTellResults
PROPERTIES
  OnlyTheCacheHangs
  ImplementsGate
