SPECIFICATION CacheSpec
CONSTANTS
  Keys = {k1, k2, k3}
  Values <- MCValues
  None = None
  MaxEntries = 2
  TTL = 1
  LastTick = 2
  MaxUses = 5
  Categories <- MCCategories
  Foreign <- MCForeign
INVARIANTS
  BoundedTable
PROPERTIES
  EvictsLeastRecent
  EitherCacheForgets
