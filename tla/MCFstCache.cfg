SPECIFICATION Spec
CONSTANTS
  Scenarios <- MCScenarios
  Iterators = {i1, i2}
  StateSize = 2
  ArcSize = 1
  kMinCacheLimit = 6
INVARIANTS
  CacheIsSound
  WalkVisitsAllStates
PROPERTIES
  WidensOnlyWhenInUse
