CONSTANTS
  t1 = t1
  t2 = t2
  a = a
  b = b
  c = c
  d = d
  Threads = {t1, t2}
  Symbols = {a, b, c, d}
  MaxKey = 4
  InitialBuckets = 4
  Hash <- SomeHash
  Scenarios <- AllScenarios
SPECIFICATION Spec
INVARIANTS
  TableIsAMapping
  MergeKeepsKeys
  CheckSumsAgree
PROPERTIES
  ImplementsSymbolMap
CHECK_DEADLOCK FALSE
