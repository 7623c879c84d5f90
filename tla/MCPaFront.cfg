CONSTANTS
  InitializerCount = 3
  InitializerResults <- ManyResults
  Streams = {s1, s2, s3}
  MaxInitializations = 2
  MaxEpochs = 2
  SpecificTypes = {}
  AbortMayFail = TRUE
  CloseMayFail = TRUE
SPECIFICATION FairSpec
INVARIANTS
  StreamsAndHostApisAreListed
  DevicesAreIndexed
PROPERTIES
  CallsReturn
CHECK_DEADLOCK FALSE
