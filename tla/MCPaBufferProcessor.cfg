CONSTANTS
  Configurations <- AllSizes
  CallbackResults = {"paContinue", "paComplete", "paAbort"}
  MaxHostBuffer = 3
  MaxFrames = 8
SPECIFICATION FairSpec
INVARIANTS
  StreamsAreGapless
  LatencyIsConstantAndLeast
PROPERTIES
  HostBuffersUsed
  CallsReturn
CHECK_DEADLOCK FALSE
