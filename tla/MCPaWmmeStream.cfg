CONSTANTS
  OpenStreams <- Streams
  CallbackResults = {"paContinue", "paComplete", "paAbort"}
  MaxStarts = 2
  AbortTimeout = TRUE
  MaxFrames = 8
  MaxTransfer = 3
SPECIFICATION StreamSpec
INVARIANTS
  OneThreadPerStream
  BuffersGoRound
  FinishedMeansPlayed
  BlockingTransfers
CHECK_DEADLOCK FALSE
