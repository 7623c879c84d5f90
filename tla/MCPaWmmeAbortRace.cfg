CONSTANTS
  OpenStreams <- Output
  CallbackResults = {"paContinue"}
  MaxStarts = 1
  AbortTimeout = FALSE
  MaxFrames = 0
  MaxTransfer = 0
SPECIFICATION StreamSpec
INVARIANTS
  NothingQueuedWhenClosed
CHECK_DEADLOCK FALSE
