CONSTANTS
  OpenStreams <- InputOrOutput
  CallbackResults = {"paContinue", "paComplete", "paAbort"}
  MaxStarts = 2
  AbortTimeout = TRUE
  MaxFrames = 4
  MaxTransfer = 3
SPECIFICATION FairStreamSpec
PROPERTIES
  CallsReturn
  StoppingStreamFinishes
CHECK_DEADLOCK FALSE
