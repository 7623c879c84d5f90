SPECIFICATION Spec
CONSTANTS
  Systems <- MCSystems
  MaxFaults = 12
  InitialLinkCount = 4
  Requests <- MCRequests
INVARIANTS
  HostApiIsComplete
  OpeningIsClean
  BuffersFit
CHECK_DEADLOCK FALSE
