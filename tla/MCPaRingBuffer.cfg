CONSTANTS
  N = 2
  MaxRequest = 3
  MaxElements = 6
SPECIFICATION FairSpec
INVARIANTS
  TypeOK
  ReadsInOrder
  NoDataRace
  EstimatesAreSafe
PROPERTIES
  ImplementsFifo
  EveryElementDelivered
