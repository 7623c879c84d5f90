SPECIFICATION Spec
CONSTANTS
  Scenarios <- MCScenarios
  MaxLength = 2
INVARIANTS
  QueuesAreSound
  DistancesAndPathsAreShortest
  PushAndPrune
  EpsilonRemoval
