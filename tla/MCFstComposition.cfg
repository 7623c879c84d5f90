SPECIFICATION Spec
CONSTANTS
  Scenarios <- MCScenarios
  MaxLength = 4
INVARIANTS
  CompositionsAreRight
  MatchesPathsOnce
  ClaimsAreTrue
  HistoryIsForgotten
