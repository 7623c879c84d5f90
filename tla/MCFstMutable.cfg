SPECIFICATION Spec
CONSTANTS
  Scenarios <- MCScenarios
  MaxLength = 2
  MaxWeight = 2
INVARIANTS
  MachinesAreSound
PROPERTIES
  OneMachineAtATime
  RelationsAreRight
CHECK_DEADLOCK FALSE

