CONSTANTS
  GROUP_SIZE = 2
  MaxRows = 4
  Uploads <- Files
  MaxCommands = 2
  MaxTries = 3
SPECIFICATION Spec
INVARIANTS
  TypeOK
  StuckOnlyByStaleGroup
  GroupsBoundTheRequests
PROPERTIES
  CompletedStays
  EveryRowGetsItsTurn
CHECK_DEADLOCK FALSE
