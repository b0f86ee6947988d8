CONSTANTS
  MaxTokens = 2
  Blank <- SomeBlank
  Variables <- SomeVariables
  BufferSize = 1
  MaxFailures = 1
SPECIFICATION Spec
INVARIANTS
  KeptAsShown
  ModeratedAsShown
  SavedIsShielded
  StopIsPrompt
PROPERTIES
  ReaderIsReleased
  ReviewerEnds
CHECK_DEADLOCK FALSE
