CONSTANTS
  Pages <- AllPages
  Existing = 1
  MaxSends = 2
  MaxClicks = 3
SPECIFICATION Spec
INVARIANTS
  ShownIsCurrent
  StuckOnlyAfterFailure
  OneAtATime
PROPERTIES
  GivenUpIsSilent
  RespondingEnds
CHECK_DEADLOCK FALSE
