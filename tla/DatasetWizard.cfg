CONSTANTS
  MaxFiles = 2
  BatchLimit = 1
  MaxChanges = 3
  MaxVisits = 1
  MaxCreations = 2
  MaxSwitches = 2
  MaxPolls = 2
  MaxLost = 1
SPECIFICATION Spec
INVARIANTS
  ShownIsKept
  NextRefusedForAReason
  OneCreationPerVisit
  PreviewIsOfTheSettings
  CalculatingMeansAsked
  StoppedShowsTheEnd
PROPERTIES
  CreatedIsAccepted
  EveryFileIsSent
  PollingEnds
CHECK_DEADLOCK FALSE
