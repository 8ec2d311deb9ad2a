SPECIFICATION StorySpec
CONSTANTS
  MaxIterations = 2
  MaxPauses = 2
  Limits = TRUE
  Starts <- AllStarts
CHECK_DEADLOCK FALSE
PROPERTIES PhasesInOrder PhasesWithinLimits RuntimeReturns
