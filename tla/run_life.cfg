SPECIFICATION FairSpec
CONSTANTS
  e1 = e1
  e2 = e2
  s1 = s1
  s2 = s2
  None = None
  Executors <- MCExecutors
  Sweepers <- MCSweepers
  Reapers <- MCOneSweeper
  MaxEdits = 1
  MaxSteps = 1
  MaxDeaths = 2
CHECK_DEADLOCK FALSE
INVARIANTS RowConsistent StepsUnderPinnedConfig
PROPERTIES TerminalIsFinal StartedRunSettles
