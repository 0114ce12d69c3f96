SPECIFICATION FairSpec
CONSTANTS
  MaxTurns = 2
  MaxReports = 1
  MaxReverts = 1
  MaxFaults = 1
  MaxCheckpoints = 2
  Supersedes = FALSE
INVARIANTS
  QuietIsQuiet
  OneTurnRuns
  
  
PROPERTIES
  OutcomeSticks
  PlaceholdersReplaced
CHECK_DEADLOCK FALSE
