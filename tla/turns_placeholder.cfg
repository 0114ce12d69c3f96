SPECIFICATION Spec
CONSTANTS
  MaxTurns = 1
  MaxReports = 1
  MaxReverts = 0
  MaxFaults = 0
  MaxCheckpoints = 2
  Supersedes = FALSE
PROPERTIES
  RealStays
CHECK_DEADLOCK FALSE
