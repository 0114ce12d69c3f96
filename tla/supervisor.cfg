SPECIFICATION Spec
CONSTANTS
  Relay = TRUE
  MaxCalls = 3
  MaxFaults = 2
INVARIANTS
  WorkIsWanted
  ParkedForReason
  RetryIsServed
  LadderIsEarned
PROPERTIES
  Converges
CHECK_DEADLOCK FALSE
