SPECIFICATION Spec
CONSTANTS
  Stop = {s1, s2}
  MaxStarts = 3
  MaxFaults = 3
  Limit = 2
INVARIANTS
  OneBackend
  
  WantedIsServed
  StopHolds
PROPERTIES
  Converges
CHECK_DEADLOCK FALSE
