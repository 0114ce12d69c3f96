SPECIFICATION FairSpec
CONSTANTS
  MaxEvents = 3
  MaxMoves = 3
  Version = {"new", "old"}
INVARIANTS
  ViewIsThread
  LiveIsCaughtUp
PROPERTIES
  NeverBack
  Converges
CHECK_DEADLOCK FALSE
