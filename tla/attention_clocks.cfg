SPECIFICATION FairSpec
CONSTANTS
  Approval = {}
  Question = {}
  Offset <- MCOffset
  Grace = 1
  WakeTime = {4}
  FirstTime = 2
  MaxTime = 6
  MaxRestarts = 1
CHECK_DEADLOCK FALSE
INVARIANTS
  
  LifecycleAgrees
PROPERTY
  BlockEnds
