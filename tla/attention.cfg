SPECIFICATION Spec
CONSTANTS
  Approval = {a1}
  Question = {q1}
  Offset = {0}
  Grace = 0
  WakeTime = {}
  FirstTime = 2
  MaxTime = 3
  MaxRestarts = 1
INVARIANTS
  TypeOK
  SettledIsQuiet
  
PROPERTY
  RequestsWake
CHECK_DEADLOCK FALSE
