SPECIFICATION Spec
CONSTANTS
  Approval = {a1}
  Question = {q1}
  Offset = {0}
  Grace = 0
  WakeTime = {3}
  FirstTime = 2
  MaxTime = 3
  MaxRestarts = 1
CHECK_DEADLOCK FALSE
INVARIANT
  SettledHidesNothing
