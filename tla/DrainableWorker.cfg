SPECIFICATION FairSpec
CONSTANTS
  Item = {i1, i2, i3}
  Drainer = {d1, d2}
  Fallible = {i3}
CHECK_DEADLOCK FALSE
INVARIANTS
  DrainMeansProcessed
PROPERTY
  DrainResolves
