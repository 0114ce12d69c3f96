SPECIFICATION FairSpec
CONSTANTS
  k1 = k1
  k2 = k2
  u1 = u1
  u2 = u2
  u3 = u3
  u4 = u4
  d1 = d1
  d2 = d2
  Key = {k1, k2}
  Update = {u1, u2, u3, u4}
  Drainer = {d1, d2}
  KeyOf <- MCKeyOf
  DrainKey <- MCDrainKey
CHECK_DEADLOCK FALSE
INVARIANTS
  FlagsMatchQueue
  UpdatesConserved
  DrainMeansSettled
PROPERTY
  EverythingSettles
