CONSTANTS
  p1 = p1
  p2 = p2
  Procs = {p1, p2}
  Free = Free
  MaxWaits = 2
  f1 = f1
  f2 = f2
  f3 = f3
  e1 = e1
  u1 = u1
  u2 = u2
  u3 = u3
  Tasks = {f1, f2, f3}
  Errors = {e1}
  Limits = {0, 1, 2}
  nil = nil
  Users = {u1, u2, u3}
  Values = {0, 1, 3}
  BoundsOf <- MCBounds
  WordBits = 8
  MaxReplicas = 20
  PoolBits = 6
  Appends = {1, 2, 4, 8, 20}
SPECIFICATION LibrarySpec
INVARIANTS WakeUp WithinLimit NothingLost Covered Pooled
PROPERTIES BroadcastWakesAll
SYMMETRY MCSymmetry
CHECK_DEADLOCK FALSE
