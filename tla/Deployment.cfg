CONSTANTS
  p1 = p1
  p2 = p2
  p3 = p3
  r = r
  w = w
  x = x
  y = y
  z = z
  Lets = {p1, p2, p3}
  Comps = {r, w, x, y, z}
  Root = r
  Colocate <- TwoGroups
  Routed = {w}
  Refs <- Fields
  Free = Free
  None = None
  MaxTrouble = 1
CHECK_DEADLOCK FALSE
SPECIFICATION FairSpec
INVARIANTS LocalAgrees RoutingCurrent
PROPERTIES Activated DeathEnds
