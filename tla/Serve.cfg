CONSTANTS
  c1 = c1
  c2 = c2
  i1 = i1
  i2 = i2
  i3 = i3
  Conns = {c1}
  Ids = {i1, i2}
  Known = {i1}
  Timed = {i1}
  Inline = TRUE
  Main = Main
  None = None
CHECK_DEADLOCK FALSE
SPECIFICATION FairSpec
INVARIANTS OneReader CancelTable CancelledForAReason
PROPERTIES Drained NotBlocked PeerGone
