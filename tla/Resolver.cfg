CONSTANTS
  w1 = w1
  w2 = w2
  w3 = w3
  l1 = l1
  l2 = l2
  Watchers = {w1, w2}
  Lists = {l1}
  NoList = NoList
  Free = Free
  MaxUpdates = 2
CHECK_DEADLOCK FALSE
SPECIFICATION FairSpec
INVARIANTS NoMissedUpdate AppliedIsPublished
PROPERTIES LatestSpec CloseReturns
