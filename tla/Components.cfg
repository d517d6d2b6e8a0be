CONSTANTS
  root = root
  a = a
  b = b
  t1 = t1
  t2 = t2
  Comps = {root, a, b}
  Threads = {t1, t2}
  Graphs <- MCGraphs
  Registered <- MCRegistered
  Fakes <- MCFakes
  MaxDepth = 5
  nil = nil
SPECIFICATION Spec
INVARIANTS Wired
PROPERTY CreationEnds
CHECK_DEADLOCK FALSE
