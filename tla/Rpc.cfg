CONSTANTS
  Calls = {c1, c2}
  Bufs = {b1, b2, b3}
  None = None
  Methods <- KeptOrCopied
  Stubs = {"local", "remote"}
  Contexts = {TRUE, FALSE}
  MaxSends = 2
  InjectRetries = TRUE
SYMMETRY Symmetry
SPECIFICATION Spec
INVARIANTS OneOwner Intact Accounted
PROPERTY Implements
CHECK_DEADLOCK FALSE
