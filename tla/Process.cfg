CONSTANTS
  MaxLogs = 1
  MaxLost = 1
  LogBufferCount = 1
  nil = nil
SPECIFICATION Spec
INVARIANTS Handshake Blame
PROPERTY EndTogether
CHECK_DEADLOCK FALSE
