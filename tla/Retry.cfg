CONSTANTS
  a1 = a1
  c1 = c1
  c2 = c2
  k1 = k1
  k2 = k2
  s1 = s1
  s2 = s2
  Addrs <- OneAddr
  Conns <- OneConn
  Callers = {k1, k2}
  Stubs = {s1}
  AddrOf <- AddrOfC
  StubOf <- OneStub
  NoRetry = {k1}
  EndpointSets <- Fixed
  MaxNet = 2
  MaxAttempts = 2
  MaxID = 4
  NoConn = NoConn
  NoRpc = NoRpc
  Free = Free
  Updater = Updater
  Pending = Pending
  Failed = Failed
CHECK_DEADLOCK FALSE
SPECIFICATION FairSpec
PROPERTIES WaitEnds
