SPECIFICATION FairSpec
CONSTANTS
  Conns = {c1, c2}
  Fds = {f1, f2}
  NoConn = NoConn
  NoFd = NoFd
  MaxClients = 2
  SendCapacity = 1
  MaxCalls = 2
PROPERTIES
  SlotFreed
  AcceptorReturns
