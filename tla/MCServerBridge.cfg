SPECIFICATION FairSpec
CONSTANTS
  BufferSize = 2
  MaxChunk = 2
  MaxInput = 3
  Conns = {c1}
  Fds = {f1}
  NoConn = NoConn
  NoFd = NoFd
  MaxClients = 1
  SendCapacity = 1
INVARIANTS
  DeviceOrder
PROPERTIES
  ReaderReturns
  BufferLeaves
