SPECIFICATION FairSpec
CONSTANTS
  BufferSize = 2
  MaxChunk = 2
  MaxInput = 3
  Fds = {f1, f2}
  NoFd = NoFd
  MaxOther = 1
  SendCapacity = 1
INVARIANTS
  DeviceOrder
PROPERTIES
  ReaderReturns
  BufferLeaves
