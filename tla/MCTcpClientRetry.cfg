SPECIFICATION FairSpec
CONSTANTS
  Fds = {f1, f2}
  NoFd = NoFd
  MaxOther = 0
  SendCapacity = 1
  MaxCalls = 1
PROPERTIES
  Reestablished
