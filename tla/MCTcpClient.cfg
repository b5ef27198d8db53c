SPECIFICATION FairSpec
CONSTANTS
  Fds = {f1, f2}
  NoFd = NoFd
  MaxOther = 2
  SendCapacity = 1
  MaxCalls = 3
INVARIANTS
  TypeOK
  DescriptorOwned
  StrayOnlyAfterGivingUp
  NoGap
PROPERTIES
  LossNoticed
  SendReturns
