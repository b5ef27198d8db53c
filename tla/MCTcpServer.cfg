SPECIFICATION Spec
CONSTANTS
  Conns = {c1, c2, c3}
  Fds = {f1, f2, f3}
  NoConn = NoConn
  NoFd = NoFd
  MaxClients = 2
  SendCapacity = 1
  MaxCalls = 2
SYMMETRY Symmetry
INVARIANTS
  TypeOK
  TableSound
  TableBounded
PROPERTIES
  ImplementsMulticast
