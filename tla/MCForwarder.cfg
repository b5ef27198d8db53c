SPECIFICATION FairSpec
CONSTANTS
  BufferSize = 3
  MaxChunk = 2
  MaxInput = 6
INVARIANTS
  TypeOK
  BufferBounded
  Conservation
  WireInOrder
  SingleSender
PROPERTIES
  ReaderReturns
  ImplementsPipe
