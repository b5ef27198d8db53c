SPECIFICATION Spec
CONSTANTS
  Slots = 2
  LineSize = 4
  Codes <- MCCodes
  MaxTyped = 7
INVARIANTS
  TypeOK
  Framing
  TypedOrder
  OneLostPerCut
