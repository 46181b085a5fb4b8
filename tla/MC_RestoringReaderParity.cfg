CONSTANTS
  Stream <- MCStream
  From <- MCFrom
  ReadSize = 20
  HoldBack = 20
  MaxId = 2
SPECIFICATION Spec
INVARIANTS
  StreamParity
