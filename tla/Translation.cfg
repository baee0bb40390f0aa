SPECIFICATION Spec
CONSTANTS
  None = None
  Nil = None
  LastIndex = 2
  Calls <- ThreeIndexes
  MaxCalls = 2
  MaxPending = 1
  MaxPayloads = 5
  Conventions <- AllConventions
INVARIANTS
  CallsArriveWhole SameDocument HeldIsBounded
PROPERTY
  ReadAsMessage
CHECK_DEADLOCK FALSE
