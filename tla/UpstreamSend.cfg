SPECIFICATION FairSendSpec
CONSTANTS
  c1 = c1
  c2 = c2
  None = None
  Clients <- TwoClients
  Secrets <- OneRotation
  Lifetimes <- SomeLifetimes
  Refresh = 1
  Margin = 1
  RetryAfter = 2
  MaxNow = 1
  MaxRetries = 1
  MaxRotations = 1
INVARIANTS
  RunsBoundedByRotations
PROPERTIES
  NoSpuriousRejection
  RequestsEnd
CHECK_DEADLOCK FALSE
