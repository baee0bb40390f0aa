SPECIFICATION Spec
CONSTANTS
  c1 = c1
  c2 = c2
  v1 = v1
  v2 = v2
  None = None
  Clients <- TwoClients
  Secrets <- TwoSecrets
  Lifetimes <- SomeLifetimes
  Refresh = 1
  Margin = 1
  RetryAfter = 2
  MaxNow = 3
SYMMETRY Alike
INVARIANT
  StatusShowsServed
PROPERTIES
  ServedInTime
  RejectedNotServed
  WaitersShareFailure
