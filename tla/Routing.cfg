SPECIFICATION FairSpec
CONSTANTS
  c1 = c1
  c2 = c2
  x = x
  y = y
  a1 = a1
  a2 = a2
  Own = Own
  All = All
  None = None
  Callers <- TwoCallers
  Names <- TwoNames
  Configured <- OneName
  Default = "yes"
  Lives = 2
  Forwarding <- First
  Forcing <- Second
  Auths <- TwoAuths
  Asks <- SomeAsks
  Offers <- OneOffer
  TTL = 2
  PullTimeout = 1
  MaxNow = 3
INVARIANT RoutedInOrder
PROPERTIES GivenOwnList MissesShareOnePull LookupsEnd
