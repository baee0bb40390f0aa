SPECIFICATION FairReloadSpec
CONSTANTS
  c1 = c1
  c2 = c2
  hangup = hangup
  none = none
  a1 = a1
  a2 = a2
  Calls <- TwoCalls
  Hangup <- hangup
  Nobody <- none
  Addrs <- TwoAddrs
  Listen <- a1
  ListenIn <- Moved
  Loadable <- Loading
  MaxVersion = 2
  HISTORY = 2
INVARIANTS HistoryTellsCurrent RestartGated
PROPERTY SignalTakesEffect
