SPECIFICATION FairStopSpec
CONSTANTS
  k1 = k1
  k2 = k2
  k3 = k3
  Conns <- Clients3
  Writes <- Clients3
  MaxConnections = 2
INVARIANT StoppedMeansRecorded
PROPERTY StopEnds
CHECK_DEADLOCK FALSE
