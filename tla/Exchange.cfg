CONSTANTS
  r1 = r1
  r2 = r2
  Requests <- TwoRequests
  Counted <- OneCounted
  Readers <- OneReader
  Recent = 1
  None = None
SPECIFICATION FairSpec
CHECK_DEADLOCK FALSE
INVARIANTS
  ListedOnce
  CutIsNotTheClient
  RecordingFollowsExchange
PROPERTIES
  FindMissesOnlyInTheGap
  CutEndsAll
