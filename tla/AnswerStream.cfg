SPECIFICATION FairSpec
CONSTANTS
  None = None
  Says <- MCSays
  Chunks <- MCChunks
  MaxChunks = 3
  FirstByte = 1
  Idle = 2
  PING_INTERVAL = 1
  MAX_FRAME_BYTES = 9
  MAX_DOCUMENT_BYTES = 3
  MAX_BUFFERED_BYTES = 9
INVARIANTS
  FramesWhateverTheSplit PingsBetweenEvents UsageIsLastSaid TimedOutForSilence
PROPERTY
  AnswersEnd
CHECK_DEADLOCK FALSE
