SPECIFICATION Spec
CONSTANTS
  Star = Star
  Preset = Preset
  None = None
  Sessions <- MCSessions
  Writes <- MCWrites
  MaxRejectedFields = 2
  MAX_RAW_MESSAGE = 4
  MAX_MESSAGE_CHARS = 6
  BackendNames <- MCBackendNames
  Unfit <- MCUnfit
  Secrets = {"s1", "s2"}
  AcceptedId <- MCAcceptedId
  Stretch <- MCStretch
INVARIANTS
  HeadersAccountedFor
  SentAsConfigured
  ConversationKept
  AnswersTell
  SummaryTellsTheTurn
PROPERTY PrefixKept
CHECK_DEADLOCK FALSE
