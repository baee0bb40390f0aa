SPECIFICATION Spec
CONSTANTS
  None = None
  Requests <- MCRequests
  Ranges <- MCRanges
  DAY = 2
  MAX = 7
  Retention = 2
  MaxClock = 4
INVARIANTS
  ReportMissesNothingKept
  FiguresAgree
CHECK_DEADLOCK FALSE
