SPECIFICATION FairSpec
CONSTANTS
  MaxTurns = 2
  CallID = {c1, c2}
  MaxPosts = 3
\* The run returns.
CHECK_DEADLOCK FALSE
INVARIANTS
  TerminalIsLast
  WritesAreApproved
  ReportsAgree
  TranscriptPaired
  CauseDecidesStatus
PROPERTY OnlyPredictHangs
