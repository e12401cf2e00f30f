SPECIFICATION Spec
CONSTANTS
  Transcripts <- MCTranscripts
  Windows <- MCWindows
  Reserves <- MCReserves
  Margins <- MCMargins
  Fixed = 1
  MaxSummary = 3
  MaxCalls = 2
  MaxRounds = 2
INVARIANT OrderAgrees
INVARIANT PreparedIsPaired
INVARIANT LongestFittingSuffixIsSent
INVARIANT SentOrReplaced
INVARIANT BudgetErrorIsForced
CHECK_DEADLOCK FALSE
