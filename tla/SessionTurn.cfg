SPECIFICATION FairSpec
CONSTANTS
  OversizedRoles = {}
  File0 <- UsedFile
  MaxTurns = 2
  MaxLen = 4
  MaxCrashes = 1
  CanFail = TRUE
  CanTear = FALSE
  OutCap = 1
INVARIANT IdleMatchesDisk
INVARIANT SummaryEndsATurn
INVARIANT MemoryIsCommitted
PROPERTY ImplementsLog
PROPERTY CancelFreesSession
CHECK_DEADLOCK FALSE
