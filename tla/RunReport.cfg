SPECIFICATION FairSpec
CONSTANTS
  x = x
  y = y
  Modes <- MCModes
  CallId <- MCCallId
  Batches <- MCBatches
  MaxRounds = 2
  MaxPieces = 1
  OutCap = 2
INVARIANT ToldInOrder
INVARIANT DoneTellsTheTurn
INVARIANT AnsweredUnlessGone
PROPERTY ReportEnds
CHECK_DEADLOCK FALSE
