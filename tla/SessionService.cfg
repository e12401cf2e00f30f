SPECIFICATION FairSpec
CONSTANTS
  r1 = r1
  r2 = r2
  r3 = r3
  free = free
  OversizedRoles = {}
  Request <- MCRequest
  Streams <- OneStream
  TurnOf <- MCTurnOf
  File0 <- MCFile0
  Free = free
INVARIANT LoadsWholeTurns
INVARIANT LockCoversTurn
INVARIANT DoneIsKept
PROPERTY ViewOnlyGrows
PROPERTY EveryRequestEnds
CHECK_DEADLOCK FALSE
