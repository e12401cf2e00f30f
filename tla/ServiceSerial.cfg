SPECIFICATION Spec
CONSTANTS
  r1 = r1
  r2 = r2
  r3 = r3
  free = free
  OversizedRoles = {}
  Request <- MCRequest
  Streams <- OneStream
  TurnOf <- MCTurnOf
  File0 <- MCFile0
  Free = free
INVARIANT LeafAdvancesSerially
CHECK_DEADLOCK FALSE
