SPECIFICATION Spec
CONSTANTS
  OversizedRoles = {}
  File0 <- NewFile
  MaxTurns = 2
  MaxLen = 4
  MaxCrashes = 1
  CanFail = TRUE
  CanTear = FALSE
  OutCap = 1
INVARIANT OnlyWholeTurnsRecovered
CHECK_DEADLOCK FALSE
