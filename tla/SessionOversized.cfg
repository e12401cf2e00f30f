SPECIFICATION Spec
CONSTANTS
  OversizedRoles = {"result"}
  File0 <- UsedFile
  MaxTurns = 2
  MaxLen = 4
  MaxCrashes = 1
  CanFail = TRUE
  CanTear = FALSE
  OutCap = 1
INVARIANT CommittedIsLoadable
CHECK_DEADLOCK FALSE
