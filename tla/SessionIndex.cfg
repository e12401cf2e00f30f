SPECIFICATION FairSpec
CONSTANTS
  a = a
  b = b
  c = c
  s1 = s1
  s2 = s2
  local = local
  other = other
  Default = Default
  None = None
  Server <- MCServer
  Command <- MCCommand
  User <- MCUser
  Local = local
  Field <- MCField
  ByRequest <- MCByRequest
  AtCreation <- MCAtCreation
  Index0 <- MCIndex0
PROPERTY ImplementsStore
PROPERTY EveryRequestEnds
CHECK_DEADLOCK FALSE
