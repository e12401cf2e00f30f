SPECIFICATION FairRuntimeSpec
CONSTANTS
  shell = shell
  ToolName <- MCToolName
  Known <- MCToolName
  Allowed <- MCToolName
  NeedsApproval <- MCNeedsApproval
  HasTimeout <- MCNeedsApproval
  ContextEnabled = FALSE
  MaxSteps = 1
  MaxCalls = 2
  MaxDeltas = 1
  StreamCap = 2
  HasExtractor = TRUE
  OutCap = 1
INVARIANT OneTerminal
INVARIANT CompletedIsWhole
INVARIANT SilentEndMeansOverflow
PROPERTY ForwardingEnds
PROPERTY AgentGoroutineEnds
CHECK_DEADLOCK FALSE
