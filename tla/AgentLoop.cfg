SPECIFICATION FairSpec
CONSTANTS
  calc = calc
  shell = shell
  hidden = hidden
  bogus = bogus
  ToolName <- MCToolName
  Known <- MCKnown
  Allowed <- MCAllowed
  NeedsApproval <- MCNeedsApproval
  HasTimeout <- MCHasTimeout
  ContextEnabled = TRUE
  MaxSteps = 1
  MaxCalls = 2
  MaxDeltas = 1
  StreamCap = 2
INVARIANT TypeOK
INVARIANT TerminalIsLast
INVARIANT CancellationEndsBatch
INVARIANT GovernedExecution
INVARIANT CallsResulted
PROPERTY CancelStopsRun
CHECK_DEADLOCK FALSE
