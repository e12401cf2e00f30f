SPECIFICATION InputsSpec
CONSTANTS
  Unset = Unset
  Names <- MCNames
  Trim <- MCTrim
  Files <- MCFiles
  ServiceNames <- MCServiceNames
  Declarations <- MCDeclarations
  KnownNames <- MCKnownNames
  CallNames <- MCCallNames
  Arguments <- MCArguments
  Responses <- MCResponses
  Strip <- MCStrip
  Fold <- MCFold
  Depth = 2
  Limit = 2
INVARIANT StartsAsTold
INVARIANT ReadyMeansRunnable
INVARIANT RescuedByName
INVARIANT CheckedIsWhatRuns
INVARIANT CandidatesAreTheWholeResponse
PROPERTY ProviderFollowsRuns
CHECK_DEADLOCK FALSE
