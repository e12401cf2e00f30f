SPECIFICATION FairStreamSpec
CONSTANTS
  Payloads <- MCPayloads
  MaxPayloads = 4
INVARIANT AnswerIsWhatWasStreamed
PROPERTY EndsUnlessStuck
CHECK_DEADLOCK FALSE
