SPECIFICATION SinkSpec
CONSTANTS
  Subs <- MCSubs
  Event <- MCEvent
  Matches <- MCMatches
  QueueCap = 1
  MaxAttempts <- MCMaxAttempts
  DlqCap = 1
  Responses <- MCResponses
INVARIANTS
  AccountsBalance
  RetriesFitResponses
PROPERTY KeepsPromise
CHECK_DEADLOCK FALSE
