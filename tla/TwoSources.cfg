SPECIFICATION MostlyPromptSpec
CONSTANTS
  Subs <- OneSub
  Event <- ThreeEvents
  Matches <- StdinMatch
  QueueCap = 1
  MaxAttempts <- NoRetry
  DlqCap = 1
  Responses <- AlwaysTaken
  Sources <- TwoSources
  Lines <- TwoLines
  Finite <- OneSource
  Failing <- OneSource
  RawCap = 1
INVARIANT EventsFlowInOrder
PROPERTIES
  FanOutNeverWaits
  Stops
CHECK_DEADLOCK FALSE
