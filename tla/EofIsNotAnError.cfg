SPECIFICATION Spec
CONSTANTS
  Subs <- TwoSubs
  Event <- TwoEvents
  Matches <- SomeMatch
  QueueCap = 1
  MaxAttempts <- OneRetry
  DlqCap = 1
  Responses <- RetriedOrTaken
  Sources <- OneSource
  Lines <- ThreeLines
  Finite <- OneSource
  Failing = {}
  RawCap = 1
INVARIANT EofIsNotAnError
CHECK_DEADLOCK FALSE
