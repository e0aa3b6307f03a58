SPECIFICATION Spec
CONSTANTS
  Subs <- TwoSubs
  Event <- TwoEvents
  Matches <- SomeMatch
  QueueCap = 1
  MaxAttempts <- OneRetry
  DlqCap = 1
  Responses <- AlwaysRetried
  Sources <- OneSource
  Lines <- ThreeLines
  Finite <- OneSource
  Failing <- OneSource
  RawCap = 2
INVARIANTS
  EndIsTrue
PROPERTIES
  PatientDrain
  ImplementsTask
CHECK_DEADLOCK FALSE
