SPECIFICATION FairSpec
CONSTANTS
  Byte <- MCByte
  Bodies <- MCBodies
  Scratch = 2
  MaxEmptyReads = 3
  ReadLimits <- MCReadLimits
  MaxAlloc = 3
  FallbackCap = 2
  WireConfigs <- MCWireConfigs
  Findings <- MCFindings
INVARIANTS
  DecisionIsTrue
  ForwardedIntact
  InspectsExactPrefix
  BoundedOverread
  EnforcedFindingsStop
  FallbackFailsOpen
PROPERTY EveryRequestAnswered
