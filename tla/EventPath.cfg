\* Lines, labels and filters through the relay's parser task.
SPECIFICATION FairSpec
CONSTANTS
  Char <- MCChar
  Worlds <- MCWorlds
  Enrichers <- MCEnrichers
  EnricherTimeout = 2
INVARIANTS
  EnrichmentBounded
  EventsTakenExactly
  OperatorWins
  CacheIsTrue
  FilterExact
PROPERTIES
  EnrichmentNeverBlocks
