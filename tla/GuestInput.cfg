\* Families of requests through the host's buffers, the request view and the
\* content detectors.
SPECIFICATION Spec
CONSTANTS
  SCRATCH = 4
  MAX_ALLOC = 10
  MAX_MULTI_VALUES = 4
  I32_LIMIT = 12
  MAX_DECODE_PASSES = 3
  MAX_HEADER_BYTES = 6
  MAX_HEADER_COUNT = 3
  Requests <- MCRequests
INVARIANTS
  HeadersTrue
  NothingMissed
  ParamsKept
  VerdictsSound
  SourceAttributed
\* A request ends with its verdicts.
CHECK_DEADLOCK FALSE
