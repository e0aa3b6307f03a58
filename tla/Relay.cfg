\* MCRelay: configurations and requests as in the module.
SPECIFICATION FairSpec
CONSTANTS
  Configs <- MCConfigs
  Requests <- MCRequests
INVARIANTS
  ExitIsTrue
  StartedOnlyValid
  DataGuarded
PROPERTY StopsWithEither
\* The process exits.
CHECK_DEADLOCK FALSE
