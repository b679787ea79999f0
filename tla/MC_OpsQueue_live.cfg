\* Liveness and refinement: two callers that come back for ever and one
\* worker, so that keys queue behind each other; no symmetry.
SPECIFICATION FairSpec
CONSTANTS
  Keys = {k1, k2}
  Workers = {w1}
  Requests = {r1, r2}
  AgeClasses = {0, 3}
  NoKey = NoKey
  Calls <- PlainAndForced
  DbMayFail = TRUE
  MayCancel = TRUE
PROPERTIES
  ImplementsSingleFlight
  EveryCallSettles
\* When a failed start has wedged every key a caller waits for, nothing moves.
CHECK_DEADLOCK FALSE
