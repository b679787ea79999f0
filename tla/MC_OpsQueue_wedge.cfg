\* Only the database fails; no client disconnects.
SPECIFICATION FairSpec
CONSTANTS
  Keys = {k1}
  Workers = {w1, w2}
  Requests = {r1, r2}
  AgeClasses = {0, 3}
  NoKey = NoKey
  Calls <- PartitionCalls
  DbMayFail = TRUE
  MayCancel = FALSE
PROPERTIES
  EveryCallAnswered
CHECK_DEADLOCK FALSE
