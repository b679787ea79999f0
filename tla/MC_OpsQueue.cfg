\* Safety: two keys, two workers and three callers, enough for a merge into a
\* running task, a key queued behind another and a late forced call.
SPECIFICATION Spec
CONSTANTS
  Keys = {k1, k2}
  Workers = {w1, w2}
  Requests = {r1, r2, r3}
  AgeClasses = {0, 3}
  NoKey = NoKey
  Calls <- BackgroundAndForced
  DbMayFail = TRUE
  MayCancel = TRUE
SYMMETRY Symmetry
INVARIANTS
  TypeOK
  OneRunPerKey
  NoCallerForgotten
  ForcedCallGetsFetch
  NoLostWakeup
\* When a failed start has wedged every key a caller waits for, nothing moves.
CHECK_DEADLOCK FALSE
