\* One publisher that is never dropped, a channel and a replay without limits
\* that matter, a database that never fails.
CONSTANTS
  p1 = p1
  Publishers = {p1}
  Window = 1
  Retention = 0
  Capacity = 4
  ReplayLimit = 4
  DbMayFail = FALSE
  MayCancel = FALSE
  MaxEvents = 3
  MaxClock = 0
SPECIFICATION Spec
INVARIANT NoEventSkipped
