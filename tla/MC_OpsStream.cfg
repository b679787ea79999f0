\* Two publishers, a window of one tick, a channel and a replay of two events.
CONSTANTS
  p1 = p1
  p2 = p2
  Publishers = {p1, p2}
  Window = 1
  Retention = 1
  Capacity = 2
  ReplayLimit = 1
  DbMayFail = TRUE
  MayCancel = TRUE
  MaxEvents = 3
  MaxClock = 2
SPECIFICATION Spec
SYMMETRY Symmetry
INVARIANTS
  TypeOK
  OneRepeatAtMost
  EveryLossExplained
PROPERTY
  StoredEventsInOrder
