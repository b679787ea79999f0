\* One page, two jobs of one target or none, a channel of two.
SPECIFICATION Spec
CONSTANTS
  p1 = p1
  u1 = u1
  Pages = {p1}
  Users = {u1}
  UserOf <- MCUserOf
  MaxJobs = 2
  MaxTargets = 1
  Cap = 2
  MaxDrops = 1
CHECK_DEADLOCK FALSE
INVARIANTS
  TypeOK
  StatusIsTheJobs
  ShownIsCurrent
PROPERTIES
  EndIsShown
