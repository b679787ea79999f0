\* Two targets, three configs, two users.
SPECIFICATION Spec
CONSTANTS
  c1 = c1
  c2 = c2
  c3 = c3
  t1 = t1
  t2 = t2
  Configs = {c1, c2, c3}
  Targets = {t1, t2}
  Users = {u1, u2}
  TargetOf <- TwoAndOne
INVARIANTS
  TypeOK
  CacheMatchesRows
  AnnouncedOnce
  InStockIsAnnounced
  ArchivedAreDelisted
