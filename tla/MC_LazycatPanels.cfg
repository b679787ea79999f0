\* Two machines on two pages, every kind of panel and of answer about the
\* traffic; one login, no handlers.
SPECIFICATION Spec
CONSTANTS
  k1 = k1
  r1 = r1
  Services = {1, 2}
  PageSize = 1
  SiteKinds = {"container", "nat", "none"}
  PanelConcurrency = 2
  Tasks = {k1}
  Callers = {}
  MaxLogins = 1
  MaxFaults = 1
  FirstMonth = 24286
  LastMonth = 24291
  Moments <- AroundMonthEnds
  ResetDays = {0, 11, 31}
  Resets <- ReportedResets
INVARIANTS
  NoForeignMappings
  CycleIsExact
  ShownIsOfTheCycle
PROPERTIES
  OnlyGoneMachinesDropped
