\* One machine, with a container; two logins, one handler, one fault.
SPECIFICATION LiveSpec
CONSTANTS
  k1 = k1
  k2 = k2
  r1 = r1
  Services = {1}
  PageSize = 1
  SiteKinds = {"container"}
  PanelConcurrency = 1
  Tasks = {k1, k2}
  Callers = {r1}
  MaxLogins = 2
  MaxFaults = 1
INVARIANTS
  TypeOK
  OneTaskAtATime
  OwnDataOnly
PROPERTIES
  GoneUntilLogin
  
