\* One country, one region; one refused statement or restart.
SPECIFICATION LiveSpec
CONSTANTS
  c1 = c1
  r1 = r1
  Roots = {c1}
  Regions = {r1}
  Parent <- MCParent
  SiteLists <- MCSiteLists
  Sellers = {r1}
  MaxFaults = 1
INVARIANTS
  TypeOK
PROPERTIES
  RetiresOnlyVanished
  AddedOnce
  OrphansRetired
  ServedIsStored
