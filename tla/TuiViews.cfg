SPECIFICATION Spec
CONSTANTS
  a1 = a1
  b1 = b1
  s1 = s1
  s2 = s2
  Order <- MCOrder
  OrgOf <- MCOrgOf
  SlotRows = {}
  ViewTabs = {"persistent", "drift", "groups", "settings"}
  Queries = {{a1}}
  HostCapable = TRUE
  MaxEvents = 1
  MaxReads = 2
  MaxTicks = 1
  Subjects = {s1, s2}
  Groups = {"g1", "g2"}
  Repos = {"repo"}
  MaxLines = 1
  MaxCalls = 2
  MaxBad = 1
INVARIANTS
  ViewsSound
PROPERTIES
  ActsOnWhatWasSeen
  ViewsFollow
CHECK_DEADLOCK FALSE
