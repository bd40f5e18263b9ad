SPECIFICATION Spec
CONSTANTS
  b1 = b1
  b2 = b2
  p1 = p1
  p2 = p2
  Homes = {"A", "B"}
  Boxes = {b1, b2}
  HomeOf <- MCHomeOf
  Srms = {p1, p2}
  MaxSwitches = 2
  MaxCommands = 3
  MaxMishaps = 1
  Users = {"A", "B", "host"}
  Services = {"A", "B"}
  Procs = {p1, p2}
  Width = 2
  Books <- MCBooks
  MaxEnsures = 3
  MaxKills = 1
  Fetchers = {p1, p2}
  Artefacts = {"tarball", "unchecked", "seed", "zip", "python", "image"}
  MaxFetches = 4
  MaxTrouble = 2
  MaxCycles = 3
  MaxToggles = 1
  MaxHarms = 2
  MaxPrunes = 1
  Orgs = {"A", "B"}
  Packages = {"git", "uidmap", "docker-ce"}
  Manifests <- MCManifests
  MaxPasses = 2
  MaxEdits = 1
  Callers = {p1, p2}
  MaxSlot = 4
  Params = {"default", "gpu"}
  Unset = Unset
  DefaultParam = "default"
  MaxOrders = 3
  MaxBreaks = 1
INVARIANTS
  LayoutServes
  RangesDisjoint
  GrantedIsKept
  CachesAreWhole
  EachJobAnew
  LogsAgree
  LanesAreKept
  ProvisionAgrees
CHECK_DEADLOCK FALSE
