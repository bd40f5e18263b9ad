SPECIFICATION Spec
CONSTANTS
  a = a
  b = b
  other = other
  ra = ra
  rb = rb
  rx = rx
  la = la
  c1 = c1
  c2 = c2
  Configured = {a, b}
  Runners = {ra, rx}
  Lanes = {la}
  OrgOf <- OwnerOf
  Commands = {c1, c2}
  Gen <- Generations
  MaxGen = 2
  Scopes = {"host", a}
  KindsOf <- Jobs
  Flags <- FlagSets
  Starts <- Hosts
  MaxRuns = 2
  MaxFaults = 1
  MaxEvents = 1
INVARIANTS
  StopsOnlyLateJobs
  PassesDeliver
  KeysSurvive
PROPERTIES
  PassesKeepOff
CHECK_DEADLOCK FALSE
