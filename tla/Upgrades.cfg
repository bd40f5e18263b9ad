SPECIFICATION UpgradesSpec
CONSTANTS
  Versions = {"v1", "v2", "bad"}
  Healthy = {"v1", "v2"}
  First = "v1"
  Faults = {"fetch", "extract", "selftest"}
  MaxFaults = 2
  c1 = c1
  n1 = n1
  n2 = n2
  o1 = o1
  o2 = o2
  o3 = o3
  x1 = x1
  NoId = NoId
  Names = {n1, n2}
  OwnIds = {o1, o2, o3}
  OtherIds = {x1}
  MaxVersion = 2
  Commands = {c1}
  Kinds = {"create", "destroy", "upgrade", "rollback"}
  CommandFaults = {"api", "install", "swap", "save", "crash"}
  MaxCommandFaults = 1
SYMMETRY Symmetry
INVARIANTS
  LeavesHealthyAgent
  RunsWholeAgent
  ManifestSound
  RecordedIdsAreOwn
PROPERTIES
  AtomicSwap
  GatesHold
