SPECIFICATION Spec
CONSTANTS
  Versions = {"v1", "v2", "bad"}
  Healthy = {"v1", "v2"}
  First = "v1"
  Faults = {"crash"}
  MaxFaults = 1
INVARIANTS
  RecoverMakesWhole
