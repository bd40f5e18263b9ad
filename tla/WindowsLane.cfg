SPECIFICATION Spec
CONSTANTS
  i1 = i1
  i2 = i2
  i3 = i3
  NoId = NoId
  Ids = {i1, i2}
  MaxFaults = 2
  Capped = {FALSE, TRUE}
  Faults = {"slow", "kill", "extract", "config", "api", "record", "assign", "crash", "boot"}
SYMMETRY Symmetry
INVARIANTS
  TreeSound
  CommandsDeliver
PROPERTIES
  OneCleanJob
CHECK_DEADLOCK FALSE
