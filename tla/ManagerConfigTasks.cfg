SPECIFICATION Spec
CONSTANTS
  t1 = t1
  t2 = t2
  NoTask = NoTask
  NoClient = NoClient
  Tasks = {t1, t2}
  Kinds = {"preview", "apply", "destroy", "settings", "onboard", "restore"}
  MaxEdits = 2
  MaxFaults = 1
SYMMETRY Symmetry
INVARIANTS
  FlagScoped
  ClientsCurrent
  SomebodyMoves
