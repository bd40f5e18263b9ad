SPECIFICATION Spec
CONSTANTS
  DocOrgs = {"A", "B"}
  Editors = {"cli", "tui"}
  TuiEditor = "tui"
  Pkgs = {"git"}
  Documents <- MCDocuments
  MaxSaves = 2
  MaxStrokes = 1
  KeyOrgs = {a, b}
  Sessions = {"cli", "tui"}
  TuiSession = "tui"
  PemOf <- MCPemOf
  Phrases = {x, y}
  a = a
  b = b
  x = x
  y = y
  MaxMoves = 2
SYMMETRY Alike
CONSTRAINT NothingOverwritten
INVARIANTS
  StoreMatchesFile
PROPERTIES
  DocumentIsKept
  KeysStayReachable
CHECK_DEADLOCK FALSE
