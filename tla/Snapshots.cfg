SPECIFICATION Spec
CONSTANTS
  Absent = Absent  Torn = Torn  NoManifest = NoManifest
  Procs = {p, q}
  Files = {1, 2}
  Labels = {none}
  Selections <- AllOrOne
  Scopes <- OneOfThem
  MaxOps = 1
  MaxClock = 1
  MaxTakes = 2
CHECK_DEADLOCK FALSE
SYMMETRY Processes
INVARIANTS TypeOK TakenIsWhole
PROPERTIES RestoreBringsBack UndoStaysInScope
