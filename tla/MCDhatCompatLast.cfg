CONSTANTS
  Profilers = {p1, p2}
  Callers = {t1}
  Weights = {2, 3}
  FileNames = {"my.json"}
  NoName = NoName
  MaxSites = 1
  MaxEvents = 0
SYMMETRY Symmetry
SPECIFICATION Spec
INVARIANTS
  LastWriterWins
