CONSTANTS
  Profilers = {p1, p2}
  Callers = {t1, t2}
  Weights = {2, 3}
  FileNames = {"my.json"}
  NoName = NoName
  MaxSites = 1
  MaxEvents = 2
SYMMETRY Symmetry
SPECIFICATION Spec
INVARIANTS
  AdHocIsBounded
  UndisturbedIsWhole
  OnlyOwnFiles
