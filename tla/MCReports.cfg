CONSTANTS
  Threads = {t1, t2, t3}
  Addresses = {12, 17}
  Names = {"outer", "inner"}
  DebugInfo <- Info
  Publics <- Pdb
  Platforms = {"unix", "windows", "other"}
  Process = Process
  Reports <- RawReports
  NoName = NoName
  MaxCalls = 5
  RvaWidth = 10
  PublicLists <- SomeLists
  Targets = {0, 1, 3, 5, 6, 9, 10, 16, 19}
  Frames <- SomeFrames
  JsonReports <- SomeReports
  NoFile = NoFile
  Root = Root
  Strings <- SomeStrings
SYMMETRY Symmetry
SPECIFICATION ReportsSpec
INVARIANTS
  RowsKeepTheirFrames
  UnresolvedHasCause
  SearchFindsCovering
  OneIndexPerProcess
  DocumentIsReport
  TableIsMinimal
  StringsReadBack
PROPERTIES
  EntriesAreKept
