SPECIFICATION Spec
CONSTANTS
  p1 = p1
  p2 = p2
  Procs <- MCProcs
  NoProc = NoProc
  Managers <- MCManagers
  Releases <- MCReleases
  AlteredFrom = 2
  MaxCrashes = 1
  MaxEdges = 1
INVARIANTS
  HistoryIsSchema
  OneLineage
  LosersOnlyValidate
  RowsFitEveryLaterSchema
  OldReleasesKeepWriting
