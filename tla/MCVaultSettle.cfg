SPECIFICATION FairSpec
CONSTANTS
  Drives = {1, 2}
  Paths <- OneFile
  Tmp <- NoTmp
  Contents = {c1, c2}
  Times = {1, 2}
  None = None
  Deeds = {"create", "write", "delete", "resolve"}
  Faults = {"unreadable", "fail", "die", "corrupt"}
  StartInSync = FALSE
  StartClocks = {0, 1}
  DistinctTimes = TRUE
  Budget <- DeedsAndFault
INVARIANTS LoneDeletionPrevails
PROPERTIES VectorsOnlyGrow Settles
