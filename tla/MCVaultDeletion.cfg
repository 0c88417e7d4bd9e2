SPECIFICATION Spec
CONSTANTS
  Drives = {1, 2, 3}
  Paths <- OneFile
  Tmp <- NoTmp
  Contents = {c1, c2}
  Times = {1}
  None = None
  Deeds = {"delete"}
  Faults = {}
  StartInSync = FALSE
  StartClocks = {0, 1}
  DistinctTimes = FALSE
  Budget <- OneDeed
INVARIANTS LoneDeletionPrevails
