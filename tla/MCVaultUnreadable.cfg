SPECIFICATION Spec
CONSTANTS
  Drives = {1, 2}
  Paths <- OneFile
  Tmp <- NoTmp
  Contents = {c1}
  Times = {1}
  None = None
  Deeds = {}
  Faults = {"unreadable"}
  StartInSync = TRUE
  StartClocks = {0}
  DistinctTimes = FALSE
  Budget <- OneFault
PROPERTIES TombstoneMeansDeleted
