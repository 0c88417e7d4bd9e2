SPECIFICATION Spec
CONSTANTS
  Drives = {1, 2}
  Paths <- FileAndTmp
  Tmp <- TmpOfFile
  Contents = {c1, c2}
  Times = {1}
  None = None
  Deeds = {}
  Faults = {"die"}
  StartInSync = FALSE
  StartClocks = {0}
  DistinctTimes = FALSE
  Budget <- OneFault
INVARIANTS NoLeftoverSpreads
