SPECIFICATION Spec
CONSTANTS
  Drives = {1, 2}
  Paths <- FileOrDir
  Tmp <- NoTmp
  Contents = {c1, c2}
  Times = {1}
  None = None
  Deeds = {"delete", "create", "write"}
  Faults = {}
  StartInSync = TRUE
  StartClocks = {0}
  DistinctTimes = FALSE
  Budget <- TwoDeeds
INVARIANTS RemovalsMakeRoom
