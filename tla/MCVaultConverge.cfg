SPECIFICATION Spec
CONSTANTS
  Drives = {1, 2, 3}
  Paths <- OneFile
  Tmp <- NoTmp
  Contents = {c1, c2}
  Times = {1, 2}
  None = None
  Deeds = {"create", "write", "delete"}
  Faults = {"unreadable", "fail", "die", "corrupt"}
  StartInSync = FALSE
  StartClocks = {0, 1}
  DistinctTimes = FALSE
  Budget <- OneFault
SYMMETRY ContentSymmetry
INVARIANTS TypeOK Converged SyncSettles
