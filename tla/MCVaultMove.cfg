SPECIFICATION Spec
CONSTANTS
  Drives = {1, 2, 3}
  Paths <- Tree
  Tmp <- NoTmp
  Contents = {c1, c2}
  Times = {1}
  None = None
  Deeds = {"create", "move"}
  Faults = {"fail", "die"}
  StartInSync = TRUE
  StartClocks = {0}
  DistinctTimes = FALSE
  Budget <- DeedAndFault
SYMMETRY ContentSymmetry
INVARIANTS Converged SyncSettles LoneChangePrevails OrderRespectsDependencies ParentsComeFirst
PROPERTIES VectorsOnlyGrow
