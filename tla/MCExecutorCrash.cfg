SPECIFICATION Spec
CONSTANTS
  Drives = {d1, d2}
  Paths = {p, q}
  Contents = {c1}
  Mounts = {m1}
  None = None
  Torn = Torn
  OpTypes = {"MKDIR", "COPY", "REMOVE", "RENAME", "RESTORE"}
  RecoverOnStart = FALSE
  Budget <- CrashBudget
SYMMETRY Symmetry
INVARIANTS TypeOK NeverTorn TmpIsLogged MismatchIsLogged
PROPERTIES SuccessIsDelivered ImplementsStore
