SPECIFICATION Spec
CONSTANTS
  Drives = {d1, d2}
  Paths = {p, q}
  Contents = {c1, c2}
  Mounts = {m1}
  None = None
  Torn = Torn
  OpTypes = {"COPY", "REMOVE", "RENAME", "MKDIR"}
  RecoverOnStart = FALSE
  Budget <- FaultBudget
SYMMETRY Symmetry
INVARIANTS NeverTorn TmpIsLogged
PROPERTIES SuccessIsDelivered
