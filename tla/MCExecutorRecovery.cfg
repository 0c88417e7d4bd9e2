SPECIFICATION FairSpec
CONSTANTS
  Drives = {d1, d2}
  Paths = {p}
  Contents = {c1, c2}
  Mounts = {m1}
  None = None
  Torn = Torn
  OpTypes = {"COPY", "REMOVE"}
  RecoverOnStart = TRUE
  Budget <- RecoveryBudget
INVARIANTS NeverTorn TmpIsLogged
PROPERTIES ContentIsVouchedFor LogDrains ImplementsStore
