SPECIFICATION Spec
CONSTANTS
  Drives = {d1, d2, d3}
  MaxClock = 2
SYMMETRY DriveSymmetry
INVARIANTS CompareIsCausality
PROPERTIES VectorsGrow
