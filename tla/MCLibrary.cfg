SPECIFICATION LibrarySpec
CONSTANTS
  MinChunk = 2
  MaxChunk = 4
  AvgChunk = 3
  LargeFile = 4
  Fingerprint <- CyclicCheck
  Bytes = {0, 1}
  MaxFile = 11
  RotationSize = 2
  Seconds = {1, 2, 3}
  MaxMessages = 6
  TreePaths <- TwoLevels
  Text = Text
  TreeContents <- TextsAndLists
  NoFile = NoFile
  Disks = {d1, d2, d3}
  Names = {1, 2, 3}
  IdOf <- DashesDropped
  Absent = Absent
  MaxRetries = 3
  InitialDelay = 1
  MaxHeld = 9
INVARIANTS ChunksCoverFile CutsForgetThePast AppendsTransferTheTail LogIsComplete DiffMissesMovesOnly NobodyLeftOut GivesUpLate WaitsInProportion
CHECK_DEADLOCK FALSE
