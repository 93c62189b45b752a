SPECIFICATION LineageSpec
CONSTANTS
  Bases = {1, 2}
  Image = 1
  HeapBase = 2
  Cells = {1}
  Entry = 1
  Contents = {"blank", "code", "data"}
  Blank = "blank"
  Size <- MCSize
  Interesting = {"code"}
  Imports = {"api"}
  MaxArtifacts = 2
  MaxArtifactBytes = 3
  MaxGenerations = 3
  MaxImports = 1
  MaxExtras = 2
  Unmapped = Unmapped
INVARIANTS LineageComplete ChainsLinked ArtifactsAccounted
CHECK_DEADLOCK FALSE
