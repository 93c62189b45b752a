\* HandleSpace handles are given out: then, with all of them closed and no file
\* left, no call changes anything.
CHECK_DEADLOCK FALSE
SPECIFICATION Spec
SYMMETRY PathSymmetry
CONSTANTS
  MaxHandles = 2
  HandleSpace = 3
  Paths = {a, b, c}
  MaxFileBytes = 3
  MaxTotalBytes = 5
  MaxRequest = 3
  NoFile = NoFile
INVARIANTS
  NeverOvercounted ExactWithoutHoles
PROPERTIES
  ClosedForGood
