SPECIFICATION Spec
CONSTANTS
  Limit = 11
  Page = 2
  MaxMemory = 7
  MaxRanges = 2
  ImageBase = 1
  ImageSize = 3
  Entry = 2
  HeapBase = 5
  Word = 1
  Sizes = {0, 1, 2, 3, 11}
  Addresses = {0, 1, 2, 3, 5, 7}
  Requested = {{"r", "x"}, {"r", "w"}}
INVARIANTS
  Disjoint Accounted RangesInside WritesCovered
