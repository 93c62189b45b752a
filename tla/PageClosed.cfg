SPECIFICATION Spec
CONSTANTS
  Files = {f1, f2}
  HexReads = {r1}
  NoFile = NoFile
  Scans = {y1}
  Sources = {s1}
  NoRules = NoRules
  Runs = {d1}
  NoRun = NoRun
  MaxQueued = 2
INVARIANT ClosedDropsSample
\* A page may be left alone.
CHECK_DEADLOCK FALSE
