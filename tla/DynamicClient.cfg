SPECIFICATION Spec
CONSTANTS
  Jobs = {j1, j2}
  Reads = {r1, r2}
  p = p
  q = q
  Profiles = {p, q}
  Batches <- SmallBatches
  MaxProfiles = 2
  NoJob = NoJob
INVARIANTS
  OpenCallsTimed SessionsMatchReports
PROPERTIES
  ReadsCurrent ImplementsRequests
\* Every call has been made and settled, and there is no worker left.
CHECK_DEADLOCK FALSE
