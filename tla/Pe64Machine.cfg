SPECIFICATION Spec
CONSTANTS
  MaxThreads = 3
  Quantum = 2
  MaxInstructions = 4
  MaxApiEvents = 3
  MaxExceptions = 2
  MaxDepth = 2
  TlsCallbacks = 1
  Handlers = {"h1"}
  Targets <- AllLocations
  Starts = {"code", "tls_return"}
  Fetchable = {"code", "tls_return"}
  NoPending = NoPending
INVARIANTS HandlerKeepsCpu
PROPERTIES ImplementsRoundRobin EndsUnlessItLoops
\* The emulation ends: its last state has no successor.
CHECK_DEADLOCK FALSE
