SPECIFICATION Spec
CONSTANTS
  MaxThreads = 3
  Quantum = 2
  MaxInstructions = 5
  MaxApiEvents = 2
  MaxExceptions = 2
  MaxSehDepth = 2
  MaxThreadEvents = 4
  TlsCallbacks = 1
  Handlers = {h1}
  Targets <- AllTargets
  Starts = {"code", "tls_return"}
  Fetchable = {"code", "tls_return"}
  NoPending = NoPending
INVARIANTS
  CurrentIsRunnable IsolatedTebs ThreadLogFaithful BudgetKept ExceptionLogBound OpenEventIsPending SearchBudget
PROPERTIES
  EndedForGood NoOvertaking EndsUnlessEntryLoops
\* The emulation ends: its last state has no successor.
CHECK_DEADLOCK FALSE
