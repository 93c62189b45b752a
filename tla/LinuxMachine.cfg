SPECIFICATION Spec
CONSTANTS
  MaxInstructions = 2
  MaxIo = 2
  Paths = {"std", "file"}
  Shipped <- MCShipped
  StdPaths <- MCStdPaths
  MaxFd = 4
  Offline = FALSE
  Layout <- MCLayout
  MmapBase = 2
  LastPage = 4
  MaxPages = 3
  MaxMapPages = 2
  HeapUnits = 2
  HeapReserved = 1
  StackWords = 1
  Targets = {"code", "stub", "entry_return"}
  NoFile = NoFile
  NoFd = NoFd
  NetHandles <- MCFds
  Urls = {}
  Redirects <- MCRedirects
  Bodies <- MCBodies
  MaxRedirects = 3
  Destinations = {"peer"}
  Responses <- MCResponses
  NotOpen = NotOpen
  Nowhere = Nowhere
INVARIANTS FilesBounded SocketsMatch MappingsApart
PROPERTIES DescriptorsFinal Advances
CHECK_DEADLOCK FALSE
