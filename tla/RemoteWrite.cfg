SPECIFICATION Spec
CONSTANTS
  MaxHandles = 2
  HandleSpace = 2
  NetHandles <- MCNetHandles
  Urls = {"first", "second", "third"}
  Redirects <- MCRedirects
  Bodies <- MCBodies
  MaxRedirects = 1
  Destinations = {"long", "short"}
  Responses <- MCResponses
  NotOpen = NotOpen
  Nowhere = Nowhere
  Keys = {"run"}
  Processes = 1
  MaxFound = 1
  MaxHashed = 1
  TopAddress = 7
  RemoteAddresses = {2, 3, 6}
  RemoteSizes = {2, 4}
  MaxRemoteRegion = 4
  MaxTotalRemote = 6
  Offline = FALSE
INVARIANT WritesNeverAbort
CHECK_DEADLOCK FALSE
