CONSTANTS
  h1 = h1
  h2 = h2
  a1 = a1
  NoId = NoId
  Handlers <- MCHandlers
  Addrs <- MCAddrs
  MaxMsIds = 2
  MaxServerIds = 1
  MaxCalls = 4

SPECIFICATION Spec

INVARIANT RegistOkHasId
