SPECIFICATION ErrSpec
CONSTANTS
  Chains <- MCChains
  Upstreams = {u1}
  TlsUpstreams = {}
  Unresolved = {}
  Paths = {pc}
  BadPaths = {}
  RequestUri = pc
  Statuses = {200}
  BadStatuses = {}
  InterimStatuses = {}
  Bodies = {}
  None = None
  MaxTries = 1
  MaxChunks = 0
CHECK_DEADLOCK FALSE
PROPERTIES
  ErrFailsChain
