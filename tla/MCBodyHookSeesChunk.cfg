SPECIFICATION Spec
CONSTANTS
  Chains <- MCChains
  Upstreams = {u1}
  TlsUpstreams = {}
  Unresolved = {}
  Paths = {pc}
  BadPaths = {}
  RequestUri = pc
  Statuses = {200}
  BadStatuses = {}
  InterimStatuses = {}
  Bodies = {}
  None = None
  MaxTries = 3
  MaxChunks = 2
CHECK_DEADLOCK FALSE
INVARIANTS
  BodyHookSeesChunk
