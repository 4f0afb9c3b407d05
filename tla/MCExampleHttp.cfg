SPECIFICATION ExampleSpec
CONSTANTS
  pc = pc
  Dev = dev
  Org = org
  Echo = echo
  Chains <- MCChains
  Upstreams = {dev, org, echo}
  TlsUpstreams = {}
  Unresolved = {org}
  Paths <- MCPaths
  BadPaths = {}
  RequestUri = pc
  Statuses = {200}
  BadStatuses = {}
  InterimStatuses = {}
  Bodies = {}
  None = None
  MaxTries = 2
  MaxChunks = 1
  MaxCount = 5
CHECK_DEADLOCK FALSE
INVARIANTS
  LocalReplyKept
  ForwardedByNumber
  NumbersUnique
  AlwaysRouted
PROPERTIES
  ImplementsHttpFlow
