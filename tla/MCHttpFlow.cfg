SPECIFICATION FairSpec
CONSTANTS
  Chains <- MCChains
  Upstreams = {u1, u2}
  TlsUpstreams = {u2}
  Unresolved = {}
  Paths = {pc}
  BadPaths = {}
  RequestUri = pc
  Statuses = {0, 103, 200}
  BadStatuses = {0}
  InterimStatuses = {103}
  Bodies <- MCBodies
  None = None
  MaxTries = 2
  MaxChunks = 2
CHECK_DEADLOCK FALSE
INVARIANTS
  TypeOK
  HostUnwrapSafe
  ForwardedAsSelected
  ResponseStopsChain
  AnsweredBeforeRouting
  EndedAnswered
  LocalAnswerWins
  BodySeenInOrder
PROPERTIES
  RejectionFinal
  NearerReply
  EventuallyReplied
