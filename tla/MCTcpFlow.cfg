SPECIFICATION Spec
CONSTANTS
  Conns = {c1, c2}
  Chains <- MCChains
  Upstreams = {u1}
  None = None
CHECK_DEADLOCK FALSE
INVARIANTS
  TcpRouteHonoured
