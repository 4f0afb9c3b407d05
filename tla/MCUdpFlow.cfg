SPECIFICATION Spec
CONSTANTS
  Peers = {p1, p2}
  Chains <- MCChains
  Upstreams = {u1}
  None = None
  MaxDatagrams = 2
CHECK_DEADLOCK FALSE
INVARIANTS
  UdpRouteHonoured
