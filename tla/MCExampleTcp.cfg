SPECIFICATION ExampleSpec
CONSTANTS
  Conns = {c1, c2}
  Chains <- MCChains
  PluginChains <- MCPluginChains
  Upstreams = {u1}
  None = None
CHECK_DEADLOCK FALSE
INVARIANTS
  NoHookPanics
