SPECIFICATION Spec
CONSTANTS
  h1 = h1
  t1 = t1
  t2 = t2
  d1 = d1
  Configs <- MCConfigs
  Slots = 2
  Priorities = {0, 1}
  Workers = {h1, t1, d1}
  Serves <- MCServes
CHECK_DEADLOCK FALSE
INVARIANTS
  ShutdownBeforeUnload
