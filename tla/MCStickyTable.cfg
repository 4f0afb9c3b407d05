SPECIFICATION Spec
CONSTANTS
  a = a
  a_blank = a_blank
  b = b
  blank = blank
  u1 = u1
  u2 = u2
  ip1 = ip1
  ip2 = ip2
  Modules = {tcp, udp}
  Threads = {t1, t2}
  Files <- MCFiles
  Raw = {a, a_blank, b, blank, u1, u2}
  Trim <- MCTrim
  Empty = Empty
  Listeners = {a, b}
  Ips = {ip1, ip2}
  Hash <- MCHash
  MaxTime = 3
  MaxInstant = 8
  None = None
SYMMETRY MCSymmetry
CHECK_DEADLOCK FALSE
INVARIANTS
  TypeOK
  StickyAnswers
  ModulesAgree
  PoolsKept
PROPERTIES
  KeptWhileFresh
