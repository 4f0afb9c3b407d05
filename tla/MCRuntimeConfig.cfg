SPECIFICATION Spec
CONSTANTS
  addr1 = addr1
  addr2 = addr2
  noaddr = noaddr
  tcp = tcp
  udp = udp
  p1 = p1
  p2 = p2
  Environments <- MCEnvironments
  ConfigFiles <- MCConfigFiles
  EnvFiles <- MCEnvFiles
  Addresses = {addr1, addr2}
  Blank = Blank
  None = None
  Unset = Unset
CHECK_DEADLOCK FALSE
INVARIANTS
  AcceptsGoodFiles
  FileWins
