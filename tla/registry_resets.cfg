CONSTANTS
  p1 = p1
  p2 = p2
  ip1 = ip1
  ip2 = ip2
  bgpPort = bgpPort
  Configured <- MCConfigured
  NoPeer = none
  Hosts = {p1}
  Ips = {any, ip1, ip2}
  AnyIp = any
  Ports = {bgpPort}
  NoPort = noport
  NoAddress = noaddress
  Setups <- MCSetups
  Resets = {r1, r2}
  Target <- MCTarget
SPECIFICATION FairSpec
INVARIANTS
  TypeOK
  OneTask
  ShownIsCurrent
PROPERTIES
  PeerReturns
  ListensAgain
