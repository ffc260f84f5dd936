CONSTANTS
  p1 = p1
  p2 = p2
  ip1 = ip1
  ip2 = ip2
  bgpPort = bgpPort
  Configured <- MCConfigured
  NoPeer = none
  Hosts = {p1, p2, stranger}
  Ips = {any, ip1, ip2}
  AnyIp = any
  Ports = {bgpPort}
  NoPort = noport
  NoAddress = noaddress
  Setups <- Shared
  Resets = {r1}
  Target <- MCTarget
SPECIFICATION Spec
INVARIANTS
  SessionIsOwn
