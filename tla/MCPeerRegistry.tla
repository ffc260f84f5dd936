--------------------------- MODULE MCPeerRegistry ---------------------------
(* Two peers with one remote_port; resets of the first one.                 *)
EXTENDS PeerRegistry

CONSTANTS p1, p2, ip1, ip2, bgpPort

MCConfigured == <<p1, p2>>
MCTarget == [r \in Resets |-> p1]

Setup(ps, a1, a2) ==
  [passive |-> ps, remote_port |-> [p \in {p1, p2} |-> bgpPort],
   local_address |-> [p \in {p1, p2} |-> IF p = p1 THEN a1 ELSE a2]]

\* An address without a port, which a passive peer completes, and with one.
Ip(i) == [ip |-> i, port |-> NoPort]
Socket(i) == [ip |-> i, port |-> bgpPort]

\* A passive peer on the wildcard beside an active one without a port and one
\* that binds the port, and two passive ones: on addresses of their own, and
\* on one the other's wildcard covers.
Both == {p1, p2}
MCSetups ==
  {Setup({p1}, NoAddress, Ip(ip2)), Setup({p1}, NoAddress, Socket(ip2)),
   Setup(Both, Ip(ip1), Socket(ip2)), Setup(Both, Ip(ip1), NoAddress)}

\* Two passive peers on the wildcard.
Shared == {Setup(Both, NoAddress, NoAddress)}
=============================================================================
