--------------------------- MODULE MCPeerSession ----------------------------
(* Small instances of PeerSession for TLC. *)
EXTENDS PeerSession

AnyTrouble == Troubles
=============================================================================
