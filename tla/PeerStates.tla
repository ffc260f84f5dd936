----------------------------- MODULE PeerStates -----------------------------
(***************************************************************************)
(* PeerState (src/types.rs) and the order in which peer_loop and           *)
(* run_session (src/bgp/mod.rs) report states.                             *)
(***************************************************************************)

\* The code has no use for OpenConfirm.
PeerState == {"Idle", "Connect", "Active", "OpenSent", "OpenConfirm",
              "Established"}

\* A task is Idle until its first attempt, and every attempt, however far it
\* came, ends in Active and is followed by the next.
Follows == [Idle        |-> {"Connect"},
            Connect     |-> {"OpenSent", "Active"},
            OpenSent    |-> {"Established", "Active"},
            OpenConfirm |-> {},
            Established |-> {"Active"},
            Active      |-> {"Connect"}]
=============================================================================
