------------------------------ MODULE PeerFsm -------------------------------
(***************************************************************************)
(* What an operator is promised to see of a peer: its state moves along    *)
(* Follows, it never falls back to Active without saying why, and the      *)
(* error stays until a session is established again.  PeerSession          *)
(* implements this, and PeerRegistry takes tasks that do as given.         *)
(***************************************************************************)
EXTENDS PeerStates

CONSTANT Errors         \* values of last_error; "none" stands for None

VARIABLES state, last_error

Init == state = "Idle" /\ last_error = "none"

\* set_peer_state(s, error).
Report(s) ==
  /\ s \in Follows[state]
  /\ state' = s
  /\ last_error' \in CASE s = "Established" -> {"none"}
                       [] s = "Active"      -> Errors \ {"none"}
                       [] OTHER             -> {last_error}

Next == \E s \in PeerState : Report(s)

Spec == Init /\ [][Next]_<<state, last_error>>
=============================================================================
