---------------------------- MODULE PeerSession -----------------------------
(***************************************************************************)
(* One peer task of src/bgp/mod.rs: peer_loop and run_session, against a   *)
(* remote BGP speaker.  Time is counted in seconds.  The local task and    *)
(* the remote act at once when they have something to do, so a second      *)
(* passes (Tick) only when both wait; a message spends at most MaxDelay    *)
(* seconds on the wire.                                                    *)
(*                                                                         *)
(* TCP delivers a stream, so a message may arrive in two pieces, a head    *)
(* and a tail; read_bgp_message loses the bytes it already consumed when   *)
(* the timeout around it fires.                                            *)
(*                                                                         *)
(* Writes have no timeout: write_all waits while the remote's side reads   *)
(* nothing and the buffers between the two are full.                       *)
(*                                                                         *)
(* The remote is external: it follows RFC 4271 (it adopts the smaller of   *)
(* the two hold times, and none if that is 0), except for what RemoteMay   *)
(* lets it do.                                                             *)
(***************************************************************************)
EXTENDS Naturals, Sequences, FiniteSets, PeerStates

CONSTANTS
  HoldTimeSecs,   \* hold_time_secs of the peer's configuration
  ConnectRetry,   \* connect_retry_secs
  NumPrefixes,    \* number of configured prefixes
  RemoteHolds,    \* hold times the remote may be configured with
  RemoteMay,      \* what the remote may do: a subset of Troubles
  Fragmented,     \* whether a message may arrive in two pieces
  MaxTroubles,    \* bound on the misbehaviours of the remote
  MaxDelay,       \* bound on the seconds a message spends on the wire
  MaxInFlight,    \* bound on the messages the remote has on the wire
  SendBuffer      \* messages the socket buffers hold for a remote that does
                  \* not read

\* FoclConfig::validate: 0 or at least 3.
ASSUME HoldAssumption == HoldTimeSecs \in Nat /\ HoldTimeSecs \notin {1, 2}
Troubles == {"refuse", "mute", "stall", "close", "notify", "update"}
ASSUME RemoteAssumption ==
  /\ RemoteHolds \subseteq Nat \ {1, 2} /\ RemoteHolds # {}
  /\ RemoteMay \subseteq Troubles
\* The two messages of the handshake, 19 and 29 bytes, fit in any buffer.
ASSUME SendAssumption == SendBuffer \in Nat /\ SendBuffer >= 2
ASSUME SessionBounds ==
  /\ {ConnectRetry, NumPrefixes, MaxTroubles, MaxDelay, MaxInFlight}
       \subseteq Nat
  /\ Fragmented \in BOOLEAN

VARIABLES
  state,          \* PeerInfo.state
  last_error,     \* PeerInfo.last_error, "none" when empty
  advertised,     \* PeerInfo.advertised_prefixes
  announced,      \* prefixes send_prefix_announcements has written so far
  pc,             \* where the task stands
  ka_left,        \* seconds to next_keepalive
  hold_left,      \* seconds to hold_deadline
  expired,        \* the timeout around the read has fired
  got,            \* bytes the pending read has consumed: none, head, garbage
  retry_left,     \* seconds of the reconnect sleep left
  toLocal,        \* pieces of messages on the wire, oldest first
  toRemote,       \* messages on the wire to the remote
  rhold,          \* the remote's configured hold time
  rstate,         \* the remote's side of the connection
  r_hold,         \* hold time the remote negotiated, 0 for none
  r_hold_left, r_ka_left,
  troubles,       \* misbehaviours so far
  remote_expired, \* history: the remote's hold timer fired
  cut             \* history: a timeout dropped a message that was half read

localVars  == <<state, last_error, advertised, announced, pc, ka_left,
                hold_left, expired, got, retry_left>>
remoteVars == <<rhold, rstate, r_hold, r_hold_left, r_ka_left, troubles,
                remote_expired, cut>>
vars == <<state, last_error, advertised, announced, pc, ka_left, hold_left,
          expired, got, retry_left, toLocal, toRemote, rhold, rstate, r_hold,
          r_hold_left, r_ka_left, troubles, remote_expired, cut>>

MaxOf(a, b) == IF a > b THEN a ELSE b
MinOf(a, b) == IF a < b THEN a ELSE b

\* let hold_time = peer.hold_time_secs.max(3); negotiated_hold is the same.
Hold == MaxOf(HoldTimeSecs, 3)
KeepaliveInterval == MaxOf(Hold \div 3, 1)

Errors == {"none", "connect", "closed", "framing", "unexpected",
           "notification", "hold timer expired"}
Messages == {"open", "keepalive", "update", "notification"}
Pieces == [msg : Messages, part : {"whole", "head", "tail"}, age : 0..MaxDelay]

TypeOK ==
  /\ state \in PeerState
  /\ last_error \in Errors
  /\ advertised \in {0, NumPrefixes} /\ announced \in 0..NumPrefixes
  /\ pc \in {"connect", "connecting", "await_open", "await_keepalive",
             "announce", "loop", "read", "sleep"}
  /\ ka_left \in 0..KeepaliveInterval
  /\ hold_left \in 0..Hold
  /\ expired \in BOOLEAN
  /\ got \in {"none", "head", "garbage"}
  /\ retry_left \in 0..ConnectRetry
  /\ \A i \in DOMAIN toLocal : toLocal[i] \in Pieces
  /\ \A i \in DOMAIN toRemote : toRemote[i] \in Pieces
  /\ rhold \in RemoteHolds
  /\ rstate \in {"listening", "open_sent", "open_confirm", "established",
                 "mute", "stalled", "closed"}
  /\ r_hold \in {0} \union RemoteHolds \union {Hold}
  /\ r_hold_left \in 0..r_hold /\ r_ka_left \in 0..r_hold
  /\ troubles \in 0..MaxTroubles
  /\ remote_expired \in BOOLEAN /\ cut \in BOOLEAN

Init ==
  /\ state = "Idle" /\ last_error = "none" /\ advertised = 0 /\ announced = 0
  /\ pc = "connect"
  /\ ka_left = 0 /\ hold_left = 0 /\ expired = FALSE /\ got = "none"
  /\ retry_left = 0
  /\ toLocal = <<>> /\ toRemote = <<>>
  /\ rhold \in RemoteHolds
  /\ rstate = "listening"
  /\ r_hold = 0 /\ r_hold_left = 0 /\ r_ka_left = 0
  /\ troubles = 0 /\ remote_expired = FALSE /\ cut = FALSE

Piece(m, part) == [msg |-> m, part |-> part, age |-> 0]
ToRemote(m) == toRemote' = Append(toRemote, Piece(m, "whole"))

\* Whether write_all completes: what a stalled remote leaves unread stays in
\* the buffers until they are full.
CanWrite == rstate = "stalled" => Len(toRemote) < SendBuffer

\* What the wire may carry after the remote wrote message m.
RemoteSends(m) ==
  \/ toLocal' = Append(toLocal, Piece(m, "whole"))
  \/ /\ Fragmented
     /\ toLocal' = toLocal \o <<Piece(m, "head"), Piece(m, "tail")>>

\* The remote does what RemoteMay lets it do.
Trouble(kind) ==
  /\ kind \in RemoteMay
  /\ troubles < MaxTroubles
  /\ troubles' = troubles + 1

-----------------------------------------------------------------------------
(* peer_loop.                                                              *)

\* set_peer_state(Connect), which keeps last_error, then the connection
\* attempt.
StartConnect ==
  /\ pc = "connect"
  /\ state' = "Connect"
  /\ pc' = "connecting"
  /\ UNCHANGED <<last_error, advertised, announced, ka_left, hold_left,
                 expired, got, retry_left, toLocal, toRemote, remoteVars>>

\* Seeded fault: the error is recorded and the state is left as it was.
FailQuietly(err) ==
  /\ last_error' = err
  /\ pc' = "sleep"
  /\ retry_left' = ConnectRetry
  /\ toLocal' = <<>> /\ toRemote' = <<>>
  /\ rstate' = "listening"
  /\ got' = "none" /\ expired' = FALSE /\ announced' = 0
  /\ UNCHANGED <<state, advertised, ka_left, hold_left, rhold, r_hold,
                 r_hold_left, r_ka_left, remote_expired, cut>>

\* run_session returned an error: the stream is dropped, the peer becomes
\* Active with the error, and the task sleeps.
Fail(err) ==
  /\ state' = "Active"
  /\ last_error' = err
  /\ pc' = "sleep"
  /\ retry_left' = ConnectRetry
  /\ toLocal' = <<>> /\ toRemote' = <<>>
  /\ rstate' = "listening"
  /\ got' = "none" /\ expired' = FALSE /\ announced' = 0
  /\ UNCHANGED <<advertised, ka_left, hold_left, rhold, r_hold, r_hold_left,
                 r_ka_left, remote_expired, cut>>

SessionFails(err) == Fail(err) /\ UNCHANGED troubles

ConnectFails ==
  /\ pc = "connecting"
  /\ Trouble("refuse")
  /\ Fail("connect")

\* The connection is there: the remote sends its OPEN, run_session sets
\* OpenSent and sends the local one.
SessionStarts ==
  /\ pc = "connecting" /\ rstate = "listening"
  /\ state' = "OpenSent"
  /\ pc' = "await_open"
  /\ ToRemote("open")
  /\ \/ rstate' = "open_sent" /\ RemoteSends("open") /\ UNCHANGED troubles
     \/ Trouble("mute") /\ rstate' = "mute" /\ UNCHANGED toLocal
  /\ UNCHANGED <<last_error, advertised, announced, ka_left, hold_left,
                 expired, got, retry_left, rhold, r_hold, r_hold_left,
                 r_ka_left, remote_expired, cut>>

\* Seeded fault: the sleep is not followed by another attempt.
WakeSleepsAgain ==
  /\ pc = "sleep" /\ retry_left = 0
  /\ retry_left' = ConnectRetry
  /\ UNCHANGED <<state, last_error, advertised, announced, pc, ka_left,
                 hold_left, expired, got, toLocal, toRemote, remoteVars>>

Wake ==
  /\ pc = "sleep" /\ retry_left = 0
  /\ pc' = "connect"
  /\ UNCHANGED <<state, last_error, advertised, announced, ka_left, hold_left,
                 expired, got, retry_left, toLocal, toRemote, remoteVars>>

-----------------------------------------------------------------------------
(* read_bgp_message.  The handshake reads have no timeout.                 *)

Reading == pc \in {"await_open", "await_keepalive", "read"}

\* The first part of a message arrives and the read waits for the rest.
ReadHead ==
  /\ Reading /\ toLocal # <<>> /\ Head(toLocal).part = "head" /\ got = "none"
  /\ got' = "head"
  /\ toLocal' = Tail(toLocal)
  /\ UNCHANGED <<state, last_error, advertised, announced, pc, ka_left,
                 hold_left, expired, retry_left, toRemote, remoteVars>>

\* The read starts in the middle of a message.
ReadGarbage ==
  /\ Reading /\ toLocal # <<>> /\ Head(toLocal).part = "tail" /\ got = "none"
  /\ got' = "garbage"
  /\ toLocal' = Tail(toLocal)
  /\ UNCHANGED <<state, last_error, advertised, announced, pc, ka_left,
                 hold_left, expired, retry_left, toRemote, remoteVars>>

\* Nineteen bytes that do not begin with the marker.
ReadMisframed ==
  /\ Reading /\ toLocal # <<>>
  /\ \/ got = "garbage"
     \/ got = "none" /\ Head(toLocal).part = "tail"
  /\ SessionFails("framing")

ReadEof ==
  /\ Reading /\ toLocal = <<>> /\ rstate = "closed"
  /\ SessionFails("closed")

\* A whole message m is read.
Reads(m) ==
  /\ toLocal # <<>> /\ Head(toLocal).msg = m
  /\ \/ got = "none" /\ Head(toLocal).part = "whole"
     \/ got = "head" /\ Head(toLocal).part = "tail"

-----------------------------------------------------------------------------
(* run_session.                                                            *)

\* Seeded fault: Established without waiting for the remote's KEEPALIVE.
ReceiveOpenEstablishes ==
  /\ pc = "await_open" /\ Reads("open")
  /\ state' = "Established"
  /\ pc' = "announce"
  /\ got' = "none"
  /\ toLocal' = Tail(toLocal)
  /\ ToRemote("keepalive")
  /\ UNCHANGED <<last_error, advertised, announced, ka_left, hold_left,
                 expired, retry_left, remoteVars>>

\* The OPEN's contents (AS number, hold time) are not looked at.
ReceiveOpen ==
  /\ pc = "await_open" /\ Reads("open")
  /\ pc' = "await_keepalive"
  /\ got' = "none"
  /\ toLocal' = Tail(toLocal)
  /\ ToRemote("keepalive")
  /\ UNCHANGED <<state, last_error, advertised, announced, ka_left, hold_left,
                 expired, retry_left, remoteVars>>

ReceiveKeepalive ==
  /\ pc = "await_keepalive" /\ Reads("keepalive")
  /\ state' = "Established"
  /\ last_error' = "none"
  /\ pc' = "announce"
  /\ got' = "none"
  /\ toLocal' = Tail(toLocal)
  /\ UNCHANGED <<advertised, announced, ka_left, hold_left, expired,
                 retry_left, toRemote, remoteVars>>

ReceiveUnexpected ==
  /\ \/ pc = "await_open" /\ \E m \in Messages \ {"open"} : Reads(m)
     \/ pc = "await_keepalive" /\ \E m \in Messages \ {"keepalive"} : Reads(m)
  /\ SessionFails("unexpected")

\* The loop of send_prefix_announcements: one awaited write for each prefix.
\* The peer is Established by now and there is no hold deadline yet.
SendAnnouncement ==
  /\ pc = "announce" /\ announced < NumPrefixes
  /\ CanWrite
  /\ ToRemote("update")
  /\ announced' = announced + 1
  /\ UNCHANGED <<state, last_error, advertised, pc, ka_left, hold_left,
                 expired, got, retry_left, toLocal, remoteVars>>

\* All announcements are written: the operator sees their number and the timers
\* start.
StartTimers ==
  /\ pc = "announce" /\ announced = NumPrefixes
  /\ advertised' = NumPrefixes
  /\ announced' = 0
  /\ ka_left' = KeepaliveInterval
  /\ hold_left' = Hold
  /\ pc' = "loop"
  /\ UNCHANGED <<state, last_error, expired, got, retry_left, toLocal,
                 toRemote, remoteVars>>

\* The top of the loop: a keepalive that is due is sent, then the read starts
\* with its one-second timeout.
CheckTimers ==
  /\ pc = "loop" /\ hold_left > 0
  /\ \/ /\ ka_left = 0
        /\ CanWrite
        /\ ToRemote("keepalive")
        /\ ka_left' = KeepaliveInterval
     \/ ka_left > 0 /\ UNCHANGED <<toRemote, ka_left>>
  /\ pc' = "read"
  /\ expired' = FALSE
  /\ UNCHANGED <<state, last_error, advertised, announced, hold_left, got,
                 retry_left, toLocal, remoteVars>>

\* No NOTIFICATION is sent: the connection just closes.  A keepalive due at the
\* same moment is written first, and the check waits for that write.
HoldTimerExpires ==
  /\ pc = "loop" /\ hold_left = 0
  /\ ka_left = 0 => CanWrite
  /\ SessionFails("hold timer expired")

\* The remote is gone and a write says so: the KEEPALIVE that answers its OPEN,
\* an announcement or the periodic keepalive.
WriteFails ==
  /\ rstate = "closed"
  /\ \/ pc = "await_open" /\ Reads("open")
     \/ pc = "announce" /\ announced < NumPrefixes
     \/ pc = "loop" /\ ka_left = 0
  /\ SessionFails("closed")

\* Seeded fault: a message does not push the hold deadline back.
ReceiveWithoutReset ==
  /\ pc = "read"
  /\ \E m \in {"keepalive", "update", "open"} : Reads(m)
  /\ pc' = "loop"
  /\ got' = "none"
  /\ toLocal' = Tail(toLocal)
  /\ UNCHANGED <<state, last_error, advertised, announced, ka_left, hold_left,
                 expired, retry_left, toRemote, remoteVars>>

\* Seeded fault: `hold_deadline += negotiated_hold`.
ReceiveAccumulates ==
  /\ pc = "read"
  /\ \E m \in {"keepalive", "update", "open"} : Reads(m)
  /\ hold_left' = hold_left + Hold
  /\ pc' = "loop"
  /\ got' = "none"
  /\ toLocal' = Tail(toLocal)
  /\ UNCHANGED <<state, last_error, advertised, announced, ka_left, expired,
                 retry_left, toRemote, remoteVars>>

ReceiveInLoop ==
  /\ pc = "read"
  /\ \E m \in {"keepalive", "update", "open"} : Reads(m)
  /\ hold_left' = Hold
  /\ pc' = "loop"
  /\ got' = "none"
  /\ toLocal' = Tail(toLocal)
  /\ UNCHANGED <<state, last_error, advertised, announced, ka_left, expired,
                 retry_left, toRemote, remoteVars>>

ReceiveNotification ==
  /\ pc = "read" /\ Reads("notification")
  /\ SessionFails("notification")

\* timeout() drops the read, and with it the bytes that the read consumed.
DropsRead ==
  /\ got' = "none"
  /\ cut' = (cut \/ got # "none")
  /\ UNCHANGED <<rhold, rstate, r_hold, r_hold_left, r_ka_left, troubles,
                 remote_expired>>

\* Seeded fault: a read that timed out counts as a sign of life.
ReadTimeoutResets ==
  /\ pc = "read" /\ expired
  /\ hold_left' = Hold
  /\ pc' = "loop"
  /\ DropsRead
  /\ UNCHANGED <<state, last_error, advertised, announced, ka_left, expired,
                 retry_left, toLocal, toRemote>>

ReadTimeout ==
  /\ pc = "read" /\ expired
  /\ pc' = "loop"
  /\ DropsRead
  /\ UNCHANGED <<state, last_error, advertised, announced, ka_left, hold_left,
                 expired, retry_left, toLocal, toRemote>>

-----------------------------------------------------------------------------
(* The remote speaker (external).                                          *)

RemoteKeepaliveInterval == MaxOf(r_hold \div 3, 1)

RemoteReceives ==
  /\ rstate \in {"open_sent", "open_confirm", "established"}
  /\ toRemote # <<>>
  /\ toRemote' = Tail(toRemote)
  /\ \/ /\ rstate = "open_sent" /\ Head(toRemote).msg = "open"
        /\ rstate' = "open_confirm"
        /\ RemoteSends("keepalive")
        /\ r_hold' = MinOf(Hold, rhold)
        /\ r_hold_left' = MinOf(Hold, rhold)
        /\ r_ka_left' = IF MinOf(Hold, rhold) = 0 THEN 0
                        ELSE MaxOf(MinOf(Hold, rhold) \div 3, 1)
     \/ /\ rstate \in {"open_confirm", "established"}
        /\ rstate' = "established"
        /\ r_hold_left' = r_hold
        /\ UNCHANGED <<toLocal, r_hold, r_ka_left>>
  /\ UNCHANGED <<localVars, rhold, troubles, remote_expired, cut>>

RemoteKeepalive ==
  /\ rstate \in {"open_confirm", "established"}
  /\ r_hold > 0 /\ r_ka_left = 0
  /\ RemoteSends("keepalive")
  /\ r_ka_left' = RemoteKeepaliveInterval
  /\ UNCHANGED <<localVars, toRemote, rhold, rstate, r_hold, r_hold_left,
                 troubles, remote_expired, cut>>

RemoteHoldExpires ==
  /\ rstate \in {"open_confirm", "established"}
  /\ r_hold > 0 /\ r_hold_left = 0
  /\ RemoteSends("notification")
  /\ rstate' = "closed"
  /\ remote_expired' = TRUE
  /\ toRemote' = <<>>
  /\ UNCHANGED <<localVars, rhold, r_hold, r_hold_left, r_ka_left, troubles,
                 cut>>

Connected == rstate \in {"open_sent", "open_confirm", "established"}

\* A mute remote reads on and says nothing, a stalled one does not read either.
RemoteMisbehaves ==
  /\ Connected
  /\ \/ Trouble("mute") /\ rstate' = "mute" /\ UNCHANGED toLocal
     \/ Trouble("stall") /\ rstate' = "stalled" /\ UNCHANGED toLocal
     \/ Trouble("close") /\ rstate' = "closed" /\ UNCHANGED toLocal
     \/ Trouble("notify") /\ rstate' = "closed" /\ RemoteSends("notification")
  /\ toRemote' = IF rstate' = "stalled" THEN toRemote ELSE <<>>
  /\ UNCHANGED <<localVars, rhold, r_hold, r_hold_left, r_ka_left,
                 remote_expired, cut>>

RemoteUpdate ==
  /\ rstate = "established" /\ "update" \in RemoteMay
  /\ Len(toLocal) < MaxInFlight
  /\ RemoteSends("update")
  /\ UNCHANGED <<localVars, toRemote, remoteVars>>

-----------------------------------------------------------------------------
(* Time.                                                                   *)

\* A write of run_session waits for a remote that does not read.
Blocked ==
  /\ ~ CanWrite
  /\ \/ pc = "announce" /\ announced < NumPrefixes
     \/ pc = "loop" /\ ka_left = 0

LocalWaits ==
  \/ Blocked
  \/ pc \in {"await_open", "await_keepalive"}
  \/ pc = "read" /\ ~ expired
  \/ pc = "sleep" /\ retry_left > 0

RemoteWaits ==
  Connected /\ r_hold > 0 /\ rstate # "open_sent" =>
    r_ka_left > 0 /\ r_hold_left > 0

Older(wire) == [i \in DOMAIN wire |-> [wire[i] EXCEPT !.age = @ + 1]]
Less(n) == IF n = 0 THEN 0 ELSE n - 1

\* Messages that wait in a full buffer, on either side, are not on the wire.
Tick ==
  /\ LocalWaits /\ RemoteWaits
  /\ Blocked \/ \A i \in DOMAIN toLocal : toLocal[i].age < MaxDelay
  /\ \/ rstate \in {"mute", "stalled"}
     \/ \A i \in DOMAIN toRemote : toRemote[i].age < MaxDelay
  /\ toLocal' = IF Blocked THEN toLocal ELSE Older(toLocal)
  /\ toRemote' = CASE rstate = "mute" -> <<>>
                   [] rstate = "stalled" -> toRemote
                   [] OTHER -> Older(toRemote)
  /\ IF pc = "read"
     THEN /\ ka_left' = Less(ka_left) /\ hold_left' = Less(hold_left)
          /\ expired' = TRUE
     ELSE UNCHANGED <<ka_left, hold_left, expired>>
  /\ retry_left' = Less(retry_left)
  /\ IF rstate \in {"open_confirm", "established"}
     THEN r_hold_left' = Less(r_hold_left) /\ r_ka_left' = Less(r_ka_left)
     ELSE UNCHANGED <<r_hold_left, r_ka_left>>
  /\ UNCHANGED <<state, last_error, advertised, announced, pc, got, rhold,
                 rstate, r_hold, troubles, remote_expired, cut>>

-----------------------------------------------------------------------------
Local ==
  \/ StartConnect \/ SessionStarts \/ Wake
  \/ ReadHead \/ ReadMisframed \/ ReadEof
  \/ ReceiveOpen \/ ReceiveKeepalive \/ ReceiveUnexpected
  \/ SendAnnouncement \/ StartTimers \/ CheckTimers \/ HoldTimerExpires
  \/ ReceiveInLoop \/ ReceiveNotification \/ ReadTimeout \/ WriteFails

Remote == RemoteReceives \/ RemoteKeepalive \/ RemoteHoldExpires

Next ==
  \/ Local \/ ConnectFails \/ ReadGarbage
  \/ Remote \/ RemoteMisbehaves \/ RemoteUpdate
  \/ Tick

Spec == Init /\ [][Next]_vars

\* The runtime polls a task that can proceed, the remote's stack and the wire
\* make progress, and time passes.  Nothing obliges the remote to misbehave,
\* to send updates or to refuse a connection.
Fairness == WF_vars(Local) /\ WF_vars(Remote) /\ WF_vars(Tick)
FairSpec == Spec /\ Fairness

-----------------------------------------------------------------------------
(* Properties.                                                             *)

\* A session with a remote that follows the protocol is not lost: neither
\* side's hold timer fires and no framing error ends it.
SessionSurvives ==
  /\ ~ remote_expired
  /\ last_error \notin {"hold timer expired", "framing", "notification",
                        "unexpected", "closed"}

\* The same for the sessions the code handles: the remote's hold time is not
\* the shorter one, it has not misbehaved, and no message came in two pieces
\* with the end of a read's timeout (bgp/mod.rs:288) between them.
GoodSessionSurvives ==
  rhold >= Hold /\ troubles = 0 /\ ~cut => SessionSurvives

\* The peer is Established for the operator only while a session is
\* established: the remote has received the local OPEN on this connection and
\* has not gone back to waiting for one.
EstablishedIsReal ==
  /\ state = "Established" => pc \in {"announce", "loop", "read"}
  /\ pc \in {"announce", "loop", "read"} =>
       rstate \in {"open_confirm", "established", "mute", "stalled", "closed"}

Fsm == INSTANCE PeerFsm
\* Whatever the wire and the remote do, what the task reports to the operator
\* is a behaviour of PeerFsm: states in order, and no way back to Active
\* without an error (set_peer_state and its callers).
ImplementsFsm == Fsm!Spec

\* A remote that falls silent in an established session is noticed: the hold
\* timer takes the peer out of Established.  There is one exception: if the
\* remote does not read either and the buffers are full when an announcement
\* or a keepalive is due (bgp/mod.rs:266 and 276), the task waits in a write
\* that no timer ends, and the peer stays Established.
DeadPeerNoticed ==
  (state = "Established" /\ rstate \in {"mute", "stalled"})
    ~> (state # "Established" \/ Blocked)

\* However sessions end, the task comes back: once the remote has stopped
\* misbehaving, the peer is Established again and again, even where the hold
\* times or the framing cut every session short.  The one exception is a remote
\* that accepts a connection and never answers on it: the handshake has no
\* timer, so the task waits in OpenSent for ever.  (That Established is not
\* itself a blocked write is DeadPeerNoticed's matter.)
ComesBack ==
  []<>(state = "Established"
       \/ (state = "OpenSent" /\ rstate \in {"mute", "stalled"}))
=============================================================================
