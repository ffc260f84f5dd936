------------------------- MODULE PeerSessionProofs --------------------------
(***************************************************************************)
(* Proofs about PeerSession, for every hold time, number of prefixes,      *)
(* remote and wire.  SessionInv holds whatever the remote does.  GoodInv   *)
(* is about an undisturbed session on a wire whose delay the hold time     *)
(* allows for (DelayAllowed): it says what is on the wire in each phase of *)
(* the handshake, that its pieces fit together, and that each hold timer   *)
(* outlasts the message that will push it back.                            *)
(***************************************************************************)
EXTENDS PeerSession, TLAPS

HandshakePc == {"await_open", "await_keepalive"}
EstablishedPc == {"announce", "loop", "read"}

\* TypeOK in parts, with the wires as sequences.
TaskTypes ==
  /\ state \in PeerState /\ last_error \in Errors
  /\ advertised \in {0, NumPrefixes}
  /\ pc \in {"connect", "connecting", "await_open", "await_keepalive",
             "announce", "loop", "read", "sleep"}
  /\ got \in {"none", "head", "garbage"}
  /\ expired \in BOOLEAN

TimerTypes ==
  /\ ka_left \in 0..KeepaliveInterval /\ hold_left \in 0..Hold
  /\ retry_left \in 0..ConnectRetry /\ announced \in 0..NumPrefixes

RemoteTypes ==
  /\ rhold \in RemoteHolds
  /\ rstate \in {"listening", "open_sent", "open_confirm", "established",
                 "mute", "stalled", "closed"}
  /\ remote_expired \in BOOLEAN /\ cut \in BOOLEAN

RemoteTimerTypes ==
  /\ r_hold \in {0} \union RemoteHolds \union {Hold}
  /\ r_hold_left \in 0..r_hold /\ r_ka_left \in 0..r_hold

SessionTypes ==
  /\ TaskTypes /\ TimerTypes /\ RemoteTypes /\ RemoteTimerTypes
  /\ toLocal \in Seq(Pieces) /\ toRemote \in Seq(Pieces)
  /\ troubles \in 0..MaxTroubles

\* What the operator is shown, seen from where the task stands.
StateFollowsTask ==
  /\ pc = "connect" => state \in {"Idle", "Active"}
  /\ pc = "connecting" => state = "Connect"
  /\ pc \in HandshakePc => state = "OpenSent"
  /\ pc \in EstablishedPc => state = "Established"
  /\ pc = "sleep" => state = "Active"
  /\ pc # "announce" => announced = 0

\* The remote listens, on a connection that carries nothing, exactly while the
\* task has no session, and before it has the local OPEN it has sent its own
\* and nothing else.
RemoteFollowsTask ==
  /\ rstate = "listening" <=> pc \in {"connect", "connecting", "sleep"}
  /\ rstate = "listening" => toLocal = <<>> /\ toRemote = <<>> /\ got = "none"
  /\ rstate = "open_sent" =>
       /\ pc \in HandshakePc
       /\ \A i \in DOMAIN toLocal : toLocal[i].msg = "open"

SessionInv == SessionTypes /\ StateFollowsTask /\ RemoteFollowsTask

-----------------------------------------------------------------------------
(* An undisturbed session.                                                 *)

\* The delays that the hold time leaves room for: a keepalive sent when it is
\* due arrives in time, and so does what follows the handshake, where a peer
\* with no prefixes to announce sends nothing for a whole keepalive interval
\* after the remote's first KEEPALIVE.
DelayAllowed ==
  /\ Hold > KeepaliveInterval + MaxDelay
  /\ Hold > 2 * MaxDelay
  /\ NumPrefixes = 0 => Hold > KeepaliveInterval + 2 * MaxDelay

Undisturbed == rhold >= Hold /\ troubles = 0 /\ ~ cut

\* The remote has the local OPEN.
Confirmed == rstate \in {"open_confirm", "established"}

\* Every head is followed by its tail, and a message whose head was read is
\* the one whose tail comes next.
Framed(wire, g) ==
  /\ g \in {"none", "head"}
  /\ g = "head" => wire # <<>> /\ wire[1].part = "tail"
  /\ \A i \in DOMAIN wire :
       /\ wire[i].part = "head" =>
            /\ i + 1 \in DOMAIN wire /\ wire[i + 1].part = "tail"
            /\ wire[i + 1].msg = wire[i].msg /\ wire[i + 1].age = wire[i].age
       /\ wire[i].part = "tail" =>
            IF i = 1 THEN g = "head" ELSE wire[i - 1].part = "head"

\* Where the message that comes first ends.
FirstEnds(wire) == IF wire[1].part = "head" THEN 2 ELSE 1

\* The wire brings the OPEN first and once, and after it a KEEPALIVE.
OpenFirst(wire) ==
  /\ wire # <<>>
  /\ \A i \in DOMAIN wire :
       IF i <= FirstEnds(wire) THEN wire[i].msg = "open"
       ELSE wire[i].msg \in {"keepalive", "update"}

KeepaliveNext(wire) ==
  /\ FirstEnds(wire) + 1 \in DOMAIN wire
  /\ wire[FirstEnds(wire) + 1].msg = "keepalive"

\* The remote's OPEN comes first, then a KEEPALIVE if it has the local OPEN,
\* then whatever an established session carries.
InOrder ==
  /\ pc = "await_open" =>
       OpenFirst(toLocal) /\ (Confirmed => KeepaliveNext(toLocal))
  /\ pc # "await_open" =>
       \A i \in DOMAIN toLocal : toLocal[i].msg \in {"keepalive", "update"}
  /\ pc = "await_keepalive" /\ Confirmed =>
       toLocal # <<>> /\ toLocal[1].msg = "keepalive"

\* The remote counts with the local hold time.
RemoteTimers ==
  Confirmed => r_hold = Hold /\ r_ka_left <= KeepaliveInterval

\* The local hold timer outlasts the arrival of what the remote has sent, or,
\* if there is nothing, of the keepalive it will send.
LocalOutlasts ==
  pc \in {"loop", "read"} =>
    /\ toLocal # <<>> => hold_left + toLocal[1].age > MaxDelay
    /\ toLocal = <<>> => hold_left > r_ka_left + MaxDelay

\* How long the task may be silent once it has the remote's KEEPALIVE.
Silence == IF NumPrefixes = 0 THEN KeepaliveInterval ELSE 0

\* The same once some of the announcements are written.
Quiet == IF announced = NumPrefixes THEN KeepaliveInterval ELSE 0

\* The same for the remote's hold timer, which starts with the handshake.
RemoteOutlasts ==
  Confirmed =>
    /\ toRemote # <<>> => r_hold_left + toRemote[1].age > MaxDelay
    /\ toRemote = <<>> =>
         /\ pc = "await_open" =>
              r_hold_left + toLocal[1].age > 2 * MaxDelay
         /\ pc = "await_keepalive" =>
              r_hold_left + toLocal[1].age > Silence + 2 * MaxDelay
         /\ pc = "announce" => r_hold_left > Quiet + MaxDelay
         /\ pc \in {"loop", "read"} => r_hold_left > ka_left + MaxDelay

\* No session of an undisturbed remote has ended.
Alive ==
  /\ ~ remote_expired /\ last_error = "none"
  /\ rstate \notin {"mute", "stalled", "closed"} /\ pc # "sleep"

\* A keepalive that is due is sent before time passes.
KeepaliveInTime == pc = "read" /\ ~ expired => ka_left > 0

GoesOn ==
  /\ Alive /\ Framed(toLocal, got) /\ InOrder
  /\ RemoteTimers /\ LocalOutlasts /\ RemoteOutlasts

GoodInv == KeepaliveInTime /\ (Undisturbed => GoesOn)

-----------------------------------------------------------------------------
(* The constants and the wires.                                            *)

LEMMA HoldFacts ==
  /\ Hold \in Nat /\ Hold >= 3
  /\ KeepaliveInterval \in Nat /\ 1 <= KeepaliveInterval
  /\ KeepaliveInterval <= Hold
<1>1. Hold \in Nat /\ Hold >= 3
  BY HoldAssumption DEF Hold, MaxOf
<1>2. \A n \in Nat : n >= 3 => n \div 3 \in Nat /\ n \div 3 <= n
  OBVIOUS
<1> QED
  BY <1>1, <1>2 DEF KeepaliveInterval, MaxOf

LEMMA Bounds ==
  /\ ConnectRetry \in Nat /\ NumPrefixes \in Nat /\ MaxTroubles \in Nat
  /\ MaxDelay \in Nat
BY SessionBounds

LEMMA PieceFacts ==
  ASSUME NEW m \in Messages, NEW part \in {"whole", "head", "tail"}
  PROVE  /\ Piece(m, part) \in Pieces
         /\ Piece(m, part).msg = m /\ Piece(m, part).part = part
         /\ Piece(m, part).age = 0
<1>1. 0 \in 0..MaxDelay
  BY Bounds
<1> QED
  BY <1>1 DEF Piece, Pieces

LEMMA PieceFields ==
  ASSUME NEW p \in Pieces
  PROVE  /\ p.msg \in Messages /\ p.part \in {"whole", "head", "tail"}
         /\ p.age \in 0..MaxDelay /\ p.age \in Nat /\ p.age <= MaxDelay
<1>1. p.msg \in Messages /\ p.part \in {"whole", "head", "tail"} /\ p.age \in 0..MaxDelay
  BY DEF Pieces
<1> QED
  BY <1>1, Bounds

\* Wire after is wire before with message m, in one piece or two, at its end.
Carries(before, after, m) ==
  /\ after \in Seq(Pieces)
  /\ Len(after) \in {Len(before) + 1, Len(before) + 2}
  /\ \A i \in 1..Len(before) : after[i] = before[i]
  /\ \A i \in Len(before) + 1..Len(after) :
       after[i].msg = m /\ after[i].age = 0
  /\ Len(after) = Len(before) + 1 => after[Len(before) + 1].part = "whole"
  /\ Len(after) = Len(before) + 2 =>
       /\ after[Len(before) + 1].part = "head"
       /\ after[Len(before) + 2].part = "tail"

LEMMA Sent ==
  ASSUME toLocal \in Seq(Pieces), NEW m \in Messages, RemoteSends(m)
  PROVE  Carries(toLocal, toLocal', m)
<1> DEFINE w == Piece(m, "whole")
           h == Piece(m, "head")
           t == Piece(m, "tail")
           n == Len(toLocal)
<1>1. /\ w \in Pieces /\ w.msg = m /\ w.part = "whole" /\ w.age = 0
      /\ h \in Pieces /\ h.msg = m /\ h.part = "head" /\ h.age = 0
      /\ t \in Pieces /\ t.msg = m /\ t.part = "tail" /\ t.age = 0
  BY PieceFacts
<1>2. n \in Nat
  OBVIOUS
<1>3. toLocal' = Append(toLocal, w) \/ toLocal' = toLocal \o <<h, t>>
  BY DEF RemoteSends
<1> HIDE DEF w, h, t
<1>4. CASE toLocal' = Append(toLocal, w)
  <2>1. /\ toLocal' \in Seq(Pieces) /\ Len(toLocal') = n + 1
        /\ \A i \in 1..n : toLocal'[i] = toLocal[i]
        /\ toLocal'[n + 1] = w
    BY <1>1, <1>4
  <2> QED
    BY <1>1, <1>2, <2>1 DEF Carries
<1>5. CASE toLocal' = toLocal \o <<h, t>>
  <2>1. <<h, t>> \in Seq(Pieces) /\ Len(<<h, t>>) = 2
    BY <1>1
  <2>2. /\ toLocal' \in Seq(Pieces) /\ Len(toLocal') = n + 2
        /\ \A i \in 1..n : toLocal'[i] = toLocal[i]
        /\ toLocal'[n + 1] = h /\ toLocal'[n + 2] = t
    BY <1>1, <1>5, <2>1
  <2> QED
    BY <1>1, <1>2, <2>2 DEF Carries
<1> QED
  BY <1>3, <1>4, <1>5

LEMMA TailFacts ==
  ASSUME NEW w \in Seq(Pieces), w # <<>>
  PROVE  /\ Tail(w) \in Seq(Pieces) /\ Len(Tail(w)) = Len(w) - 1
         /\ Len(w) \in Nat /\ Len(w) > 0 /\ w[1] \in Pieces /\ Head(w) = w[1]
         /\ \A i \in 1..Len(w) - 1 : Tail(w)[i] = w[i + 1]
OBVIOUS

LEMMA OlderFacts ==
  ASSUME NEW w \in Seq(Pieces), \A i \in DOMAIN w : w[i].age < MaxDelay
  PROVE  /\ Older(w) \in Seq(Pieces) /\ Len(Older(w)) = Len(w)
         /\ Older(w) = <<>> <=> w = <<>>
         /\ \A i \in 1..Len(w) :
              /\ Older(w)[i].msg = w[i].msg /\ Older(w)[i].part = w[i].part
              /\ Older(w)[i].age = w[i].age + 1
<1>1. ASSUME NEW p \in Pieces, p.age < MaxDelay
      PROVE  /\ [p EXCEPT !.age = @ + 1] \in Pieces
             /\ [p EXCEPT !.age = @ + 1].msg = p.msg
             /\ [p EXCEPT !.age = @ + 1].part = p.part
             /\ [p EXCEPT !.age = @ + 1].age = p.age + 1
  <2>1. p.age + 1 \in 0..MaxDelay
    BY <1>1, PieceFields, Bounds
  <2> QED
    BY <1>1, <2>1 DEF Pieces
<1>2. \A i \in 1..Len(w) : w[i] \in Pieces /\ w[i].age < MaxDelay
  OBVIOUS
<1>3. DOMAIN w = 1..Len(w) /\ Len(w) \in Nat
  OBVIOUS
<1>4. Older(w) = [i \in 1..Len(w) |-> [w[i] EXCEPT !.age = @ + 1]]
  BY <1>3 DEF Older
<1>5. \A i \in 1..Len(w) : Older(w)[i] = [w[i] EXCEPT !.age = @ + 1]
  BY <1>4
<1>6. Older(w) \in Seq(Pieces) /\ Len(Older(w)) = Len(w)
  BY <1>1, <1>2, <1>3, <1>4
<1>7. Older(w) = <<>> <=> w = <<>>
  BY <1>6
<1>8. \A i \in 1..Len(w) :
        /\ Older(w)[i].msg = w[i].msg /\ Older(w)[i].part = w[i].part
        /\ Older(w)[i].age = w[i].age + 1
  BY <1>1, <1>2, <1>5
<1> QED
  BY <1>6, <1>7, <1>8

\* A wire to the remote after a message was added: the first one stays first,
\* and is new if there was none.
Longer(before, after) ==
  /\ after \in Seq(Pieces) /\ after # <<>>
  /\ before # <<>> => after[1] = before[1]
  /\ before = <<>> => after[1].age = 0

LEMMA Written ==
  ASSUME toRemote \in Seq(Pieces), NEW m \in Messages, ToRemote(m)
  PROVE  Longer(toRemote, toRemote')
<1> DEFINE new == Piece(m, "whole")
<1>1. new \in Pieces /\ new.age = 0
  BY PieceFacts
<1>2. toRemote' = Append(toRemote, new)
  BY DEF ToRemote
<1> HIDE DEF new
<1> QED
  BY <1>1, <1>2 DEF Longer

-----------------------------------------------------------------------------
(* SessionInv, whatever the remote does.                                   *)

LEMMA TypesSuffice == SessionTypes => TypeOK
<1>1. SessionTypes => /\ \A i \in DOMAIN toLocal : toLocal[i] \in Pieces
                      /\ \A i \in DOMAIN toRemote : toRemote[i] \in Pieces
  BY DEF SessionTypes
<1> QED
  BY <1>1
  DEF SessionTypes, TaskTypes, TimerTypes, RemoteTypes, RemoteTimerTypes,
      TypeOK

\* A step that ends the session, or the attempt at one.
Ends ==
  /\ pc \notin {"connect", "sleep"}
  /\ \E err \in Errors \ {"none"} : Fail(err)
  /\ troubles' \in 0..MaxTroubles

LEMMA OneMoreTrouble ==
  ASSUME NEW n \in 0..MaxTroubles, n < MaxTroubles
  PROVE  n + 1 \in 0..MaxTroubles
BY Bounds

LEMMA Endings ==
  ASSUME SessionInv,
         \/ ConnectFails \/ ReadMisframed \/ ReadEof \/ ReceiveUnexpected
         \/ HoldTimerExpires \/ ReceiveNotification \/ WriteFails
  PROVE  Ends
<1>1. troubles \in 0..MaxTroubles
  BY DEF SessionInv, SessionTypes
<1> QED
  BY <1>1, OneMoreTrouble
  DEF Ends, Reading, ConnectFails, ReadMisframed, ReadEof, ReceiveUnexpected,
      Errors,
      HoldTimerExpires, ReceiveNotification, WriteFails, SessionFails, Trouble

LEMMA EndsStep ==
  ASSUME SessionInv, Ends
  PROVE  SessionInv'
<1> USE DEF Ends, Fail
<1>1. TaskTypes' /\ RemoteTypes'
  BY DEF SessionInv, SessionTypes, TaskTypes, RemoteTypes, PeerState
<1>2. TimerTypes' /\ RemoteTimerTypes'
  BY Bounds DEF SessionInv, SessionTypes, TimerTypes, RemoteTimerTypes
<1>3. toLocal' \in Seq(Pieces) /\ toRemote' \in Seq(Pieces)
  OBVIOUS
<1>4. StateFollowsTask'
  BY DEF StateFollowsTask, HandshakePc, EstablishedPc
<1>5. RemoteFollowsTask'
  BY DEF RemoteFollowsTask, HandshakePc
<1> QED
  BY <1>1, <1>2, <1>3, <1>4, <1>5 DEF SessionInv, SessionTypes

LEMMA ShorterWire ==
  ASSUME NEW w \in Seq(Pieces), w # <<>>
  PROVE  /\ Tail(w) \in Seq(Pieces)
         /\ \A i \in DOMAIN Tail(w) :
              i + 1 \in DOMAIN w /\ Tail(w)[i] = w[i + 1]
BY TailFacts

\* The steps of the task that go on.
LEMMA TaskStep ==
  ASSUME SessionInv,
         \/ StartConnect \/ Wake \/ ReceiveKeepalive \/ ReadHead \/ ReadGarbage
         \/ ReceiveInLoop \/ ReadTimeout
  PROVE  SessionInv'
<1> USE DEF StartConnect, Wake, ReceiveKeepalive, ReadHead, ReadGarbage,
            ReceiveInLoop, ReadTimeout, DropsRead, Reading, remoteVars
<1>1. toLocal' = toLocal \/ (toLocal # <<>> /\ toLocal' = Tail(toLocal))
  BY DEF Reads
<1>2. toLocal \in Seq(Pieces) /\ toRemote \in Seq(Pieces)
  BY DEF SessionInv, SessionTypes
<1>3. toLocal' \in Seq(Pieces) /\ toRemote' \in Seq(Pieces)
  BY <1>1, <1>2, ShorterWire
<1>4. TaskTypes'
  BY DEF SessionInv, SessionTypes, TaskTypes, PeerState, Errors
<1>5. TimerTypes'
  BY HoldFacts DEF SessionInv, SessionTypes, TimerTypes
<1>6. RemoteTypes'
  BY DEF SessionInv, SessionTypes, RemoteTypes
<1>7. RemoteTimerTypes'
  BY DEF SessionInv, SessionTypes, RemoteTimerTypes
<1>8. troubles' \in 0..MaxTroubles
  BY DEF SessionInv, SessionTypes
<1>9. StateFollowsTask'
  BY DEF SessionInv, StateFollowsTask, HandshakePc, EstablishedPc
<1>10. \A i \in DOMAIN toLocal' : \E j \in DOMAIN toLocal : toLocal'[i] = toLocal[j]
  BY <1>1, <1>2, ShorterWire
<1>11. rstate' = rstate /\ toRemote' = toRemote
  OBVIOUS
<1>12. RemoteFollowsTask'
  <2>1. rstate' = "listening" <=> pc' \in {"connect", "connecting", "sleep"}
    BY DEF SessionInv, RemoteFollowsTask, TaskTypes
  <2>2. rstate' = "listening" => toLocal' = <<>> /\ toRemote' = <<>> /\ got' = "none"
    BY <1>1, <1>11 DEF SessionInv, RemoteFollowsTask
  <2>3. rstate' = "open_sent" => pc' \in HandshakePc
    BY <1>11, <1>10 DEF SessionInv, RemoteFollowsTask, HandshakePc, Reads
  <2>4. rstate' = "open_sent" => \A i \in DOMAIN toLocal' : toLocal'[i].msg = "open"
    BY <1>11, <1>10 DEF SessionInv, RemoteFollowsTask
  <2> QED
    BY <2>1, <2>2, <2>3, <2>4 DEF RemoteFollowsTask
<1> QED
  BY <1>3, <1>4, <1>5, <1>6, <1>7, <1>8, <1>9, <1>12
     DEF SessionInv, SessionTypes

\* What the steps that write do to the wire to the remote.
LEMMA TaskWrites ==
  ASSUME SessionInv
  PROVE  /\ SessionStarts => Longer(toRemote, toRemote')
         /\ ReceiveOpen => Longer(toRemote, toRemote')
         /\ SendAnnouncement => Longer(toRemote, toRemote')
         /\ CheckTimers =>
              \/ /\ ka_left = 0 /\ ka_left' = KeepaliveInterval
                 /\ Longer(toRemote, toRemote')
              \/ ka_left > 0 /\ ka_left' = ka_left /\ toRemote' = toRemote
BY Written
DEF SessionInv, SessionTypes, SessionStarts, ReceiveOpen, SendAnnouncement,
    CheckTimers, Messages

LEMMA WriteStep ==
  ASSUME SessionInv,
         ReceiveOpen \/ SendAnnouncement \/ StartTimers \/ CheckTimers
  PROVE  SessionInv'
<1> USE DEF ReceiveOpen, SendAnnouncement, StartTimers, CheckTimers, remoteVars
<1>1. toLocal' = toLocal \/ (toLocal # <<>> /\ toLocal' = Tail(toLocal))
  BY DEF Reads
<1>2. toLocal \in Seq(Pieces)
  BY DEF SessionInv, SessionTypes
<1>3. toLocal' \in Seq(Pieces)
  BY <1>1, <1>2, ShorterWire
<1>4. toRemote' \in Seq(Pieces)
  BY TaskWrites DEF Longer, SessionInv, SessionTypes
<1>5. TaskTypes'
  BY DEF SessionInv, SessionTypes, TaskTypes
<1>6. TimerTypes'
  BY HoldFacts, Bounds DEF SessionInv, SessionTypes, TimerTypes
<1>7. RemoteTypes' /\ RemoteTimerTypes' /\ troubles' \in 0..MaxTroubles
  BY DEF SessionInv, SessionTypes, RemoteTypes, RemoteTimerTypes
<1>8. StateFollowsTask'
  BY DEF SessionInv, StateFollowsTask, HandshakePc, EstablishedPc
<1>9. \A i \in DOMAIN toLocal' : \E j \in DOMAIN toLocal : toLocal'[i] = toLocal[j]
  BY <1>1, <1>2, ShorterWire
<1>10. RemoteFollowsTask'
  BY <1>9 DEF SessionInv, RemoteFollowsTask, HandshakePc
<1> QED
  BY <1>3, <1>4, <1>5, <1>6, <1>7, <1>8, <1>10 DEF SessionInv, SessionTypes

LEMMA StartStep ==
  ASSUME SessionInv, SessionStarts
  PROVE  SessionInv'
<1> USE DEF SessionStarts
<1>1. toLocal = <<>> /\ toLocal \in Seq(Pieces)
  BY DEF SessionInv, RemoteFollowsTask
<1>2. /\ toLocal' \in Seq(Pieces)
      /\ \A i \in DOMAIN toLocal' : toLocal'[i].msg = "open"
  <2>1. "open" \in Messages
    BY DEF Messages
  <2>2. CASE RemoteSends("open")
    BY <1>1, <2>1, <2>2, Sent DEF Carries
  <2>3. CASE toLocal' = toLocal
    BY <1>1, <2>3
  <2> QED
    BY <2>2, <2>3
<1>3. toRemote' \in Seq(Pieces)
  BY TaskWrites DEF Longer
<1>4. TaskTypes' /\ RemoteTypes'
  BY DEF SessionInv, SessionTypes, TaskTypes, RemoteTypes, PeerState
<1>5. TimerTypes' /\ RemoteTimerTypes'
  BY DEF SessionInv, SessionTypes, TimerTypes, RemoteTimerTypes
<1>6. troubles' \in 0..MaxTroubles
  BY OneMoreTrouble DEF SessionInv, SessionTypes, Trouble
<1>7. StateFollowsTask'
  BY DEF SessionInv, StateFollowsTask, HandshakePc, EstablishedPc
<1>8. RemoteFollowsTask'
  BY <1>2 DEF RemoteFollowsTask, HandshakePc
<1> QED
  BY <1>2, <1>3, <1>4, <1>5, <1>6, <1>7, <1>8 DEF SessionInv, SessionTypes

\* Hold times are natural numbers, and neither interval exceeds its own.
LEMMA RemoteNumbers ==
  ASSUME RemoteTypes, RemoteTimerTypes
  PROVE  /\ rhold \in Nat /\ r_hold \in Nat
         /\ r_hold_left \in 0..r_hold /\ r_ka_left \in 0..r_hold
         /\ MinOf(Hold, rhold) \in {0} \union RemoteHolds \union {Hold}
         /\ MinOf(Hold, rhold) \in Nat
BY HoldFacts, RemoteAssumption DEF RemoteTypes, RemoteTimerTypes, MinOf

LEMMA IntervalFits == \A n \in Nat : n > 0 => MaxOf(n \div 3, 1) \in 0..n
<1>1. \A n \in Nat : n > 0 => n \div 3 \in Nat /\ n \div 3 <= n
  OBVIOUS
<1> QED
  BY <1>1 DEF MaxOf

LEMMA RemoteStep ==
  ASSUME SessionInv,
         \/ RemoteReceives \/ RemoteKeepalive \/ RemoteHoldExpires
         \/ RemoteMisbehaves \/ RemoteUpdate
  PROVE  SessionInv'
<1> USE DEF RemoteReceives, RemoteKeepalive, RemoteHoldExpires,
            RemoteMisbehaves, RemoteUpdate, Connected, localVars, remoteVars
<1>1. toLocal \in Seq(Pieces) /\ toRemote \in Seq(Pieces)
  BY DEF SessionInv, SessionTypes
<1>2. toLocal' \in Seq(Pieces)
  <2>1. /\ "keepalive" \in Messages /\ "notification" \in Messages
        /\ "update" \in Messages
    BY DEF Messages
  <2> QED
    BY <1>1, <2>1, Sent DEF Carries
<1>3. toRemote' \in Seq(Pieces)
  <2>1. \/ (toRemote' = toRemote) \/ (toRemote' = <<>>)
        \/ (toRemote # <<>> /\ toRemote' = Tail(toRemote))
    OBVIOUS
  <2>2. <<>> \in Seq(Pieces)
    OBVIOUS
  <2>3. toRemote # <<>> => Tail(toRemote) \in Seq(Pieces)
    BY <1>1, ShorterWire
  <2> QED
    BY <1>1, <2>1, <2>2, <2>3
<1>4. TaskTypes' /\ TimerTypes'
  BY DEF SessionInv, SessionTypes, TaskTypes, TimerTypes
<1>5. RemoteTypes'
  BY DEF SessionInv, SessionTypes, RemoteTypes
<1>6. RemoteTimerTypes'
  <2>1. RemoteTypes /\ RemoteTimerTypes
    BY DEF SessionInv, SessionTypes
  <2>2. CASE RemoteReceives
    BY <2>1, <2>2, RemoteNumbers, IntervalFits DEF RemoteTimerTypes
  <2>3. CASE RemoteKeepalive
    BY <2>1, <2>3, RemoteNumbers, IntervalFits
    DEF RemoteTimerTypes, RemoteKeepaliveInterval
  <2>4. CASE RemoteHoldExpires \/ RemoteMisbehaves \/ RemoteUpdate
    BY <2>1, <2>4 DEF RemoteTimerTypes
  <2> QED
    BY <2>2, <2>3, <2>4
<1>7. troubles' \in 0..MaxTroubles
  BY OneMoreTrouble DEF SessionInv, SessionTypes, Trouble
<1>8. StateFollowsTask'
  BY DEF SessionInv, StateFollowsTask
<1>9. rstate # "listening" /\ rstate' \notin {"listening", "open_sent"}
  BY DEF SessionInv, RemoteFollowsTask
<1>10. RemoteFollowsTask'
  BY <1>9 DEF SessionInv, RemoteFollowsTask
<1> QED
  BY <1>2, <1>3, <1>4, <1>5, <1>6, <1>7, <1>8, <1>10
     DEF SessionInv, SessionTypes

LEMMA LessFacts ==
  \A n \in Nat : /\ Less(n) \in Nat /\ Less(n) <= n
                 /\ n > 0 => Less(n) = n - 1
BY DEF Less

\* What a second does to the wires.
LEMMA TickWires ==
  ASSUME SessionInv, Tick
  PROVE  /\ toLocal' \in Seq(Pieces) /\ toRemote' \in Seq(Pieces)
         /\ \/ rstate = "stalled" /\ toLocal' = toLocal
            \/ /\ toLocal' = Older(toLocal)
               /\ \A i \in DOMAIN toLocal : toLocal[i].age < MaxDelay
         /\ rstate \notin {"mute", "stalled"} =>
              /\ toRemote' = Older(toRemote)
              /\ \A i \in DOMAIN toRemote : toRemote[i].age < MaxDelay
<1>1. toLocal \in Seq(Pieces) /\ toRemote \in Seq(Pieces)
  BY DEF SessionInv, SessionTypes
<1>2. Blocked => rstate = "stalled"
  BY DEF Blocked, CanWrite
<1>3. \/ Blocked /\ toLocal' = toLocal
      \/ /\ toLocal' = Older(toLocal)
         /\ \A i \in DOMAIN toLocal : toLocal[i].age < MaxDelay
  BY DEF Tick
<1>4. \/ toRemote' = <<>> /\ rstate = "mute"
      \/ toRemote' = toRemote /\ rstate = "stalled"
      \/ /\ toRemote' = Older(toRemote)
         /\ \A i \in DOMAIN toRemote : toRemote[i].age < MaxDelay
  BY DEF Tick
<1>5. toLocal' \in Seq(Pieces)
  BY <1>1, <1>3, OlderFacts
<1>6. <<>> \in Seq(Pieces)
  OBVIOUS
<1>7. toRemote' \in Seq(Pieces)
  BY <1>1, <1>4, <1>6, OlderFacts
<1> QED
  BY <1>2, <1>3, <1>4, <1>5, <1>7

LEMMA TickStep ==
  ASSUME SessionInv, Tick
  PROVE  SessionInv'
<1>1. toLocal' \in Seq(Pieces) /\ toRemote' \in Seq(Pieces)
  BY TickWires
<1>2. TaskTypes'
  BY DEF SessionInv, SessionTypes, TaskTypes, Tick
<1>3. TimerTypes'
  <2>1. \A b \in Nat : \A n \in 0..b : Less(n) \in 0..b
    BY LessFacts
  <2> QED
    BY <2>1, HoldFacts, Bounds DEF SessionInv, SessionTypes, TimerTypes, Tick
<1>4. RemoteTypes' /\ troubles' \in 0..MaxTroubles
  BY DEF SessionInv, SessionTypes, RemoteTypes, Tick
<1>5. RemoteTimerTypes'
  <2>1. RemoteTypes /\ RemoteTimerTypes
    BY DEF SessionInv, SessionTypes
  <2>2. \A b \in Nat : \A n \in 0..b : Less(n) \in 0..b
    BY LessFacts
  <2> QED
    BY <2>1, <2>2, RemoteNumbers DEF RemoteTimerTypes, Tick
<1>6. StateFollowsTask'
  BY DEF SessionInv, StateFollowsTask, Tick
<1>7. RemoteFollowsTask'
  <2>1. /\ rstate' = rstate /\ pc' = pc /\ got' = got
        /\ rstate = "listening" => toLocal' = Older(toLocal)
        /\ rstate = "listening" => toRemote' = Older(toRemote)
    BY TickWires DEF Tick
  <2>2. Older(<<>>) = <<>>
    BY DEF Older
  <2>3. rstate = "open_sent" => \A i \in DOMAIN toLocal' : toLocal'[i].msg = "open"
    BY TickWires, OlderFacts DEF SessionInv, SessionTypes, RemoteFollowsTask
  <2> QED
    BY <2>1, <2>2, <2>3, TickWires DEF SessionInv, RemoteFollowsTask
<1> QED
  BY <1>1, <1>2, <1>3, <1>4, <1>5, <1>6, <1>7 DEF SessionInv, SessionTypes

\* The steps of the specification, in the groups the lemmas are about.
LEMMA NextCases ==
  ASSUME SessionInv, Next
  PROVE  \/ Ends
         \/ StartConnect \/ Wake \/ ReceiveKeepalive \/ ReadHead \/ ReadGarbage
         \/ ReceiveInLoop \/ ReadTimeout
         \/ ReceiveOpen \/ SendAnnouncement \/ StartTimers \/ CheckTimers
         \/ SessionStarts
         \/ RemoteReceives \/ RemoteKeepalive \/ RemoteHoldExpires
         \/ RemoteMisbehaves \/ RemoteUpdate
         \/ Tick
BY Endings DEF Next, Local, Remote

LEMMA SessionInvInit == Init => SessionInv
<1> SUFFICES ASSUME Init PROVE SessionInv
  OBVIOUS
<1> USE DEF Init
<1>1. toLocal \in Seq(Pieces) /\ toRemote \in Seq(Pieces)
  OBVIOUS
<1>2. TaskTypes /\ RemoteTypes
  BY DEF TaskTypes, RemoteTypes, PeerState, Errors
<1>3. TimerTypes /\ RemoteTimerTypes /\ troubles \in 0..MaxTroubles
  BY HoldFacts, Bounds DEF TimerTypes, RemoteTimerTypes
<1>4. StateFollowsTask /\ RemoteFollowsTask
  BY DEF StateFollowsTask, RemoteFollowsTask, HandshakePc, EstablishedPc
<1> QED
  BY <1>1, <1>2, <1>3, <1>4 DEF SessionInv, SessionTypes

LEMMA SessionInvStep == SessionInv /\ [Next]_vars => SessionInv'
<1> SUFFICES ASSUME SessionInv, [Next]_vars PROVE SessionInv'
  OBVIOUS
<1>1. CASE Next
  BY <1>1, NextCases, EndsStep, TaskStep, WriteStep, StartStep, RemoteStep,
     TickStep
<1>2. CASE UNCHANGED vars
  BY <1>2
  DEF vars, SessionInv, SessionTypes, TaskTypes, TimerTypes, RemoteTypes,
      RemoteTimerTypes, StateFollowsTask, RemoteFollowsTask
<1> QED
  BY <1>1, <1>2

THEOREM SessionInvariant == Spec => []SessionInv
BY SessionInvInit, SessionInvStep, PTL DEF Spec

\* Type correctness, for every hold time, every remote and every wire.
THEOREM SessionTypeCorrect == Spec => []TypeOK
<1>1. SessionInv => TypeOK
  BY TypesSuffice DEF SessionInv
<1> QED
  BY <1>1, SessionInvariant, PTL

\* Whatever the remote does, a peer that set_peer_state shows as Established is
\* one whose remote has received the local OPEN on this connection.
THEOREM EstablishedMeansSession == Spec => []EstablishedIsReal
<1>1. SessionInv => EstablishedIsReal
  BY DEF SessionInv, SessionTypes, TaskTypes, RemoteTypes, StateFollowsTask,
         RemoteFollowsTask, HandshakePc, EstablishedPc, EstablishedIsReal
<1> QED
  BY <1>1, SessionInvariant, PTL

\* The task implements what PeerFsm promises an operator: every step of
\* peer_loop and run_session that reports, reports a state that may follow the
\* one shown, with an error exactly when it falls back to Active.
THEOREM TaskImplementsFsm == Spec => ImplementsFsm
<1>1. Init => Fsm!Init
  BY DEF Init, Fsm!Init
<1>2. SessionInv /\ [Next]_vars => [Fsm!Next]_<<state, last_error>>
  <2> SUFFICES ASSUME SessionInv, [Next]_vars
               PROVE  Fsm!Next \/ UNCHANGED <<state, last_error>>
    OBVIOUS
  <2>1. CASE Ends
    <3>1. state \in {"Connect", "OpenSent", "Established"}
      BY <2>1
      DEF Ends, SessionInv, SessionTypes, TaskTypes, StateFollowsTask,
          HandshakePc, EstablishedPc
    <3>2. "Active" \in Fsm!Follows[state] /\ "Active" \in Fsm!PeerState
      BY <3>1 DEF Fsm!Follows, Fsm!PeerState
    <3>3. state' = "Active" /\ last_error' \in Errors \ {"none"}
      BY <2>1 DEF Ends, Fail
    <3>4. Fsm!Report("Active")
      BY <3>2, <3>3 DEF Fsm!Report
    <3> QED
      BY <3>2, <3>4 DEF Fsm!Next
  <2>2. CASE StartConnect
    <3>1. "Connect" \in Fsm!Follows[state] /\ "Connect" \in Fsm!PeerState
      BY <2>2
         DEF StartConnect, SessionInv, StateFollowsTask, Fsm!Follows,
             Fsm!PeerState
    <3>2. Fsm!Report("Connect")
      BY <2>2, <3>1 DEF StartConnect, Fsm!Report
    <3> QED
      BY <3>1, <3>2 DEF Fsm!Next
  <2>3. CASE SessionStarts
    <3>1. "OpenSent" \in Fsm!Follows[state] /\ "OpenSent" \in Fsm!PeerState
      BY <2>3
         DEF SessionStarts, SessionInv, StateFollowsTask, Fsm!Follows,
             Fsm!PeerState
    <3>2. Fsm!Report("OpenSent")
      BY <2>3, <3>1 DEF SessionStarts, Fsm!Report
    <3> QED
      BY <3>1, <3>2 DEF Fsm!Next
  <2>4. CASE ReceiveKeepalive
    <3>1. "Established" \in Fsm!Follows[state] /\ "Established" \in Fsm!PeerState
      BY <2>4
      DEF ReceiveKeepalive, SessionInv, StateFollowsTask, HandshakePc,
          Fsm!Follows,
          Fsm!PeerState
    <3>2. Fsm!Report("Established")
      BY <2>4, <3>1 DEF ReceiveKeepalive, Fsm!Report
    <3> QED
      BY <3>1, <3>2 DEF Fsm!Next
  <2>5. CASE \/ Wake \/ ReadHead \/ ReadGarbage \/ ReceiveInLoop \/ ReadTimeout
             \/ ReceiveOpen \/ SendAnnouncement \/ StartTimers \/ CheckTimers \/ Tick
    BY <2>5
    DEF Wake, ReadHead, ReadGarbage, ReceiveInLoop, ReadTimeout, ReceiveOpen,
        SendAnnouncement, StartTimers, CheckTimers, Tick
  <2>6. CASE \/ RemoteReceives \/ RemoteKeepalive \/ RemoteHoldExpires
             \/ RemoteMisbehaves \/ RemoteUpdate
    BY <2>6
    DEF RemoteReceives, RemoteKeepalive, RemoteHoldExpires, RemoteMisbehaves,
        RemoteUpdate, localVars
  <2>7. CASE UNCHANGED vars
    BY <2>7 DEF vars
  <2> QED
    BY <2>1, <2>2, <2>3, <2>4, <2>5, <2>6, <2>7, NextCases
<1> QED
  BY <1>1, <1>2, SessionInvariant, PTL DEF Spec, ImplementsFsm, Fsm!Spec

-----------------------------------------------------------------------------
(* The wire of an undisturbed session.                                     *)

LEMMA FramedSent ==
  ASSUME NEW w \in Seq(Pieces), NEW v \in Seq(Pieces), NEW m, NEW g,
         Framed(w, g), Carries(w, v, m)
  PROVE  Framed(v, g)
<1>1. /\ Len(w) \in Nat
      /\ (Len(v) = Len(w) + 1) \/ (Len(v) = Len(w) + 2)
  BY DEF Carries
<1>2. \A i \in 1..Len(w) : v[i] = w[i]
  BY DEF Carries
<1>3. g = "head" => v # <<>> /\ v[1].part = "tail"
  BY <1>1, <1>2 DEF Framed
<1>4. ASSUME NEW i \in DOMAIN v
      PROVE  /\ v[i].part = "head" =>
                  /\ i + 1 \in DOMAIN v /\ v[i + 1].part = "tail"
                  /\ v[i + 1].msg = v[i].msg /\ v[i + 1].age = v[i].age
             /\ v[i].part = "tail" =>
                  IF i = 1 THEN g = "head" ELSE v[i - 1].part = "head"
  <2>1. CASE i <= Len(w)
    <3>1. i \in DOMAIN w /\ v[i] = w[i]
      BY <1>1, <1>2, <2>1
    <3>2. w[i].part = "head" =>
            /\ i + 1 \in DOMAIN v /\ v[i + 1].part = "tail"
            /\ v[i + 1].msg = v[i].msg /\ v[i + 1].age = v[i].age
      BY <1>1, <1>2, <3>1 DEF Framed
    <3>3. i # 1 => v[i - 1] = w[i - 1]
      BY <1>1, <1>2, <2>1
    <3>4. w[i].part = "tail" => IF i = 1 THEN g = "head" ELSE w[i - 1].part = "head"
      BY <3>1 DEF Framed
    <3> QED
      BY <3>1, <3>2, <3>3, <3>4
  <2>2. CASE i = Len(w) + 1
    BY <1>1, <2>2 DEF Carries
  <2>3. CASE i = Len(w) + 2
    <3>1. v[i - 1].part = "head" /\ v[i].part = "tail" /\ i # 1
      BY <1>1, <2>3 DEF Carries
    <3> QED
      BY <3>1
  <2> QED
    BY <1>1, <2>1, <2>2, <2>3
<1> QED
  BY <1>3, <1>4 DEF Framed

\* The head of a message is read.
LEMMA FramedHead ==
  ASSUME NEW w \in Seq(Pieces), w # <<>>, Framed(w, "none"), w[1].part =
         "head"
  PROVE  /\ Framed(Tail(w), "head") /\ Tail(w) # <<>>
         /\ Tail(w)[1] = w[2] /\ Len(w) >= 2
         /\ w[2].part = "tail" /\ w[2].msg = w[1].msg /\ w[2].age = w[1].age
<1> DEFINE v == Tail(w)
<1>1. /\ v \in Seq(Pieces) /\ Len(v) = Len(w) - 1 /\ Len(w) \in Nat
      /\ DOMAIN w = 1..Len(w) /\ DOMAIN v = 1..Len(v)
      /\ \A i \in DOMAIN v : i + 1 \in DOMAIN w /\ v[i] = w[i + 1]
  BY TailFacts
<1>2. 1 \in DOMAIN w
  BY <1>1
<1>3. /\ 2 \in DOMAIN w /\ w[2].part = "tail"
      /\ w[2].msg = w[1].msg /\ w[2].age = w[1].age
  BY <1>2 DEF Framed
<1>4. v # <<>> /\ v[1] = w[2] /\ Len(w) >= 2
  BY <1>1, <1>3
<1>5. ASSUME NEW i \in DOMAIN v
      PROVE  /\ v[i].part = "head" =>
                  /\ i + 1 \in DOMAIN v /\ v[i + 1].part = "tail"
                  /\ v[i + 1].msg = v[i].msg /\ v[i + 1].age = v[i].age
             /\ v[i].part = "tail" =>
                  IF i = 1 THEN "head" = "head" ELSE v[i - 1].part = "head"
  <2>1. i \in Nat /\ i >= 1 /\ i + 1 \in DOMAIN w /\ v[i] = w[i + 1] /\ (i + 1) # 1
    BY <1>1
  <2>2. w[i + 1].part = "head" =>
          /\ (i + 1) + 1 \in DOMAIN w /\ w[(i + 1) + 1].part = "tail"
          /\ w[(i + 1) + 1].msg = w[i + 1].msg
          /\ w[(i + 1) + 1].age = w[i + 1].age
    BY <2>1 DEF Framed
  <2>3. (i + 1) + 1 \in DOMAIN w => i + 1 \in DOMAIN v /\ v[i + 1] = w[(i + 1) + 1]
    BY <1>1, <2>1
  <2>4. w[i + 1].part = "tail" => w[(i + 1) - 1].part = "head"
    BY <2>1 DEF Framed
  <2>5. i # 1 => v[i - 1] = w[(i + 1) - 1]
    BY <1>1, <2>1
  <2> QED
    BY <2>1, <2>2, <2>3, <2>4, <2>5
<1> QED
  BY <1>3, <1>4, <1>5 DEF Framed

\* A message is read to its end.
LEMMA FramedRead ==
  ASSUME NEW w \in Seq(Pieces), w # <<>>, NEW g, Framed(w, g),
         \/ g = "none" /\ w[1].part = "whole"
         \/ g = "head" /\ w[1].part = "tail"
  PROVE  Framed(Tail(w), "none")
<1> DEFINE v == Tail(w)
<1>1. /\ v \in Seq(Pieces) /\ Len(v) = Len(w) - 1 /\ Len(w) \in Nat
      /\ DOMAIN w = 1..Len(w) /\ DOMAIN v = 1..Len(v)
      /\ \A i \in DOMAIN v : i + 1 \in DOMAIN w /\ v[i] = w[i + 1]
  BY TailFacts
<1>2. ASSUME NEW i \in DOMAIN v
      PROVE  /\ v[i].part = "head" =>
                  /\ i + 1 \in DOMAIN v /\ v[i + 1].part = "tail"
                  /\ v[i + 1].msg = v[i].msg /\ v[i + 1].age = v[i].age
             /\ v[i].part = "tail" => i # 1 /\ v[i - 1].part = "head"
  <2>1. i \in Nat /\ i >= 1 /\ i + 1 \in DOMAIN w /\ v[i] = w[i + 1] /\ (i + 1) # 1
    BY <1>1
  <2>2. w[i + 1].part = "head" =>
          /\ (i + 1) + 1 \in DOMAIN w /\ w[(i + 1) + 1].part = "tail"
          /\ w[(i + 1) + 1].msg = w[i + 1].msg
          /\ w[(i + 1) + 1].age = w[i + 1].age
    BY <2>1 DEF Framed
  <2>3. (i + 1) + 1 \in DOMAIN w => i + 1 \in DOMAIN v /\ v[i + 1] = w[(i + 1) + 1]
    BY <1>1, <2>1
  <2>4. w[i + 1].part = "tail" => w[(i + 1) - 1].part = "head"
    BY <2>1 DEF Framed
  <2>5. i # 1 => v[i - 1] = w[(i + 1) - 1]
    BY <1>1, <2>1
  <2>6. i = 1 => w[(i + 1) - 1].part # "head"
    OBVIOUS
  <2> QED
    BY <2>1, <2>2, <2>3, <2>4, <2>5, <2>6
<1> QED
  BY <1>2 DEF Framed

LEMMA FramedOlder ==
  ASSUME NEW w \in Seq(Pieces), \A i \in DOMAIN w : w[i].age < MaxDelay,
         NEW g, Framed(w, g)
  PROVE  Framed(Older(w), g)
<1> DEFINE v == Older(w)
<1>1. /\ v \in Seq(Pieces) /\ Len(v) = Len(w) /\ (v = <<>> <=> w = <<>>)
      /\ DOMAIN w = 1..Len(w) /\ DOMAIN v = 1..Len(w) /\ Len(w) \in Nat
  BY OlderFacts
<1>2. \A i \in 1..Len(w) : /\ v[i].msg = w[i].msg /\ v[i].part = w[i].part
                           /\ v[i].age = w[i].age + 1
  BY OlderFacts
<1> HIDE DEF v
<1>3. g = "head" => v # <<>> /\ v[1].part = "tail"
  BY <1>1, <1>2 DEF Framed
<1>4. ASSUME NEW i \in DOMAIN v
      PROVE  /\ v[i].part = "head" =>
                  /\ i + 1 \in DOMAIN v /\ v[i + 1].part = "tail"
                  /\ v[i + 1].msg = v[i].msg /\ v[i + 1].age = v[i].age
             /\ v[i].part = "tail" =>
                  IF i = 1 THEN g = "head" ELSE v[i - 1].part = "head"
  <2>1. i \in DOMAIN w /\ i \in 1..Len(w)
    BY <1>1
  <2>2. v[i].part = "head" =>
          /\ i + 1 \in DOMAIN v /\ v[i + 1].part = "tail"
          /\ v[i + 1].msg = v[i].msg /\ v[i + 1].age = v[i].age
    BY <1>1, <1>2, <2>1 DEF Framed
  <2>3. i # 1 => v[i - 1].part = w[i - 1].part
    BY <1>1, <1>2, <2>1
  <2>4. w[i].part = "tail" => IF i = 1 THEN g = "head" ELSE w[i - 1].part = "head"
    BY <2>1 DEF Framed
  <2> QED
    BY <1>2, <2>1, <2>2, <2>3, <2>4
<1> QED
  BY <1>3, <1>4 DEF Framed, v

LEMMA OpenFirstStart ==
  ASSUME NEW v \in Seq(Pieces), Carries(<<>>, v, "open")
  PROVE  OpenFirst(v)
<1>1. Len(v) = 1 \/ Len(v) = 2
  BY DEF Carries
<1>2. \A i \in 1..Len(v) : v[i].msg = "open"
  BY DEF Carries
<1>3. CASE Len(v) = 1
  <2>1. v[1].part = "whole"
    BY <1>3 DEF Carries
  <2>2. FirstEnds(v) = 1
    BY <2>1 DEF FirstEnds
  <2>3. v # <<>> /\ \A i \in DOMAIN v : i <= 1 /\ v[i].msg = "open"
    BY <1>2, <1>3
  <2> QED
    BY <2>2, <2>3 DEF OpenFirst
<1>4. CASE Len(v) = 2
  <2>1. v[1].part = "head"
    BY <1>4 DEF Carries
  <2>2. FirstEnds(v) = 2
    BY <2>1 DEF FirstEnds
  <2>3. v # <<>> /\ \A i \in DOMAIN v : i <= 2 /\ v[i].msg = "open"
    <3>1. DOMAIN v = 1..2
      BY <1>4
    <3>2. \A i \in 1..2 : i <= 2
      OBVIOUS
    <3>3. \A i \in DOMAIN v : v[i].msg = "open"
      BY <1>2
    <3>4. v # <<>>
      BY <1>4
    <3> QED
      BY <3>1, <3>2, <3>3, <3>4
  <2> QED
    BY <2>2, <2>3 DEF OpenFirst
<1> QED
  BY <1>1, <1>3, <1>4

LEMMA FirstEndsFacts ==
  ASSUME NEW w \in Seq(Pieces), w # <<>>, NEW g, Framed(w, g)
  PROVE  /\ FirstEnds(w) \in {1, 2} /\ FirstEnds(w) <= Len(w)
         /\ Len(w) \in Nat
<1>1. 1 \in DOMAIN w /\ Len(w) \in Nat
  OBVIOUS
<1>2. w[1].part = "head" => 1 + 1 \in DOMAIN w
  BY <1>1 DEF Framed
<1> QED
  BY <1>1, <1>2 DEF FirstEnds

\* The remote sends more.
LEMMA OpenFirstSent ==
  ASSUME NEW w \in Seq(Pieces), NEW g, Framed(w, g), OpenFirst(w),
         NEW v \in Seq(Pieces), NEW m \in {"keepalive", "update"},
         Carries(w, v, m)
  PROVE  /\ OpenFirst(v)
         /\ KeepaliveNext(w) => KeepaliveNext(v)
         /\ Len(w) = FirstEnds(w) /\ m = "keepalive" => KeepaliveNext(v)
         /\ v[1] = w[1]
<1>1. w # <<>>
  BY DEF OpenFirst
<1>2. FirstEnds(w) \in {1, 2} /\ FirstEnds(w) <= Len(w) /\ Len(w) \in Nat
  BY <1>1, FirstEndsFacts
<1>3. (Len(v) = Len(w) + 1) \/ (Len(v) = Len(w) + 2)
  BY DEF Carries
<1>4. \A i \in 1..Len(w) : v[i] = w[i]
  BY DEF Carries
<1>5. \A i \in Len(w) + 1..Len(v) : v[i].msg = m
  BY DEF Carries
<1>6. v # <<>> /\ v[1] = w[1] /\ FirstEnds(v) = FirstEnds(w)
  BY <1>2, <1>3, <1>4 DEF FirstEnds
<1>7. ASSUME NEW i \in DOMAIN v
      PROVE  IF i <= FirstEnds(v) THEN v[i].msg = "open"
             ELSE v[i].msg \in {"keepalive", "update"}
  <2>1. CASE i <= Len(w)
    <3>1. i \in DOMAIN w /\ v[i] = w[i]
      BY <1>4, <2>1
    <3> QED
      BY <1>6, <3>1 DEF OpenFirst
  <2>2. CASE ~ (i <= Len(w))
    <3>1. i \in Len(w) + 1..Len(v) /\ ~ (i <= FirstEnds(v))
      BY <1>2, <1>6, <2>2
    <3> QED
      BY <1>5, <3>1
  <2> QED
    BY <2>1, <2>2
<1>8. KeepaliveNext(w) => KeepaliveNext(v)
  BY <1>2, <1>3, <1>4, <1>6 DEF KeepaliveNext
<1>9. Len(w) = FirstEnds(w) /\ m = "keepalive" => KeepaliveNext(v)
  BY <1>2, <1>3, <1>5, <1>6 DEF KeepaliveNext
<1> QED
  BY <1>6, <1>7, <1>8, <1>9 DEF OpenFirst

\* The head of the OPEN is read.
LEMMA OpenFirstHead ==
  ASSUME NEW w \in Seq(Pieces), Framed(w, "none"), OpenFirst(w),
         w[1].part = "head"
  PROVE  /\ OpenFirst(Tail(w))
         /\ KeepaliveNext(w) => KeepaliveNext(Tail(w))
<1> DEFINE v == Tail(w)
<1>1. w # <<>>
  BY DEF OpenFirst
<1>2. /\ v \in Seq(Pieces) /\ Len(v) = Len(w) - 1 /\ Len(w) \in Nat
      /\ \A i \in 1..Len(w) - 1 : v[i] = w[i + 1]
  BY <1>1, TailFacts
<1>3. /\ v # <<>> /\ v[1].part = "tail" /\ Len(w) >= 2
  BY <1>1, FramedHead
<1>4. FirstEnds(w) = 2 /\ FirstEnds(v) = 1
  BY <1>3 DEF FirstEnds
<1> HIDE DEF v
<1>5. ASSUME NEW i \in DOMAIN v
      PROVE  IF i <= FirstEnds(v) THEN v[i].msg = "open"
             ELSE v[i].msg \in {"keepalive", "update"}
  <2>1. i \in Nat /\ i + 1 \in DOMAIN w /\ v[i] = w[i + 1]
    BY <1>2
  <2>2. i <= FirstEnds(v) <=> i + 1 <= FirstEnds(w)
    BY <1>4, <2>1
  <2> QED
    BY <2>1, <2>2 DEF OpenFirst
<1>6. KeepaliveNext(w) => KeepaliveNext(v)
  BY <1>2, <1>4 DEF KeepaliveNext
<1> QED
  BY <1>3, <1>5, <1>6 DEF OpenFirst, v

\* The OPEN is read to its end.
LEMMA OpenFirstRead ==
  ASSUME NEW w \in Seq(Pieces), OpenFirst(w), w[1].part # "head"
  PROVE  /\ \A i \in DOMAIN Tail(w) : Tail(w)[i].msg \in {"keepalive", "update"}
         /\ KeepaliveNext(w) => Tail(w) # <<>> /\ Tail(w)[1].msg = "keepalive"
<1> DEFINE v == Tail(w)
<1>1. w # <<>>
  BY DEF OpenFirst
<1>2. /\ v \in Seq(Pieces) /\ Len(v) = Len(w) - 1 /\ Len(w) \in Nat
      /\ \A i \in 1..Len(w) - 1 : v[i] = w[i + 1]
  BY <1>1, TailFacts
<1>3. FirstEnds(w) = 1
  BY DEF FirstEnds
<1> HIDE DEF v
<1>4. ASSUME NEW i \in DOMAIN v
      PROVE  v[i].msg \in {"keepalive", "update"}
  <2>1. i \in Nat /\ i + 1 \in DOMAIN w /\ v[i] = w[i + 1] /\ ~ (i + 1 <= 1)
    BY <1>2
  <2> QED
    BY <1>3, <2>1 DEF OpenFirst
<1>5. KeepaliveNext(w) => v # <<>> /\ v[1].msg = "keepalive"
  BY <1>2, <1>3 DEF KeepaliveNext
<1> QED
  BY <1>4, <1>5 DEF v

LEMMA OpenFirstOlder ==
  ASSUME NEW w \in Seq(Pieces), \A i \in DOMAIN w : w[i].age < MaxDelay,
         OpenFirst(w)
  PROVE  OpenFirst(Older(w)) /\ (KeepaliveNext(w) => KeepaliveNext(Older(w)))
<1> DEFINE v == Older(w)
<1>1. /\ v \in Seq(Pieces) /\ Len(v) = Len(w) /\ Len(w) \in Nat
      /\ \A i \in 1..Len(w) : v[i].msg = w[i].msg /\ v[i].part = w[i].part
  BY OlderFacts
<1>2. w # <<>>
  BY DEF OpenFirst
<1> HIDE DEF v
<1>3. v # <<>> /\ FirstEnds(v) = FirstEnds(w)
  BY <1>1, <1>2 DEF FirstEnds
<1>4. DOMAIN v = DOMAIN w
  BY <1>1
<1>5. \A i \in DOMAIN w : v[i].msg = w[i].msg
  BY <1>1
<1> QED
  BY <1>3, <1>4, <1>5 DEF OpenFirst, KeepaliveNext, v

-----------------------------------------------------------------------------
(* Nothing ends an undisturbed session.                                    *)

LEMMA DelayFacts ==
  ASSUME DelayAllowed
  PROVE  /\ MaxDelay \in Nat /\ Hold \in Nat /\ KeepaliveInterval \in Nat
         /\ Silence \in Nat /\ Silence <= KeepaliveInterval
         /\ Hold > KeepaliveInterval + MaxDelay
         /\ Hold > Silence + 2 * MaxDelay /\ Hold > 2 * MaxDelay
BY HoldFacts, Bounds DEF DelayAllowed, Silence

LEMMA SessionNumbers ==
  ASSUME SessionInv
  PROVE  /\ ka_left \in Nat /\ ka_left <= KeepaliveInterval
         /\ hold_left \in Nat /\ hold_left <= Hold
         /\ r_hold \in Nat /\ r_hold_left \in Nat /\ r_ka_left \in Nat
         /\ rhold \in Nat /\ troubles \in Nat
         /\ toLocal \in Seq(Pieces) /\ toRemote \in Seq(Pieces)
<1>1. /\ TimerTypes /\ RemoteTypes /\ RemoteTimerTypes
      /\ toLocal \in Seq(Pieces) /\ toRemote \in Seq(Pieces)
      /\ troubles \in Nat
  BY DEF SessionInv, SessionTypes
<1>2. ka_left \in Nat /\ ka_left <= KeepaliveInterval
  BY <1>1, HoldFacts DEF TimerTypes
<1>3. hold_left \in Nat /\ hold_left <= Hold
  BY <1>1, HoldFacts DEF TimerTypes
<1>4. /\ rhold \in Nat /\ r_hold \in Nat
      /\ r_hold_left \in 0..r_hold /\ r_ka_left \in 0..r_hold
  BY <1>1, RemoteNumbers
<1> QED
  BY <1>1, <1>2, <1>3, <1>4

LEMMA FirstPiece ==
  ASSUME NEW w \in Seq(Pieces), w # <<>>
  PROVE  /\ 1 \in DOMAIN w /\ Head(w) = w[1]
         /\ w[1].age \in Nat /\ w[1].age <= MaxDelay
         /\ w[1].part \in {"whole", "head", "tail"}
<1>1. 1 \in DOMAIN w /\ Head(w) = w[1] /\ w[1] \in Pieces
  OBVIOUS
<1> QED
  BY <1>1, PieceFields

\* In an undisturbed session the remote is where the task expects it.
LEMMA Phases ==
  ASSUME SessionInv, Alive
  PROVE  /\ pc \in {"connect", "connecting"} => rstate = "listening"
         /\ pc \in HandshakePc => Confirmed \/ rstate = "open_sent"
         /\ pc \in EstablishedPc => Confirmed
         /\ Confirmed => pc \in HandshakePc \union EstablishedPc
         /\ pc \in {"connect", "connecting"} \union HandshakePc \union EstablishedPc
BY DEF SessionInv, SessionTypes, TaskTypes, RemoteTypes, RemoteFollowsTask,
       Alive, Confirmed, HandshakePc, EstablishedPc

\* Before the remote confirms, what it sent and the task has not read is its
\* OPEN.
LEMMA OnlyOpen ==
  ASSUME SessionInv, GoesOn, rstate = "open_sent"
  PROVE  /\ pc = "await_keepalive" => toLocal = <<>>
         /\ pc = "await_open" => /\ toLocal # <<>>
                                 /\ Len(toLocal) = FirstEnds(toLocal)
<1>1. toLocal \in Seq(Pieces) /\ \A i \in DOMAIN toLocal : toLocal[i].msg = "open"
  BY DEF SessionInv, SessionTypes, RemoteFollowsTask
<1>2. pc = "await_keepalive" => toLocal = <<>>
  <2> SUFFICES ASSUME pc = "await_keepalive", toLocal # <<>> PROVE FALSE
    OBVIOUS
  <2> QED
    BY <1>1, FirstPiece DEF GoesOn, InOrder
<1>3. ASSUME pc = "await_open"
      PROVE  toLocal # <<>> /\ Len(toLocal) = FirstEnds(toLocal)
  <2>1. toLocal # <<>>
    BY <1>3 DEF GoesOn, InOrder, OpenFirst
  <2>2. 1 \in DOMAIN toLocal
    BY <1>1, <2>1, FirstPiece
  <2>3. FirstEnds(toLocal) \in DOMAIN toLocal
    <3>1. toLocal[1].part = "head" => 1 + 1 \in DOMAIN toLocal
      BY <2>2 DEF GoesOn, Framed
    <3> QED
      BY <2>2, <3>1 DEF FirstEnds
  <2>4. ~ (FirstEnds(toLocal) + 1 \in DOMAIN toLocal)
    <3> SUFFICES ASSUME FirstEnds(toLocal) + 1 \in DOMAIN toLocal PROVE FALSE
      OBVIOUS
    <3>1. FirstEnds(toLocal) \in Nat
      BY DEF FirstEnds
    <3>2. toLocal[FirstEnds(toLocal) + 1].msg \in {"keepalive", "update"}
      BY <1>3, <3>1 DEF GoesOn, InOrder, OpenFirst
    <3> QED
      BY <1>1, <3>2
  <2> QED
    <3>1. FirstEnds(toLocal) \in Nat
      BY DEF FirstEnds
    <3> QED
      BY <1>1, <2>1, <2>3, <2>4, <3>1
<1> QED
  BY <1>2, <1>3

LEMMA HoldsLast ==
  ASSUME DelayAllowed, SessionInv, GoesOn
  PROVE  /\ pc \in {"loop", "read"} => hold_left > 0
         /\ Confirmed => r_hold_left > 0
<1>1. /\ toLocal \in Seq(Pieces) /\ toRemote \in Seq(Pieces)
      /\ hold_left \in Nat /\ r_hold_left \in Nat /\ ka_left \in Nat
      /\ r_ka_left \in Nat
  BY SessionNumbers
<1>2. MaxDelay \in Nat /\ Silence \in Nat /\ Quiet \in Nat
  BY DelayFacts DEF Quiet
<1>3. /\ toLocal # <<>> => toLocal[1].age \in Nat /\ toLocal[1].age <= MaxDelay
      /\ toRemote # <<>> => toRemote[1].age \in Nat /\ toRemote[1].age <= MaxDelay
  BY <1>1, FirstPiece
<1>4. pc \in {"loop", "read"} => hold_left > 0
  BY <1>1, <1>2, <1>3 DEF GoesOn, LocalOutlasts
<1>5. ASSUME Confirmed PROVE r_hold_left > 0
  <2>1. CASE toRemote # <<>>
    BY <1>1, <1>2, <1>3, <1>5, <2>1 DEF GoesOn, RemoteOutlasts
  <2>2. CASE toRemote = <<>> /\ pc \in HandshakePc
    <3>1. toLocal # <<>>
      BY <1>5, <2>2 DEF GoesOn, InOrder, OpenFirst, HandshakePc
    <3>2. \/ r_hold_left + toLocal[1].age > 2 * MaxDelay
          \/ r_hold_left + toLocal[1].age > Silence + 2 * MaxDelay
      BY <1>5, <2>2 DEF GoesOn, RemoteOutlasts, HandshakePc
    <3> QED
      BY <1>1, <1>2, <1>3, <3>1, <3>2
  <2>3. CASE toRemote = <<>> /\ pc \in EstablishedPc
    <3>1. (r_hold_left > Quiet + MaxDelay) \/ (r_hold_left > ka_left + MaxDelay)
      BY <1>5, <2>3 DEF GoesOn, RemoteOutlasts, EstablishedPc
    <3> QED
      BY <1>1, <1>2, <3>1
  <2> QED
    BY <1>5, <2>1, <2>2, <2>3, Phases DEF GoesOn
<1> QED
  BY <1>4, <1>5

LEMMA NothingEnds ==
  ASSUME DelayAllowed, SessionInv, GoesOn
  PROVE  /\ ~ ReadMisframed /\ ~ ReadGarbage /\ ~ ReadEof /\ ~ WriteFails
         /\ ~ ReceiveUnexpected /\ ~ ReceiveNotification
         /\ ~ HoldTimerExpires /\ ~ RemoteHoldExpires /\ ~ Wake
<1>1. toLocal \in Seq(Pieces)
  BY SessionNumbers
<1>2. toLocal # <<>> => /\ Head(toLocal) = toLocal[1]
                        /\ 1 \in DOMAIN toLocal
                        /\ toLocal[1].part = "tail" <=> got = "head"
                        /\ got # "garbage"
  BY <1>1, FirstPiece DEF GoesOn, Framed
<1>3. ~ ReadMisframed /\ ~ ReadGarbage
  BY <1>2 DEF ReadMisframed, ReadGarbage
<1>4. ~ ReadEof /\ ~ WriteFails /\ ~ Wake
  BY DEF ReadEof, WriteFails, Wake, GoesOn, Alive
<1>5. ~ ReceiveNotification
  BY <1>2 DEF ReceiveNotification, Reads, GoesOn, InOrder
<1>6. ~ ReceiveUnexpected
  <2>1. pc = "await_open" /\ toLocal # <<>> => toLocal[1].msg = "open"
    BY <1>2 DEF GoesOn, InOrder, OpenFirst, FirstEnds
  <2>2. pc = "await_keepalive" /\ toLocal # <<>> => toLocal[1].msg = "keepalive"
    BY OnlyOpen, Phases DEF GoesOn, InOrder, OpenFirst, HandshakePc
  <2> QED
    BY <1>2, <2>1, <2>2 DEF ReceiveUnexpected, Reads
<1>7. ~ HoldTimerExpires /\ ~ RemoteHoldExpires
  <2>1. /\ pc = "loop" => hold_left # 0
        /\ rstate \in {"open_confirm", "established"} => r_hold_left # 0
    BY HoldsLast, SessionNumbers DEF Confirmed
  <2> QED
    BY <2>1 DEF HoldTimerExpires, RemoteHoldExpires
<1> QED
  BY <1>3, <1>4, <1>5, <1>6, <1>7

-----------------------------------------------------------------------------
(* Every step of an undisturbed session lets it go on.                     *)

LEMMA GoodStart ==
  ASSUME SessionInv, GoesOn, Undisturbed', StartConnect \/ SessionStarts
  PROVE  GoesOn'
<1>1. toLocal = <<>> /\ got = "none" /\ rstate = "listening"
  BY Phases
     DEF StartConnect, SessionStarts, SessionInv, RemoteFollowsTask, GoesOn
<1>2. CASE StartConnect
  <2>1. /\ toLocal' = <<>> /\ got' = "none" /\ rstate' = "listening"
        /\ pc' = "connecting" /\ last_error' = last_error
        /\ remote_expired' = remote_expired
    BY <1>1, <1>2 DEF StartConnect, remoteVars
  <2>2. Alive'
    BY <2>1 DEF GoesOn, Alive
  <2>3. Framed(toLocal', got')
    BY <2>1 DEF Framed
  <2> QED
    BY <2>1, <2>2, <2>3
    DEF GoesOn, InOrder, RemoteTimers, LocalOutlasts, RemoteOutlasts,
        Confirmed
<1>3. CASE SessionStarts
  <2>1. troubles \in Nat
    BY SessionNumbers
  <2>2. rstate' = "open_sent" /\ RemoteSends("open")
    BY <1>3, <2>1 DEF SessionStarts, Trouble, Undisturbed
  <2>3. /\ got' = "none" /\ pc' = "await_open" /\ last_error' = last_error
        /\ remote_expired' = remote_expired
    BY <1>1, <1>3 DEF SessionStarts
  <2>4. "open" \in Messages /\ <<>> \in Seq(Pieces)
    BY DEF Messages
  <2>5. Carries(<<>>, toLocal', "open") /\ toLocal' \in Seq(Pieces)
    BY <1>1, <2>2, <2>4, Sent DEF Carries
  <2>6. Framed(<<>>, "none")
    BY DEF Framed
  <2>7. Framed(toLocal', got')
    BY <2>3, <2>4, <2>5, <2>6, FramedSent
  <2>8. OpenFirst(toLocal')
    BY <2>5, OpenFirstStart
  <2>9. Alive'
    BY <2>2, <2>3 DEF GoesOn, Alive
  <2> QED
    BY <2>2, <2>3, <2>7, <2>8, <2>9
    DEF GoesOn, InOrder, RemoteTimers, LocalOutlasts, RemoteOutlasts,
        Confirmed
<1> QED
  BY <1>2, <1>3

LEMMA GoodReadHead ==
  ASSUME SessionInv, GoesOn, ReadHead
  PROVE  GoesOn'
<1>1. toLocal \in Seq(Pieces) /\ toLocal # <<>> /\ toLocal' = Tail(toLocal)
  BY SessionNumbers DEF ReadHead
<1>2. got = "none" /\ got' = "head" /\ toLocal[1].part = "head"
  BY <1>1, FirstPiece DEF ReadHead
<1>3. Framed(toLocal, "none")
  BY <1>2 DEF GoesOn
<1>4. /\ Framed(toLocal', "head") /\ toLocal' # <<>>
      /\ toLocal'[1].msg = toLocal[1].msg /\ toLocal'[1].age = toLocal[1].age
  BY <1>1, <1>2, <1>3, FramedHead
<1>5. /\ pc' = pc /\ last_error' = last_error /\ hold_left' = hold_left
      /\ ka_left' = ka_left /\ toRemote' = toRemote /\ rstate' = rstate
      /\ remote_expired' = remote_expired /\ r_hold' = r_hold
      /\ r_hold_left' = r_hold_left /\ r_ka_left' = r_ka_left
      /\ announced' = announced
  BY DEF ReadHead, remoteVars
<1>6. Alive' /\ RemoteTimers'
  BY <1>5 DEF GoesOn, Alive, RemoteTimers, Confirmed
<1>7. InOrder'
  <2>1. OpenFirst(toLocal) =>
          OpenFirst(toLocal') /\ (KeepaliveNext(toLocal) => KeepaliveNext(toLocal'))
    BY <1>1, <1>2, <1>3, OpenFirstHead
  <2>2. \A i \in DOMAIN toLocal' : i + 1 \in DOMAIN toLocal /\ toLocal'[i] = toLocal[i + 1]
    BY <1>1, ShorterWire
  <2> QED
    BY <1>4, <1>5, <2>1, <2>2 DEF GoesOn, InOrder, Confirmed
<1>8. LocalOutlasts' /\ RemoteOutlasts'
  BY <1>1, <1>4, <1>5
  DEF GoesOn, LocalOutlasts, RemoteOutlasts, Confirmed, Quiet
<1> QED
  BY <1>2, <1>4, <1>6, <1>7, <1>8 DEF GoesOn

\* A message is read to its end.
LEMMA GoodRead ==
  ASSUME SessionInv, GoesOn, NEW m, Reads(m), toLocal' = Tail(toLocal), got' =
         "none"
  PROVE  /\ toLocal \in Seq(Pieces) /\ toLocal # <<>> /\ toLocal' \in Seq(Pieces)
         /\ toLocal[1].part # "head" /\ toLocal[1].msg = m
         /\ toLocal[1].age \in Nat /\ toLocal[1].age <= MaxDelay
         /\ Framed(toLocal', got')
         /\ \A i \in DOMAIN toLocal' :
              i + 1 \in DOMAIN toLocal /\ toLocal'[i] = toLocal[i + 1]
<1>1. toLocal \in Seq(Pieces) /\ toLocal # <<>>
  BY SessionNumbers DEF Reads
<1>2. /\ Head(toLocal) = toLocal[1]
      /\ toLocal[1].age \in Nat /\ toLocal[1].age <= MaxDelay
  BY <1>1, FirstPiece
<1>3. /\ toLocal[1].msg = m
      /\ \/ got = "none" /\ toLocal[1].part = "whole"
         \/ got = "head" /\ toLocal[1].part = "tail"
  BY <1>2 DEF Reads
<1>4. Framed(toLocal, got)
  BY DEF GoesOn
<1>5. Framed(Tail(toLocal), "none")
  BY <1>1, <1>3, <1>4, FramedRead
<1> QED
  BY <1>1, <1>2, <1>3, <1>5, ShorterWire

LEMMA GoodReceiveOpen ==
  ASSUME DelayAllowed, SessionInv, GoesOn, ReceiveOpen
  PROVE  GoesOn'
<1>1. /\ Reads("open") /\ toLocal' = Tail(toLocal) /\ got' = "none"
      /\ pc = "await_open" /\ pc' = "await_keepalive"
      /\ last_error' = last_error /\ rstate' = rstate
      /\ remote_expired' = remote_expired /\ r_hold' = r_hold
      /\ r_hold_left' = r_hold_left /\ r_ka_left' = r_ka_left
  BY DEF ReceiveOpen, remoteVars
<1>2. /\ toLocal \in Seq(Pieces) /\ toLocal # <<>> /\ toLocal[1].part # "head"
      /\ toLocal[1].age \in Nat /\ toLocal[1].age <= MaxDelay
      /\ Framed(toLocal', got')
  BY <1>1, GoodRead
<1>3. Longer(toRemote, toRemote')
  BY TaskWrites
<1>4. Alive' /\ RemoteTimers' /\ LocalOutlasts'
  BY <1>1 DEF GoesOn, Alive, RemoteTimers, LocalOutlasts, Confirmed
<1>5. InOrder'
  <2>1. OpenFirst(toLocal) /\ (Confirmed => KeepaliveNext(toLocal))
    BY <1>1 DEF GoesOn, InOrder
  <2>2. /\ \A i \in DOMAIN toLocal' : toLocal'[i].msg \in {"keepalive", "update"}
        /\ Confirmed => toLocal' # <<>> /\ toLocal'[1].msg = "keepalive"
    BY <1>1, <1>2, <2>1, OpenFirstRead
  <2> QED
    BY <1>1, <2>2 DEF InOrder, Confirmed
<1>6. RemoteOutlasts'
  <2>1. r_hold_left \in Nat /\ MaxDelay \in Nat
    BY SessionNumbers, DelayFacts
  <2>2. toRemote' # <<>>
    BY <1>3 DEF Longer
  <2>3. Confirmed /\ toRemote # <<>> => r_hold_left + toRemote'[1].age > MaxDelay
    BY <1>3 DEF GoesOn, RemoteOutlasts, Longer
  <2>4. Confirmed /\ toRemote = <<>> => r_hold_left + toLocal[1].age > 2 * MaxDelay
    BY <1>1 DEF GoesOn, RemoteOutlasts
  <2>5. toRemote = <<>> => toRemote'[1].age = 0
    BY <1>3 DEF Longer
  <2>6. Confirmed => r_hold_left + toRemote'[1].age > MaxDelay
    BY <1>2, <2>1, <2>3, <2>4, <2>5
  <2> QED
    BY <1>1, <2>2, <2>6 DEF RemoteOutlasts, Confirmed
<1> QED
  BY <1>2, <1>4, <1>5, <1>6 DEF GoesOn

LEMMA GoodReceiveKeepalive ==
  ASSUME DelayAllowed, SessionInv, GoesOn, ReceiveKeepalive
  PROVE  GoesOn'
<1>1. /\ Reads("keepalive") /\ toLocal' = Tail(toLocal) /\ got' = "none"
      /\ pc = "await_keepalive" /\ pc' = "announce"
      /\ last_error' = "none" /\ rstate' = rstate /\ toRemote' = toRemote
      /\ remote_expired' = remote_expired /\ r_hold' = r_hold
      /\ r_hold_left' = r_hold_left /\ r_ka_left' = r_ka_left
  BY DEF ReceiveKeepalive, remoteVars
<1>2. /\ toLocal \in Seq(Pieces) /\ toLocal # <<>>
      /\ toLocal[1].age \in Nat /\ toLocal[1].age <= MaxDelay
      /\ Framed(toLocal', got')
      /\ \A i \in DOMAIN toLocal' :
           i + 1 \in DOMAIN toLocal /\ toLocal'[i] = toLocal[i + 1]
  BY <1>1, GoodRead
<1>3. Alive' /\ RemoteTimers' /\ LocalOutlasts'
  BY <1>1 DEF GoesOn, Alive, RemoteTimers, LocalOutlasts, Confirmed
<1>4. InOrder'
  BY <1>1, <1>2 DEF GoesOn, InOrder
<1>5. RemoteOutlasts'
  <2>1. r_hold_left \in Nat /\ MaxDelay \in Nat /\ Silence \in Nat
    BY SessionNumbers, DelayFacts
  <2>2. Confirmed /\ toRemote = <<>> => r_hold_left > Silence + MaxDelay
    BY <1>1, <1>2, <2>1 DEF GoesOn, RemoteOutlasts
  <2>3. Quiet' = Silence
    BY Bounds
    DEF ReceiveKeepalive, SessionInv, StateFollowsTask, Quiet, Silence
  <2> QED
    BY <1>1, <2>2, <2>3 DEF GoesOn, RemoteOutlasts, Confirmed
<1> QED
  BY <1>2, <1>3, <1>4, <1>5 DEF GoesOn

\* A full hold time outlasts whatever the wire still has to bring.
LEMMA FullHold ==
  ASSUME DelayAllowed, NEW w \in Seq(Pieces), NEW k \in Nat,
         k <= KeepaliveInterval
  PROVE  /\ w # <<>> => Hold + w[1].age > MaxDelay
         /\ Hold > k + MaxDelay
<1>1. w # <<>> => w[1].age \in Nat
  BY FirstPiece
<1> QED
  BY <1>1, DelayFacts

LEMMA GoodSendAnnouncement ==
  ASSUME DelayAllowed, SessionInv, GoesOn, SendAnnouncement
  PROVE  GoesOn'
<1>1. /\ pc = "announce" /\ pc' = "announce" /\ toLocal' = toLocal
      /\ got' = got /\ announced # NumPrefixes
      /\ last_error' = last_error /\ rstate' = rstate
      /\ remote_expired' = remote_expired /\ r_hold' = r_hold
      /\ r_hold_left' = r_hold_left /\ r_ka_left' = r_ka_left
  BY Bounds
     DEF SendAnnouncement, remoteVars, SessionInv, SessionTypes, TimerTypes
<1>2. Longer(toRemote, toRemote')
  BY TaskWrites
<1>3. Confirmed
  BY <1>1, Phases DEF GoesOn, EstablishedPc
<1>4. /\ Alive' /\ RemoteTimers' /\ InOrder' /\ Framed(toLocal', got')
      /\ LocalOutlasts'
  BY <1>1 DEF GoesOn, Alive, RemoteTimers, InOrder, LocalOutlasts, Confirmed
<1>5. RemoteOutlasts'
  <2>1. r_hold_left \in Nat /\ MaxDelay \in Nat
    BY SessionNumbers, DelayFacts
  <2>2. toRemote # <<>> => r_hold_left + toRemote'[1].age > MaxDelay
    BY <1>2, <1>3 DEF GoesOn, RemoteOutlasts, Longer
  <2>3. toRemote = <<>> => r_hold_left > 0 + MaxDelay /\ toRemote'[1].age = 0
    BY <1>1, <1>2, <1>3 DEF GoesOn, RemoteOutlasts, Longer, Quiet
  <2>4. r_hold_left + toRemote'[1].age > MaxDelay
    BY <2>1, <2>2, <2>3
  <2> QED
    BY <1>1, <1>2, <2>4 DEF RemoteOutlasts, Longer
<1> QED
  BY <1>4, <1>5 DEF GoesOn

LEMMA GoodStartTimers ==
  ASSUME DelayAllowed, SessionInv, GoesOn, StartTimers
  PROVE  GoesOn'
<1>1. /\ pc = "announce" /\ pc' = "loop" /\ toLocal' = toLocal /\ got' = got
      /\ ka_left' = KeepaliveInterval /\ hold_left' = Hold
      /\ announced = NumPrefixes /\ toRemote' = toRemote
      /\ last_error' = last_error /\ rstate' = rstate
      /\ remote_expired' = remote_expired /\ r_hold' = r_hold
      /\ r_hold_left' = r_hold_left /\ r_ka_left' = r_ka_left
  BY DEF StartTimers, remoteVars
<1>2. Confirmed
  BY <1>1, Phases DEF GoesOn, EstablishedPc
<1>3. Alive' /\ RemoteTimers' /\ InOrder' /\ Framed(toLocal', got')
  BY <1>1 DEF GoesOn, Alive, RemoteTimers, InOrder, Confirmed
<1>4. LocalOutlasts'
  <2>1. /\ toLocal \in Seq(Pieces) /\ r_ka_left \in Nat
        /\ r_ka_left <= KeepaliveInterval
    BY <1>2, SessionNumbers DEF GoesOn, RemoteTimers
  <2> QED
    BY <1>1, <2>1, FullHold DEF LocalOutlasts
<1>5. RemoteOutlasts'
  BY <1>1, <1>2 DEF GoesOn, RemoteOutlasts, Quiet
<1> QED
  BY <1>3, <1>4, <1>5 DEF GoesOn

LEMMA GoodCheckTimers ==
  ASSUME DelayAllowed, SessionInv, GoesOn, CheckTimers
  PROVE  GoesOn'
<1>1. /\ pc = "loop" /\ pc' = "read" /\ toLocal' = toLocal /\ got' = got
      /\ hold_left' = hold_left /\ last_error' = last_error /\ rstate' = rstate
      /\ remote_expired' = remote_expired /\ r_hold' = r_hold
      /\ r_hold_left' = r_hold_left /\ r_ka_left' = r_ka_left
  BY DEF CheckTimers, remoteVars
<1>2. \/ /\ ka_left = 0 /\ ka_left' = KeepaliveInterval
         /\ Longer(toRemote, toRemote')
      \/ ka_left > 0 /\ ka_left' = ka_left /\ toRemote' = toRemote
  BY TaskWrites
<1>3. /\ Alive' /\ RemoteTimers' /\ InOrder' /\ Framed(toLocal', got')
      /\ LocalOutlasts'
  BY <1>1 DEF GoesOn, Alive, RemoteTimers, InOrder, LocalOutlasts, Confirmed
<1>4. RemoteOutlasts'
  <2>1. r_hold_left \in Nat /\ MaxDelay \in Nat
    BY SessionNumbers, DelayFacts
  <2>2. CASE ka_left > 0 /\ ka_left' = ka_left /\ toRemote' = toRemote
    BY <1>1, <2>2 DEF GoesOn, RemoteOutlasts, Confirmed
  <2>3. CASE ka_left = 0 /\ Longer(toRemote, toRemote')
    <3>1. toRemote' # <<>>
      BY <2>3 DEF Longer
    <3>2. Confirmed /\ toRemote # <<>> => r_hold_left + toRemote'[1].age > MaxDelay
      BY <2>3 DEF GoesOn, RemoteOutlasts, Longer
    <3>3. Confirmed /\ toRemote = <<>> => r_hold_left > 0 + MaxDelay
      BY <1>1, <2>3 DEF GoesOn, RemoteOutlasts
    <3>4. toRemote = <<>> => toRemote'[1].age = 0
      BY <2>3 DEF Longer
    <3>5. Confirmed => r_hold_left + toRemote'[1].age > MaxDelay
      BY <2>1, <3>2, <3>3, <3>4
    <3> QED
      BY <1>1, <3>1, <3>5 DEF RemoteOutlasts, Confirmed
  <2> QED
    BY <1>2, <2>2, <2>3
<1> QED
  BY <1>3, <1>4 DEF GoesOn

LEMMA GoodReceiveInLoop ==
  ASSUME DelayAllowed, SessionInv, GoesOn, ReceiveInLoop
  PROVE  GoesOn'
<1>1. /\ toLocal' = Tail(toLocal) /\ got' = "none"
      /\ pc = "read" /\ pc' = "loop" /\ hold_left' = Hold /\ ka_left' = ka_left
      /\ last_error' = last_error /\ rstate' = rstate /\ toRemote' = toRemote
      /\ remote_expired' = remote_expired /\ r_hold' = r_hold
      /\ r_hold_left' = r_hold_left /\ r_ka_left' = r_ka_left
      /\ \E m \in {"keepalive", "update", "open"} : Reads(m)
  BY DEF ReceiveInLoop, remoteVars
<1>2. /\ toLocal' \in Seq(Pieces) /\ Framed(toLocal', got')
      /\ \A i \in DOMAIN toLocal' :
           i + 1 \in DOMAIN toLocal /\ toLocal'[i] = toLocal[i + 1]
  BY <1>1, GoodRead
<1>3. Confirmed
  BY <1>1, Phases DEF GoesOn, EstablishedPc
<1>4. Alive' /\ RemoteTimers'
  BY <1>1 DEF GoesOn, Alive, RemoteTimers, Confirmed
<1>5. InOrder'
  BY <1>1, <1>2 DEF GoesOn, InOrder
<1>6. LocalOutlasts'
  <2>1. r_ka_left \in Nat /\ r_ka_left <= KeepaliveInterval
    BY <1>3, SessionNumbers DEF GoesOn, RemoteTimers
  <2> QED
    BY <1>1, <1>2, <2>1, FullHold DEF LocalOutlasts
<1>7. RemoteOutlasts'
  BY <1>1, <1>3 DEF GoesOn, RemoteOutlasts
<1> QED
  BY <1>2, <1>4, <1>5, <1>6, <1>7 DEF GoesOn

LEMMA GoodReadTimeout ==
  ASSUME SessionInv, GoesOn, ReadTimeout, Undisturbed'
  PROVE  GoesOn'
<1>1. /\ pc = "read" /\ pc' = "loop" /\ got' = "none"
      /\ toLocal' = toLocal /\ toRemote' = toRemote
      /\ hold_left' = hold_left /\ ka_left' = ka_left
      /\ last_error' = last_error /\ rstate' = rstate
      /\ remote_expired' = remote_expired /\ r_hold' = r_hold
      /\ r_hold_left' = r_hold_left /\ r_ka_left' = r_ka_left
      /\ got = "none"
  BY DEF ReadTimeout, DropsRead, Undisturbed
<1>2. Alive' /\ RemoteTimers' /\ InOrder' /\ Framed(toLocal', got')
  BY <1>1 DEF GoesOn, Alive, RemoteTimers, InOrder, Confirmed
<1>3. LocalOutlasts' /\ RemoteOutlasts'
  BY <1>1 DEF GoesOn, LocalOutlasts, RemoteOutlasts, Confirmed
<1> QED
  BY <1>2, <1>3 DEF GoesOn

\* The remote sends a message of the established session.
LEMMA GoodRemoteSends ==
  ASSUME DelayAllowed, SessionInv, GoesOn, RemoteKeepalive \/ RemoteUpdate
  PROVE  GoesOn'
<1>1. /\ pc' = pc /\ got' = got /\ hold_left' = hold_left /\ ka_left' = ka_left
      /\ last_error' = last_error /\ rstate' = rstate /\ toRemote' = toRemote
      /\ remote_expired' = remote_expired /\ r_hold' = r_hold
      /\ r_hold_left' = r_hold_left /\ announced' = announced
  BY DEF RemoteKeepalive, RemoteUpdate, localVars, remoteVars
<1>2. Confirmed
  BY DEF RemoteKeepalive, RemoteUpdate, Confirmed
<1>3. PICK m \in {"keepalive", "update"} : RemoteSends(m)
  BY DEF RemoteKeepalive, RemoteUpdate
<1>4. m \in Messages /\ toLocal \in Seq(Pieces)
  BY SessionNumbers DEF Messages
<1>5. Carries(toLocal, toLocal', m)
  BY <1>3, <1>4, Sent
<1>6. toLocal' \in Seq(Pieces)
  BY <1>5 DEF Carries
<1>7. Framed(toLocal', got')
  BY <1>1, <1>4, <1>5, <1>6, FramedSent DEF GoesOn
<1>8. r_hold = Hold /\ r_ka_left <= KeepaliveInterval
  BY <1>2 DEF GoesOn, RemoteTimers
<1>9. Alive' /\ RemoteTimers'
  <2>1. RemoteKeepaliveInterval = KeepaliveInterval
    BY <1>8 DEF RemoteKeepaliveInterval, KeepaliveInterval
  <2>2. (r_ka_left' = KeepaliveInterval) \/ (r_ka_left' = r_ka_left)
    BY <2>1 DEF RemoteKeepalive, RemoteUpdate, remoteVars
  <2>3. r_ka_left' <= KeepaliveInterval
    BY <1>8, <2>2, HoldFacts
  <2> QED
    BY <1>1, <1>8, <2>3 DEF GoesOn, Alive, RemoteTimers
<1>10. /\ Len(toLocal) \in Nat
       /\ \A i \in 1..Len(toLocal) : toLocal'[i] = toLocal[i]
       /\ \A i \in DOMAIN toLocal' : i \in DOMAIN toLocal \/ toLocal'[i].msg = m
       /\ toLocal' # <<>>
       /\ toLocal = <<>> => toLocal'[1].age = 0
  BY <1>4, <1>5, <1>6 DEF Carries
<1>11. toLocal # <<>> => toLocal'[1] = toLocal[1]
  BY <1>4, <1>10
<1>12. InOrder'
  <2>1. pc = "await_open" => OpenFirst(toLocal') /\ KeepaliveNext(toLocal')
    BY <1>2, <1>4, <1>5, <1>6, OpenFirstSent DEF GoesOn, InOrder
  <2>2. pc # "await_open" =>
          \A i \in DOMAIN toLocal' : toLocal'[i].msg \in {"keepalive", "update"}
    BY <1>4, <1>10 DEF GoesOn, InOrder
  <2>3. pc = "await_keepalive" => toLocal' # <<>> /\ toLocal'[1].msg = "keepalive"
    BY <1>2, <1>10, <1>11 DEF GoesOn, InOrder
  <2> QED
    BY <1>1, <2>1, <2>2, <2>3 DEF InOrder
<1>13. LocalOutlasts'
  <2>1. hold_left \in Nat /\ r_ka_left \in Nat /\ MaxDelay \in Nat
    BY SessionNumbers, DelayFacts
  <2>2. pc \in {"loop", "read"} /\ toLocal = <<>> => hold_left + 0 > MaxDelay
    BY <2>1 DEF GoesOn, LocalOutlasts
  <2> QED
    BY <1>1, <1>10, <1>11, <2>2 DEF GoesOn, LocalOutlasts
<1>14. RemoteOutlasts'
  <2>1. pc \in HandshakePc => toLocal'[1] = toLocal[1]
    BY <1>2, <1>11 DEF GoesOn, InOrder, OpenFirst, HandshakePc
  <2> QED
    BY <1>1, <1>2, <2>1 DEF GoesOn, RemoteOutlasts, HandshakePc, Quiet
<1> QED
  BY <1>7, <1>9, <1>12, <1>13, <1>14 DEF GoesOn

\* After a reset of the remote's hold timer.
LEMMA RemoteReset ==
  ASSUME DelayAllowed, SessionInv, SessionInv',
         r_hold_left' = Hold, pc' = pc, ka_left' = ka_left,
         pc \in HandshakePc => toLocal' # <<>>
  PROVE  RemoteOutlasts'
<1>1. toLocal' \in Seq(Pieces) /\ toRemote' \in Seq(Pieces)
  BY DEF SessionInv, SessionTypes
<1>2. /\ toLocal' # <<>> => toLocal'[1].age \in Nat
      /\ toRemote' # <<>> => toRemote'[1].age \in Nat
  BY <1>1, FirstPiece
<1>3. ka_left \in Nat /\ ka_left <= KeepaliveInterval
  BY SessionNumbers
<1>4. toRemote' # <<>> => Hold + toRemote'[1].age > MaxDelay
  BY <1>2, DelayFacts
<1>5. pc \in HandshakePc => /\ Hold + toLocal'[1].age > 2 * MaxDelay
                            /\ Hold + toLocal'[1].age > Silence + 2 * MaxDelay
  BY <1>2, DelayFacts
<1>6. Hold > Quiet' + MaxDelay /\ Hold > ka_left + MaxDelay
  BY <1>3, DelayFacts DEF Quiet
<1> QED
  BY <1>4, <1>5, <1>6 DEF RemoteOutlasts, HandshakePc, Silence

LEMMA GoodRemoteReceives ==
  ASSUME DelayAllowed, SessionInv, SessionInv', GoesOn, Undisturbed,
         RemoteReceives
  PROVE  GoesOn'
<1>1. /\ pc' = pc /\ got' = got /\ hold_left' = hold_left /\ ka_left' = ka_left
      /\ last_error' = last_error /\ remote_expired' = remote_expired
  BY DEF RemoteReceives, localVars
<1>2. toLocal \in Seq(Pieces) /\ toLocal' \in Seq(Pieces)
  BY DEF SessionInv, SessionTypes
<1>3. CASE Confirmed
  <2>1. /\ rstate' = "established" /\ r_hold_left' = r_hold /\ r_hold' = r_hold
        /\ r_ka_left' = r_ka_left /\ toLocal' = toLocal
    BY <1>3 DEF RemoteReceives, Confirmed
  <2>2. r_hold = Hold
    BY <1>3 DEF GoesOn, RemoteTimers
  <2>3. Alive' /\ RemoteTimers' /\ InOrder' /\ Framed(toLocal', got')
    BY <1>1, <1>3, <2>1 DEF GoesOn, Alive, RemoteTimers, InOrder
  <2>4. LocalOutlasts'
    BY <1>1, <2>1 DEF GoesOn, LocalOutlasts
  <2>5. pc \in HandshakePc => toLocal' # <<>>
    BY <1>3, <2>1 DEF GoesOn, InOrder, OpenFirst, HandshakePc
  <2>6. RemoteOutlasts'
    BY <1>1, <2>1, <2>2, <2>5, RemoteReset
  <2> QED
    BY <2>3, <2>4, <2>6 DEF GoesOn
<1>4. CASE rstate = "open_sent"
  <2>1. /\ rstate' = "open_confirm" /\ RemoteSends("keepalive")
        /\ r_hold' = MinOf(Hold, rhold) /\ r_hold_left' = MinOf(Hold, rhold)
        /\ r_ka_left' = IF MinOf(Hold, rhold) = 0 THEN 0
                        ELSE MaxOf(MinOf(Hold, rhold) \div 3, 1)
    BY <1>4 DEF RemoteReceives
  <2>2. MinOf(Hold, rhold) = Hold
    BY SessionNumbers, HoldFacts DEF Undisturbed, MinOf
  <2>3. r_hold' = Hold /\ r_hold_left' = Hold /\ r_ka_left' = KeepaliveInterval
    BY <2>1, <2>2, HoldFacts DEF KeepaliveInterval
  <2>4. "keepalive" \in Messages
    BY DEF Messages
  <2>5. Carries(toLocal, toLocal', "keepalive")
    BY <1>2, <2>1, <2>4, Sent
  <2>6. Framed(toLocal', got')
    BY <1>1, <1>2, <2>5, FramedSent DEF GoesOn
  <2>7. Alive' /\ RemoteTimers'
    BY <1>1, <2>1, <2>3, HoldFacts DEF GoesOn, Alive, RemoteTimers
  <2>8. pc \in HandshakePc
    BY <1>4 DEF SessionInv, RemoteFollowsTask
  <2>9. toLocal' # <<>>
    BY <1>2, <2>5 DEF Carries
  <2>10. InOrder'
    <3>1. CASE pc = "await_open"
      <4>1. OpenFirst(toLocal) /\ Len(toLocal) = FirstEnds(toLocal)
        BY <1>4, <3>1, OnlyOpen DEF GoesOn, InOrder
      <4>2. OpenFirst(toLocal') /\ KeepaliveNext(toLocal')
        BY <1>2, <2>5, <4>1, OpenFirstSent DEF GoesOn
      <4> QED
        BY <1>1, <3>1, <4>2 DEF InOrder
    <3>2. CASE pc = "await_keepalive"
      <4>1. toLocal = <<>>
        BY <1>4, <3>2, OnlyOpen
      <4>2. \A i \in DOMAIN toLocal' : toLocal'[i].msg = "keepalive"
        BY <1>2, <2>5, <4>1 DEF Carries
      <4>3. 1 \in DOMAIN toLocal'
        BY <1>2, <2>9
      <4> QED
        BY <1>1, <2>9, <3>2, <4>2, <4>3 DEF InOrder
    <3> QED
      BY <2>8, <3>1, <3>2 DEF HandshakePc
  <2>11. LocalOutlasts'
    BY <1>1, <2>8 DEF LocalOutlasts, HandshakePc
  <2>12. RemoteOutlasts'
    BY <1>1, <2>3, <2>9, RemoteReset
  <2> QED
    BY <2>6, <2>7, <2>10, <2>11, <2>12 DEF GoesOn
<1> QED
  BY <1>3, <1>4 DEF RemoteReceives, Confirmed

LEMMA OlderWire ==
  ASSUME NEW w \in Seq(Pieces), \A i \in DOMAIN w : w[i].age < MaxDelay
  PROVE  /\ Older(w) = <<>> <=> w = <<>>
         /\ w # <<>> => /\ w[1].age \in Nat
                        /\ Older(w)[1].age = w[1].age + 1
                        /\ Older(w)[1].msg = w[1].msg
         /\ \A i \in DOMAIN Older(w) :
              i \in DOMAIN w /\ Older(w)[i].msg = w[i].msg
<1>1. /\ Older(w) \in Seq(Pieces) /\ Len(Older(w)) = Len(w)
      /\ Older(w) = <<>> <=> w = <<>>
  BY OlderFacts
<1>2. \A i \in 1..Len(w) : /\ Older(w)[i].msg = w[i].msg
                           /\ Older(w)[i].age = w[i].age + 1
  BY OlderFacts
<1>3. DOMAIN Older(w) = 1..Len(w)
  BY DEF Older
<1>4. w # <<>> => w[1].age \in Nat /\ 1 \in 1..Len(w)
  BY FirstPiece
<1> QED
  BY <1>1, <1>2, <1>3, <1>4

\* A second passes: every timer and every age moves by one.
LEMMA GoodTick ==
  ASSUME DelayAllowed, SessionInv, KeepaliveInTime, GoesOn, Tick
  PROVE  GoesOn'
<1>1. /\ pc' = pc /\ got' = got /\ last_error' = last_error /\ rstate' = rstate
      /\ remote_expired' = remote_expired /\ r_hold' = r_hold
      /\ pc \notin {"announce", "loop"}
      /\ pc = "read" => /\ ~ expired /\ ka_left' = Less(ka_left)
                        /\ hold_left' = Less(hold_left)
  BY DEF Tick, LocalWaits, Blocked, CanWrite, GoesOn, Alive
<1>2. /\ toLocal \in Seq(Pieces) /\ toRemote \in Seq(Pieces)
      /\ hold_left \in Nat /\ ka_left \in Nat
      /\ r_hold_left \in Nat /\ r_ka_left \in Nat
  BY SessionNumbers
<1>3. MaxDelay \in Nat /\ Silence \in Nat /\ Hold \in Nat /\ Hold >= 3
  BY DelayFacts, HoldFacts
<1>4. /\ toLocal' = Older(toLocal)
      /\ \A i \in DOMAIN toLocal : toLocal[i].age < MaxDelay
      /\ toRemote' = Older(toRemote)
      /\ \A i \in DOMAIN toRemote : toRemote[i].age < MaxDelay
  BY TickWires DEF GoesOn, Alive
<1>5. /\ toLocal' = <<>> <=> toLocal = <<>>
      /\ toLocal # <<>> => /\ toLocal[1].age \in Nat
                           /\ toLocal'[1].age = toLocal[1].age + 1
                           /\ toLocal'[1].msg = toLocal[1].msg
      /\ \A i \in DOMAIN toLocal' :
           i \in DOMAIN toLocal /\ toLocal'[i].msg = toLocal[i].msg
  BY <1>2, <1>4, OlderWire
<1>6. /\ toRemote' = <<>> <=> toRemote = <<>>
      /\ toRemote # <<>> => /\ toRemote[1].age \in Nat
                            /\ toRemote'[1].age = toRemote[1].age + 1
  BY <1>2, <1>4, OlderWire
<1>7. Framed(toLocal', got')
  BY <1>1, <1>2, <1>4, FramedOlder DEF GoesOn
<1>8. pc = "read" => /\ ka_left > 0 /\ hold_left > 0
                     /\ ka_left' = ka_left - 1 /\ hold_left' = hold_left - 1
  BY <1>1, <1>2, HoldsLast, LessFacts DEF KeepaliveInTime
<1>9. Confirmed => /\ r_hold_left > 0 /\ r_ka_left > 0
                   /\ r_hold_left' = r_hold_left - 1
                   /\ r_ka_left' = r_ka_left - 1
  <2> SUFFICES ASSUME Confirmed
               PROVE  /\ r_hold_left > 0 /\ r_ka_left > 0
                      /\ r_hold_left' = r_hold_left - 1
                      /\ r_ka_left' = r_ka_left - 1
    OBVIOUS
  <2>1. r_hold = Hold
    BY DEF GoesOn, RemoteTimers
  <2>2. r_hold_left > 0 /\ r_ka_left > 0
    BY <1>3, <2>1 DEF Tick, RemoteWaits, Connected, Confirmed
  <2>3. r_hold_left' = Less(r_hold_left) /\ r_ka_left' = Less(r_ka_left)
    BY DEF Tick, Confirmed
  <2> QED
    BY <1>2, <2>2, <2>3, LessFacts
<1>10. Alive'
  BY <1>1 DEF GoesOn, Alive
<1>11. RemoteTimers'
  BY <1>1, <1>2, <1>9, HoldFacts DEF GoesOn, RemoteTimers, Confirmed
<1>12. InOrder'
  <2>1. OpenFirst(toLocal) =>
          OpenFirst(toLocal') /\ (KeepaliveNext(toLocal) => KeepaliveNext(toLocal'))
    BY <1>2, <1>4, OpenFirstOlder
  <2> QED
    BY <1>1, <1>5, <2>1 DEF GoesOn, InOrder, Confirmed
<1>13. LocalOutlasts'
  <2> SUFFICES ASSUME pc = "read"
               PROVE  /\ toLocal # <<>> => hold_left' + toLocal'[1].age > MaxDelay
                      /\ toLocal = <<>> => hold_left' > r_ka_left' + MaxDelay
    BY <1>1, <1>5 DEF LocalOutlasts
  <2>1. Confirmed
    BY Phases DEF GoesOn, EstablishedPc
  <2>2. /\ toLocal # <<>> => hold_left + toLocal[1].age > MaxDelay
        /\ toLocal = <<>> => hold_left > r_ka_left + MaxDelay
    BY DEF GoesOn, LocalOutlasts
  <2> QED
    BY <1>2, <1>3, <1>5, <1>8, <1>9, <2>1, <2>2
<1>14. RemoteOutlasts'
  <2> SUFFICES ASSUME Confirmed
               PROVE  RemoteOutlasts'
    BY <1>1 DEF RemoteOutlasts, Confirmed
  <2>1. toRemote # <<>> => r_hold_left' + toRemote'[1].age > MaxDelay
    <3>1. toRemote # <<>> => r_hold_left + toRemote[1].age > MaxDelay
      BY DEF GoesOn, RemoteOutlasts
    <3> QED
      BY <1>2, <1>3, <1>6, <1>9, <3>1
  <2>2. pc \in HandshakePc => toLocal # <<>>
    BY DEF GoesOn, InOrder, OpenFirst, HandshakePc
  <2>3. toRemote = <<>> /\ pc = "await_open" =>
          r_hold_left' + toLocal'[1].age > 2 * MaxDelay
    <3>1. toRemote = <<>> /\ pc = "await_open" =>
            r_hold_left + toLocal[1].age > 2 * MaxDelay
      BY DEF GoesOn, RemoteOutlasts
    <3> QED
      BY <1>2, <1>3, <1>5, <1>9, <2>2, <3>1 DEF HandshakePc
  <2>4. toRemote = <<>> /\ pc = "await_keepalive" =>
          r_hold_left' + toLocal'[1].age > Silence + 2 * MaxDelay
    <3>1. toRemote = <<>> /\ pc = "await_keepalive" =>
            r_hold_left + toLocal[1].age > Silence + 2 * MaxDelay
      BY DEF GoesOn, RemoteOutlasts
    <3> QED
      BY <1>2, <1>3, <1>5, <1>9, <2>2, <3>1 DEF HandshakePc
  <2>5. toRemote = <<>> /\ pc = "read" => r_hold_left' > ka_left' + MaxDelay
    <3>1. toRemote = <<>> /\ pc = "read" => r_hold_left > ka_left + MaxDelay
      BY DEF GoesOn, RemoteOutlasts
    <3> QED
      BY <1>2, <1>3, <1>8, <1>9, <3>1
  <2> QED
    BY <1>1, <1>6, <2>1, <2>3, <2>4, <2>5 DEF RemoteOutlasts, Silence
<1> QED
  BY <1>7, <1>10, <1>11, <1>12, <1>13, <1>14 DEF GoesOn

LEMMA KeepaliveInTimeStep ==
  SessionInv /\ KeepaliveInTime /\ [Next]_vars => KeepaliveInTime'
<1> SUFFICES ASSUME SessionInv, KeepaliveInTime, [Next]_vars
             PROVE  KeepaliveInTime'
  OBVIOUS
<1>1. CASE CheckTimers
  BY <1>1, HoldFacts, TaskWrites DEF KeepaliveInTime
<1>2. CASE Ends
  BY <1>2 DEF Ends, Fail, KeepaliveInTime
<1>3. CASE \/ StartConnect \/ SessionStarts \/ Wake \/ ReceiveOpen
           \/ ReceiveKeepalive \/ SendAnnouncement \/ StartTimers \/ ReceiveInLoop
           \/ ReadTimeout
  BY <1>3
  DEF StartConnect, SessionStarts, Wake, ReceiveOpen, ReceiveKeepalive,
      SendAnnouncement, StartTimers, ReceiveInLoop, ReadTimeout, KeepaliveInTime
<1>4. CASE ReadHead \/ ReadGarbage
  BY <1>4 DEF ReadHead, ReadGarbage, KeepaliveInTime
<1>5. CASE \/ RemoteReceives \/ RemoteKeepalive \/ RemoteHoldExpires
           \/ RemoteMisbehaves \/ RemoteUpdate
  BY <1>5
  DEF RemoteReceives, RemoteKeepalive, RemoteHoldExpires, RemoteMisbehaves,
      RemoteUpdate, localVars, KeepaliveInTime
<1>6. CASE Tick
  BY <1>6 DEF Tick, KeepaliveInTime
<1>7. CASE UNCHANGED vars
  BY <1>7 DEF vars, KeepaliveInTime
<1> QED
  BY <1>1, <1>2, <1>3, <1>4, <1>5, <1>6, <1>7, NextCases

\* What disturbs a session does so for good, and these steps disturb it.
LEMMA StillUndisturbed ==
  ASSUME SessionInv, [Next]_vars, Undisturbed'
  PROVE  Undisturbed /\ ~ ConnectFails /\ ~ RemoteMisbehaves
<1>1. troubles \in Nat
  BY SessionNumbers
<1>2. rhold' = rhold
  BY NextCases
  DEF Ends, Fail, StartConnect, SessionStarts, Wake, ReceiveOpen,
      ReceiveKeepalive, SendAnnouncement, StartTimers, ReceiveInLoop, ReadTimeout,
      DropsRead, CheckTimers, ReadHead, ReadGarbage, RemoteReceives,
      RemoteKeepalive, RemoteHoldExpires, RemoteMisbehaves, RemoteUpdate, Tick,
      vars, remoteVars
<1>3. cut => cut'
  BY NextCases
  DEF Ends, Fail, StartConnect, SessionStarts, Wake, ReceiveOpen,
      ReceiveKeepalive, SendAnnouncement, StartTimers, ReceiveInLoop, ReadTimeout,
      DropsRead, CheckTimers, ReadHead, ReadGarbage, RemoteReceives,
      RemoteKeepalive, RemoteHoldExpires, RemoteMisbehaves, RemoteUpdate, Tick,
      vars, remoteVars
<1>4. ~ ConnectFails /\ ~ RemoteMisbehaves
  BY <1>1 DEF ConnectFails, RemoteMisbehaves, Trouble, Undisturbed
<1>5. (troubles' = troubles) \/ (troubles' = troubles + 1)
  BY DEF Next, Local, Remote, ReadMisframed, ReadEof, ReceiveUnexpected,
      HoldTimerExpires, ReceiveNotification, WriteFails, SessionFails,
      ConnectFails, Trouble, StartConnect, SessionStarts, Wake, ReceiveOpen,
      ReceiveKeepalive, SendAnnouncement, StartTimers, ReceiveInLoop, ReadTimeout,
      DropsRead, CheckTimers, ReadHead, ReadGarbage, RemoteReceives,
      RemoteKeepalive, RemoteHoldExpires, RemoteMisbehaves, RemoteUpdate, Tick,
      vars, remoteVars
<1>6. troubles = 0
  BY <1>1, <1>5 DEF Undisturbed
<1> QED
  BY <1>2, <1>3, <1>4, <1>6 DEF Undisturbed

LEMMA GoodInvStep ==
  ASSUME DelayAllowed, SessionInv, SessionInv', GoodInv, [Next]_vars
  PROVE  GoodInv'
<1>1. KeepaliveInTime'
  BY KeepaliveInTimeStep DEF GoodInv
<1>2. ASSUME Undisturbed' PROVE GoesOn'
  <2>1. Undisturbed /\ ~ ConnectFails /\ ~ RemoteMisbehaves
    BY <1>2, StillUndisturbed
  <2>2. KeepaliveInTime /\ GoesOn
    BY <2>1 DEF GoodInv
  <2>3. /\ ~ ReadMisframed /\ ~ ReadGarbage /\ ~ ReadEof /\ ~ WriteFails
        /\ ~ ReceiveUnexpected /\ ~ ReceiveNotification
        /\ ~ HoldTimerExpires /\ ~ RemoteHoldExpires /\ ~ Wake
    BY <2>2, NothingEnds
  <2>4. CASE UNCHANGED vars
    BY <2>2, <2>4
    DEF vars, GoesOn, Alive, InOrder, RemoteTimers, LocalOutlasts,
        RemoteOutlasts, Confirmed, Quiet
  <2>5. \/ StartConnect \/ SessionStarts \/ ReadHead \/ ReceiveOpen
        \/ ReceiveKeepalive \/ SendAnnouncement \/ StartTimers \/ CheckTimers
        \/ ReceiveInLoop \/ ReadTimeout \/ RemoteReceives \/ RemoteKeepalive
        \/ RemoteUpdate \/ Tick \/ UNCHANGED vars
    BY <2>1, <2>3 DEF Next, Local, Remote
  <2> QED
    BY <1>2, <2>1, <2>2, <2>4, <2>5, GoodStart, GoodReadHead, GoodReceiveOpen,
       GoodReceiveKeepalive, GoodSendAnnouncement, GoodStartTimers,
       GoodCheckTimers, GoodReceiveInLoop,
       GoodReadTimeout, GoodRemoteReceives, GoodRemoteSends, GoodTick
<1> QED
  BY <1>1, <1>2 DEF GoodInv

\* A session with a remote that follows the protocol and whose hold time is
\* not the shorter one outlives every delay that the hold time leaves room for
\* (the keepalive and hold timers of run_session against those of the remote).
THEOREM GoodSessionsSurvive ==
  ASSUME DelayAllowed
  PROVE  Spec => []GoodSessionSurvives
<1>1. Init => GoodInv
  <2> SUFFICES ASSUME Init PROVE GoodInv
    OBVIOUS
  <2>1. Framed(toLocal, got)
    BY DEF Init, Framed
  <2> QED
    BY <2>1
    DEF Init, GoodInv, KeepaliveInTime, GoesOn, Alive, InOrder, RemoteTimers,
        LocalOutlasts, RemoteOutlasts, Confirmed
<1>2. SessionInv /\ SessionInv' /\ GoodInv /\ [Next]_vars => GoodInv'
  BY GoodInvStep
<1>3. GoodInv => GoodSessionSurvives
  BY DEF GoodInv, Undisturbed, GoesOn, Alive, GoodSessionSurvives,
         SessionSurvives
<1> QED
  BY <1>1, <1>2, <1>3, SessionInvariant, PTL DEF Spec
=============================================================================
