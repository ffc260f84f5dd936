------------------------ MODULE ControlServerProofs -------------------------
(***************************************************************************)
(* Proofs about ControlServer: responses in order, events in order, and    *)
(* the socket file in turn, for any number of daemons and connections, any *)
(* scripts, any capacity of the event channel and any number of events.    *)
(***************************************************************************)
EXTENDS ControlServer, TLAPS

HandlerStates == {"none", "reading", "replying", "subscribing", "receiving",
                  "writing", "gone"}
Response == [id : Nat, ok : BOOLEAN]

\* Types, and that a connection with a handler has its daemon.
ControlTypes ==
  /\ phase \in [Daemons -> {"off", "starting", "removing", "cleaned", "up",
                            "stopping", "unlinking", "exited", "killed"}]
  /\ socket \in Daemons \union {NoDaemon}
  /\ server \in [Clients -> Daemons \union {NoDaemon}]
  /\ conn \in [Clients -> {"new", "open", "left", "refused"}]
  /\ sent \in [Clients -> Seq(Commands)]
  /\ taken \in [Clients -> Nat]
  /\ handler \in [Clients -> HandlerStates]
  /\ answer \in [Clients -> Response]
  /\ replies \in [Clients -> Seq(Response)]
  /\ emitted \in [Daemons -> Nat]
  /\ pos \in [Clients -> Nat]
  /\ events \in [Clients -> Seq(Nat)]
  /\ \A c \in Clients :
       conn[c] \in {"open", "left"} \/ handler[c] # "none" => server[c] \in Daemons

-----------------------------------------------------------------------------
(* Responses.                                                              *)

\* What a response to the n-th request may be.
Answers(cmd, n, reply) ==
  /\ reply.id = IF cmd = "garbage" THEN 0 ELSE n
  /\ (IF reply.ok THEN "ok" ELSE "error") \in Outcomes[cmd]

\* Number of responses written, given the requests read: one less only while
\* a response is being written, or if the connection ended before it was.
RepliesCounted(c) ==
  /\ taken[c] <= Len(sent[c])
  /\ handler[c] \notin {"replying", "gone"} => Len(replies[c]) = taken[c]
  /\ handler[c] = "replying" => Len(replies[c]) + 1 = taken[c]
  /\ handler[c] = "gone" => Len(replies[c]) <= taken[c]

\* A response being written, and those written, are to the requests they
\* stand for.
RepliesOf(c) ==
  /\ RepliesCounted(c)
  /\ handler[c] = "replying" => Answers(sent[c][taken[c]], taken[c], answer[c])
  /\ \A i \in DOMAIN replies[c] : Answers(sent[c][i], i, replies[c][i])

RepliesInv == \A c \in Clients : RepliesOf(c)

-----------------------------------------------------------------------------
(* Events.                                                                 *)

\* A receiver stands behind everything it has handed out, and right behind it
\* unless it has lagged.
Behind(c) ==
  /\ \A i \in DOMAIN events[c] : events[c][i] < pos[c]
  /\ c \notin lagged /\ events[c] # <<>> =>
       events[c][Len(events[c])] + 1 = pos[c]

Ordered(c) ==
  \A i \in 1..(Len(events[c]) - 1) :
    /\ events[c][i] < events[c][i + 1]
    /\ c \notin lagged => events[c][i + 1] = events[c][i] + 1

EventsOf(c) ==
  /\ handler[c] \in {"none", "reading", "replying", "subscribing"} =>
       events[c] = <<>>
  /\ handler[c] \in {"receiving", "writing"} => Behind(c)
  /\ Ordered(c)

EventsInv == \A c \in Clients : EventsOf(c)

-----------------------------------------------------------------------------
(* The socket file.                                                        *)

\* While daemons run in turn, the file is the one of the daemon that has
\* bound it, and there is none between the removal and the bind.
SocketInv ==
  ~ together =>
    /\ \A d, e \in Daemons : Running(d) /\ Running(e) => d = e
    /\ \A d \in Daemons :
         /\ phase[d] \in {"up", "stopping", "unlinking"} => socket = d
         /\ phase[d] \in {"off", "starting", "removing", "cleaned", "exited"} =>
              socket # d
         /\ phase[d] = "cleaned" => socket = NoDaemon

ControlInv == ControlTypes /\ RepliesInv /\ EventsInv /\ SocketInv

-----------------------------------------------------------------------------
(* Steps of a daemon, and of a connection.                                 *)

DaemonStep(d) ==
  \/ MainSteps(d)
  \/ Start(d) \/ StartFails(d) \/ CtrlC(d) \/ Killed(d)
  \/ AcceptFails(d) \/ Emit(d)

ClientStep(c) ==
  \/ HandlerSteps(c)
  \/ Connect(c) \/ ConnectFails(c) \/ HangUp(c)
  \/ \E cmd \in Commands : Send(c, cmd)

\* A daemon leaves the connections as they are, or drops them.
LEMMA DaemonDrops ==
  ASSUME ControlTypes, NEW d \in Daemons, DaemonStep(d)
  PROVE  /\ UNCHANGED <<clientVars, taken, answer, replies, pos, events, lagged>>
         /\ handler' \in [Clients -> HandlerStates]
         /\ \A c \in Clients :
              \/ handler'[c] = handler[c]
              \/ handler'[c] = "gone" /\ server[c] = d
<1> USE DEF talkVars, clientVars, eventVars, MainGoto, ControlTypes, HandlerStates
<1>1. CASE Start(d) \/ StaleSocketChecked(d) \/ CtrlC(d) \/ ShutdownReceived(d)
  BY <1>1 DEF Start, StaleSocketChecked, CtrlC, ShutdownReceived
<1>2. CASE StartFails(d) \/ ExitRemovesSocket(d) \/ Killed(d)
  BY <1>2 DEF StartFails, ExitRemovesSocket, Killed, Exit
<1>3. CASE StaleSocketRemoved(d) \/ Bind(d) \/ ExitChecksSocket(d)
  BY <1>3 DEF StaleSocketRemoved, Bind, ExitChecksSocket, Exit
<1>4. CASE AcceptFails(d)
  BY <1>4 DEF AcceptFails
<1>5. CASE Emit(d)
  BY <1>5 DEF Emit, mainVars
<1> QED
  BY <1>1, <1>2, <1>3, <1>4, <1>5 DEF DaemonStep, MainSteps

\* A connection leaves the daemons alone, but for the shutdown signal, and the
\* other connections as they are.
LEMMA ClientStepsApart ==
  ASSUME ControlTypes, NEW c \in Clients, ClientStep(c)
  PROVE  /\ UNCHANGED <<phase, socket, together, emitted>>
         /\ \A e \in Clients \ {c} :
              /\ server'[e] = server[e] /\ conn'[e] = conn[e]
              /\ sent'[e] = sent[e] /\ taken'[e] = taken[e]
              /\ handler'[e] = handler[e] /\ answer'[e] = answer[e]
              /\ replies'[e] = replies[e] /\ pos'[e] = pos[e]
              /\ events'[e] = events[e] /\ (e \in lagged' <=> e \in lagged)
<1> USE DEF mainVars, talkVars, clientVars, eventVars, HandlerGoto, ControlTypes
<1>1. CASE Accept(c) \/ ReadEof(c) \/ WriteResponse(c)
  BY <1>1 DEF Accept, ReadEof, WriteResponse
<1>2. CASE Execute(c)
  BY <1>2 DEF Execute
<1>3. CASE SubscribeEvents(c) \/ Recv(c) \/ WriteEvent(c)
  BY <1>3 DEF SubscribeEvents, Recv, WriteEvent
<1>4. CASE Connect(c) \/ ConnectFails(c) \/ HangUp(c)
  BY <1>4 DEF Connect, ConnectFails, HangUp
<1>5. CASE \E cmd \in Commands : Send(c, cmd)
  BY <1>5 DEF Send
<1> QED
  BY <1>1, <1>2, <1>3, <1>4, <1>5 DEF ClientStep, HandlerSteps

-----------------------------------------------------------------------------
(* The types.                                                              *)

LEMMA DaemonTypes ==
  ASSUME ControlTypes, NEW d \in Daemons, DaemonStep(d)
  PROVE  ControlTypes'
<1>1. /\ phase' \in [Daemons -> {"off", "starting", "removing", "cleaned", "up",
                                 "stopping", "unlinking", "exited", "killed"}]
      /\ socket' \in Daemons \union {NoDaemon}
      /\ emitted' \in [Daemons -> Nat]
  <2> USE DEF talkVars, eventVars, mainVars, MainGoto, ControlTypes, Exit
  <2>1. CASE Start(d) \/ StaleSocketChecked(d) \/ CtrlC(d) \/ ShutdownReceived(d)
    BY <2>1 DEF Start, StaleSocketChecked, CtrlC, ShutdownReceived
  <2>2. CASE StartFails(d) \/ ExitRemovesSocket(d) \/ Killed(d)
    BY <2>2 DEF StartFails, ExitRemovesSocket, Killed
  <2>3. CASE StaleSocketRemoved(d) \/ Bind(d) \/ ExitChecksSocket(d)
    BY <2>3 DEF StaleSocketRemoved, Bind, ExitChecksSocket
  <2>4. CASE AcceptFails(d)
    BY <2>4 DEF AcceptFails
  <2>5. CASE Emit(d)
    BY <2>5 DEF Emit
  <2> QED
    BY <2>1, <2>2, <2>3, <2>4, <2>5 DEF DaemonStep, MainSteps
<1> QED
  BY <1>1, DaemonDrops DEF ControlTypes, clientVars

LEMMA ClientTypes ==
  ASSUME ControlTypes, NEW c \in Clients, ClientStep(c)
  PROVE  ControlTypes'
<1> USE DEF mainVars, talkVars, clientVars, eventVars, HandlerGoto,
            HandlerStates, ControlTypes
<1>1. CASE Accept(c)
  BY <1>1 DEF Accept
<1>2. CASE Execute(c)
  <2>1. PICK outcome :
          /\ outcome = "closed" =>
               HandlerGoto(c, "reading", "gone") /\ UNCHANGED answer
          /\ outcome # "closed" =>
               /\ HandlerGoto(c, "reading", "replying")
               /\ answer' = [answer EXCEPT ![c] =
                               [id |-> IF sent[c][taken[c] + 1] = "garbage"
                                         THEN 0 ELSE taken[c] + 1,
                                ok |-> outcome = "ok"]]
    BY <1>2 DEF Execute
  <2>2. [id |-> IF sent[c][taken[c] + 1] = "garbage" THEN 0 ELSE taken[c] + 1,
         ok |-> outcome = "ok"] \in Response
    BY DEF Response
  <2>3. answer' \in [Clients -> Response]
    <3>1. answer' = answer \/ \E r \in Response : answer' = [answer EXCEPT ![c] = r]
      BY <2>1, <2>2
    <3>2. answer \in [Clients -> Response]
      OBVIOUS
    <3> QED
      BY <3>1, <3>2
  <2>4. taken' \in [Clients -> Nat]
    BY <1>2 DEF Execute
  <2>5. handler' \in [Clients -> HandlerStates] /\ handler[c] = "reading"
    BY <2>1
  <2>6. UNCHANGED <<phase, socket, clientVars, replies, eventVars>>
    BY <1>2 DEF Execute
  <2>7. \A e \in Clients : handler'[e] # "none" => handler[e] # "none"
    BY <2>1
  <2> QED
    BY <2>3, <2>4, <2>5, <2>6, <2>7
<1>3. CASE ReadEof(c)
  BY <1>3 DEF ReadEof
<1>4. CASE WriteResponse(c)
  <2>1. Append(replies[c], answer[c]) \in Seq(Response)
    OBVIOUS
  <2>2. replies' \in [Clients -> Seq(Response)]
    BY <1>4, <2>1 DEF WriteResponse
  <2>3. /\ handler' \in [Clients -> HandlerStates]
        /\ \A e \in Clients : handler'[e] # "none" => handler[e] # "none"
    BY <1>4 DEF WriteResponse
  <2> QED
    BY <1>4, <2>2, <2>3 DEF WriteResponse
<1>5. CASE SubscribeEvents(c)
  BY <1>5 DEF SubscribeEvents
<1>6. CASE Recv(c)
  <2>1. Oldest(server[c]) \in Nat
    BY <1>6, ControlBounds DEF Recv, Oldest
  <2>2. pos' \in [Clients -> Nat]
    BY <1>6, <2>1 DEF Recv
  <2>3. /\ handler' \in [Clients -> HandlerStates]
        /\ \A e \in Clients : handler'[e] # "none" => handler[e] # "none"
    BY <1>6 DEF Recv
  <2>4. UNCHANGED <<phase, socket, server, conn, sent, taken, answer, replies,
                    emitted, events>>
    BY <1>6 DEF Recv
  <2> QED
    BY <2>2, <2>3, <2>4
<1>7. CASE WriteEvent(c)
  <2>1. Append(events[c], pos[c]) \in Seq(Nat)
    OBVIOUS
  <2>2. \/ UNCHANGED <<events, pos>>
        \/ /\ events' = [events EXCEPT ![c] = Append(events[c], pos[c])]
           /\ pos' = [pos EXCEPT ![c] = pos[c] + 1]
    BY <1>7 DEF WriteEvent
  <2>3. events' \in [Clients -> Seq(Nat)]
    BY <2>1, <2>2
  <2>4. pos' \in [Clients -> Nat]
    BY <2>2
  <2> QED
    BY <1>7, <2>3, <2>4 DEF WriteEvent
<1>8. CASE Connect(c)
  BY <1>8 DEF Connect
<1>9. CASE ConnectFails(c)
  BY <1>9 DEF ConnectFails
<1>10. CASE HangUp(c)
  BY <1>10 DEF HangUp
<1>11. CASE \E cmd \in Commands : Send(c, cmd)
  BY <1>11 DEF Send
<1> QED
  BY <1>1, <1>2, <1>3, <1>4, <1>5, <1>6, <1>7, <1>8, <1>9, <1>10, <1>11
     DEF ClientStep, HandlerSteps

-----------------------------------------------------------------------------
(* Responses.                                                              *)

LEMMA RepliesDaemon ==
  ASSUME ControlTypes, RepliesInv, NEW d \in Daemons, DaemonStep(d)
  PROVE  RepliesInv'
<1> SUFFICES ASSUME NEW c \in Clients, RepliesOf(c) PROVE RepliesOf(c)'
  BY DEF RepliesInv
<1>1. /\ UNCHANGED <<sent, taken, answer, replies>>
      /\ handler'[c] \in {handler[c], "gone"}
  BY DaemonDrops DEF clientVars
<1>2. RepliesCounted(c)'
  BY <1>1 DEF ControlTypes, RepliesOf, RepliesCounted
<1> QED
  BY <1>1, <1>2 DEF RepliesOf

\* A response made from an outcome that is not an early return.
LEMMA OutcomeAnswers ==
  ASSUME NEW cmd, NEW n, NEW outcome \in Outcomes[cmd],
         outcome \in {"ok", "error"}
  PROVE  Answers(cmd, n, [id |-> IF cmd = "garbage" THEN 0 ELSE n,
                          ok |-> outcome = "ok"])
<1> DEFINE reply == [id |-> IF cmd = "garbage" THEN 0 ELSE n,
                     ok |-> outcome = "ok"]
<1>1. reply.id = IF cmd = "garbage" THEN 0 ELSE n
  OBVIOUS
<1>2. reply.ok <=> outcome = "ok"
  OBVIOUS
<1> HIDE DEF reply
<1>3. (IF reply.ok THEN "ok" ELSE "error") = outcome
  BY <1>2
<1>4. Answers(cmd, n, reply)
  BY <1>1, <1>3 DEF Answers
<1> QED
  BY <1>4 DEF reply

\* Execute reads the next request and prepares the response to it.
LEMMA RepliesExecute ==
  ASSUME ControlTypes, NEW c \in Clients, RepliesOf(c), Execute(c)
  PROVE  RepliesOf(c)'
<1> DEFINE n == taken[c] + 1
           cmd == sent[c][n]
<1>1. /\ n \in Nat /\ n <= Len(sent[c]) /\ cmd \in Commands
      /\ taken'[c] = n /\ UNCHANGED <<sent, replies>>
  BY DEF Execute, ControlTypes, clientVars
<1>2. PICK outcome \in Outcomes[cmd] :
        /\ handler[c] = "reading"
        /\ \/ /\ outcome = "closed" /\ handler'[c] = "gone"
           \/ /\ outcome # "closed" /\ handler'[c] = "replying"
              /\ answer'[c] = [id |-> IF cmd = "garbage" THEN 0 ELSE n,
                               ok |-> outcome = "ok"]
  BY DEF Execute, HandlerGoto, ControlTypes
<1>3. outcome \in {"ok", "error", "closed"}
  BY <1>1, <1>2 DEF Outcomes, Commands
<1>4. handler'[c] = "replying" => Answers(cmd, n, answer'[c])
  <2> HIDE DEF n, cmd
  <2> QED
    BY <1>2, <1>3, OutcomeAnswers
<1>5. RepliesCounted(c)'
  BY <1>1, <1>2 DEF RepliesOf, RepliesCounted, ControlTypes
<1> HIDE DEF n, cmd
<1>6. sent'[c][taken'[c]] = cmd /\ taken'[c] = n
  BY <1>1 DEF cmd, n
<1> QED
  BY <1>1, <1>4, <1>5, <1>6 DEF RepliesOf

\* WriteResponse appends it.
LEMMA RepliesWrite ==
  ASSUME ControlTypes, NEW c \in Clients, RepliesOf(c), WriteResponse(c)
  PROVE  RepliesOf(c)'
<1>1. /\ handler[c] = "replying" /\ UNCHANGED <<sent, taken, answer>>
      /\ \/ handler'[c] = "gone" /\ UNCHANGED replies
         \/ /\ handler'[c] \in {"subscribing", "reading"}
            /\ replies'[c] = Append(replies[c], answer[c])
  BY DEF WriteResponse, HandlerGoto, ControlTypes, clientVars
<1>2. /\ replies[c] \in Seq(Response) /\ answer[c] \in Response
      /\ taken[c] \in Nat /\ taken[c] = Len(replies[c]) + 1
  BY <1>1 DEF ControlTypes, RepliesOf, RepliesCounted
<1>3. CASE UNCHANGED replies
  BY <1>1, <1>2, <1>3 DEF RepliesOf, RepliesCounted
<1>4. CASE handler'[c] # "gone" /\ replies'[c] = Append(replies[c], answer[c])
  <2>1. RepliesCounted(c)'
    BY <1>1, <1>2, <1>4 DEF RepliesOf, RepliesCounted
  <2>2. ASSUME NEW i \in DOMAIN replies'[c]
        PROVE  Answers(sent[c][i], i, replies'[c][i])
    <3>1. CASE i \in DOMAIN replies[c]
      <4>1. replies'[c][i] = replies[c][i]
        BY <1>2, <1>4, <3>1
      <4> QED
        BY <3>1, <4>1 DEF RepliesOf
    <3>2. CASE i \notin DOMAIN replies[c]
      <4>1. i = taken[c] /\ replies'[c][i] = answer[c]
        BY <1>2, <1>4, <3>2
      <4> QED
        BY <1>1, <4>1 DEF RepliesOf
    <3> QED
      BY <3>1, <3>2
  <2> QED
    BY <1>1, <1>4, <2>1, <2>2 DEF RepliesOf
<1> QED
  BY <1>1, <1>3, <1>4

\* A client that writes on does not change what it wrote.
LEMMA RepliesSend ==
  ASSUME ControlTypes, NEW c \in Clients, RepliesOf(c),
         NEW cmd \in Commands, Send(c, cmd)
  PROVE  RepliesOf(c)'
<1>1. /\ sent'[c] = Append(sent[c], cmd) /\ sent[c] \in Seq(Commands)
      /\ UNCHANGED <<handler, taken, answer, replies>>
  BY DEF Send, ControlTypes
<1>2. /\ Len(sent'[c]) = Len(sent[c]) + 1 /\ Len(sent[c]) \in Nat
      /\ \A i \in 1..Len(sent[c]) : sent'[c][i] = sent[c][i]
  BY <1>1
<1>3. /\ taken[c] \in Nat /\ Len(replies[c]) \in Nat
      /\ DOMAIN replies[c] = 1..Len(replies[c])
  BY DEF ControlTypes
<1>4. RepliesCounted(c)'
  BY <1>1, <1>2, <1>3 DEF RepliesOf, RepliesCounted
<1>5. Len(replies[c]) <= taken[c] /\ taken[c] <= Len(sent[c])
  BY <1>3 DEF RepliesOf, RepliesCounted
<1>6. \A i \in DOMAIN replies[c] : sent'[c][i] = sent[c][i]
  BY <1>2, <1>3, <1>5
<1>7. handler[c] = "replying" => sent'[c][taken[c]] = sent[c][taken[c]]
  BY <1>2, <1>3, <1>5 DEF RepliesOf, RepliesCounted
<1> QED
  BY <1>1, <1>4, <1>6, <1>7 DEF RepliesOf

LEMMA RepliesClient ==
  ASSUME ControlTypes, RepliesInv, NEW c \in Clients, ClientStep(c)
  PROVE  RepliesInv'
<1>1. ASSUME NEW e \in Clients \ {c}
      PROVE  RepliesOf(e)'
  BY ClientStepsApart DEF RepliesInv, RepliesOf, RepliesCounted
<1>2. RepliesOf(c)
  BY DEF RepliesInv
<1>3. RepliesOf(c)'
  <2> USE <1>2 DEF RepliesOf, RepliesCounted, HandlerGoto, ControlTypes,
                   talkVars, clientVars
  <2>1. CASE Accept(c)
    BY <2>1 DEF Accept
  <2>2. CASE Execute(c)
    BY <2>2, RepliesExecute
  <2>3. CASE ReadEof(c)
    BY <2>3 DEF ReadEof
  <2>4. CASE WriteResponse(c)
    BY <2>4, RepliesWrite
  <2>5. CASE SubscribeEvents(c)
    BY <2>5 DEF SubscribeEvents
  <2>6. CASE Recv(c)
    BY <2>6 DEF Recv
  <2>7. CASE WriteEvent(c)
    BY <2>7 DEF WriteEvent
  <2>8. CASE Connect(c) \/ ConnectFails(c) \/ HangUp(c)
    BY <2>8 DEF Connect, ConnectFails, HangUp
  <2>9. CASE \E cmd \in Commands : Send(c, cmd)
    BY <2>9, RepliesSend
  <2> QED
    BY <2>1, <2>2, <2>3, <2>4, <2>5, <2>6, <2>7, <2>8, <2>9
       DEF ClientStep, HandlerSteps
<1> QED
  BY <1>1, <1>3 DEF RepliesInv

-----------------------------------------------------------------------------
(* Events.                                                                 *)

LEMMA EventsDaemon ==
  ASSUME ControlTypes, EventsInv, NEW d \in Daemons, DaemonStep(d)
  PROVE  EventsInv'
<1> SUFFICES ASSUME NEW c \in Clients, EventsOf(c) PROVE EventsOf(c)'
  BY DEF EventsInv
<1>1. /\ UNCHANGED <<events, pos, lagged>>
      /\ handler'[c] \in {handler[c], "gone"}
  BY DaemonDrops
<1> QED
  BY <1>1 DEF EventsOf, Behind, Ordered

\* Lagged moves the receiver forwards.
LEMMA EventsRecv ==
  ASSUME ControlTypes, NEW c \in Clients, EventsOf(c), Recv(c)
  PROVE  EventsOf(c)'
<1>1. /\ handler[c] = "receiving" /\ UNCHANGED events
      /\ \/ /\ handler'[c] = "receiving" /\ pos'[c] > pos[c] /\ c \in lagged'
            /\ pos'[c] \in Nat
         \/ handler'[c] = "writing" /\ UNCHANGED <<pos, lagged>>
  <2>1. Oldest(server[c]) \in Nat
    BY ControlBounds DEF Recv, Oldest, ControlTypes
  <2> QED
    BY <2>1 DEF Recv, HandlerGoto, ControlTypes
<1>2. /\ pos[c] \in Nat /\ events[c] \in Seq(Nat) /\ Behind(c) /\ Ordered(c)
  BY <1>1 DEF EventsOf, ControlTypes
<1>3. Behind(c)'
  BY <1>1, <1>2 DEF Behind
<1>4. Ordered(c)'
  BY <1>1, <1>2 DEF Ordered
<1> QED
  BY <1>1, <1>3, <1>4 DEF EventsOf

\* The event written is right behind the last one, or some way after it.
LEMMA EventsWrite ==
  ASSUME ControlTypes, NEW c \in Clients, EventsOf(c), WriteEvent(c)
  PROVE  EventsOf(c)'
<1>1. /\ handler[c] = "writing" /\ UNCHANGED lagged
      /\ \/ handler'[c] = "gone" /\ UNCHANGED <<pos, events>>
         \/ /\ handler'[c] = "receiving" /\ pos'[c] = pos[c] + 1
            /\ events'[c] = Append(events[c], pos[c])
  BY DEF WriteEvent, HandlerGoto, ControlTypes
<1>2. /\ pos[c] \in Nat /\ events[c] \in Seq(Nat) /\ Behind(c) /\ Ordered(c)
  BY <1>1 DEF EventsOf, ControlTypes
<1>3. CASE UNCHANGED events
  BY <1>1, <1>2, <1>3 DEF EventsOf, Ordered
<1>4. CASE /\ handler'[c] = "receiving" /\ pos'[c] = pos[c] + 1
           /\ events'[c] = Append(events[c], pos[c])
  <2> PICK n \in Nat : n = Len(events[c])
    BY <1>2
  <2>1. /\ Len(events'[c]) = n + 1 /\ DOMAIN events'[c] = 1..(n + 1)
        /\ events'[c][n + 1] = pos[c]
        /\ DOMAIN events[c] = 1..n
        /\ \A i \in 1..n : events'[c][i] = events[c][i] /\ events[c][i] \in Nat
    BY <1>2, <1>4
  <2>2. \A i \in 1..n : events[c][i] < pos[c]
    BY <1>2, <2>1 DEF Behind
  <2>3. c \notin lagged /\ n # 0 => events[c][n] + 1 = pos[c]
    <3>1. n # 0 => events[c] # <<>>
      BY <1>2
    <3> QED
      BY <1>2, <3>1 DEF Behind
  <2>4. \A i \in 1..(n + 1) : events'[c][i] < pos[c] + 1
    <3> SUFFICES ASSUME NEW i \in 1..(n + 1) PROVE events'[c][i] < pos[c] + 1
      OBVIOUS
    <3>1. CASE i \in 1..n
      BY <1>2, <2>1, <2>2, <3>1
    <3>2. CASE i = n + 1
      BY <1>2, <2>1, <3>2
    <3> QED
      BY <3>1, <3>2
  <2>5. Behind(c)'
    BY <1>1, <1>2, <1>4, <2>1, <2>4 DEF Behind
  <2>6. Ordered(c)'
    <3> SUFFICES ASSUME NEW i \in 1..n
                 PROVE  /\ events'[c][i] < events'[c][i + 1]
                        /\ c \notin lagged => events'[c][i + 1] = events'[c][i] + 1
      BY <1>1, <2>1 DEF Ordered
    <3>1. CASE i = n
      BY <1>2, <2>1, <2>2, <2>3, <3>1
    <3>2. CASE i # n
      <4>1. i \in 1..(n - 1) /\ i + 1 \in 1..n
        BY <3>2
      <4>2. /\ events[c][i] < events[c][i + 1]
            /\ c \notin lagged => events[c][i + 1] = events[c][i] + 1
        BY <1>2, <4>1 DEF Ordered
      <4> QED
        BY <2>1, <4>1, <4>2
    <3> QED
      BY <3>1, <3>2
  <2> QED
    BY <1>4, <2>5, <2>6 DEF EventsOf
<1> QED
  BY <1>1, <1>3, <1>4

LEMMA EventsClient ==
  ASSUME ControlTypes, EventsInv, NEW c \in Clients, ClientStep(c)
  PROVE  EventsInv'
<1>1. ASSUME NEW e \in Clients \ {c}
      PROVE  EventsOf(e)'
  <2>1. /\ handler'[e] = handler[e] /\ pos'[e] = pos[e]
        /\ events'[e] = events[e] /\ (e \in lagged' <=> e \in lagged)
    BY ClientStepsApart
  <2> QED
    BY <2>1 DEF EventsInv, EventsOf, Behind, Ordered
<1>2. EventsOf(c)
  BY DEF EventsInv
<1>3. EventsOf(c)'
  <2>1. CASE Recv(c)
    BY <1>2, <2>1, EventsRecv
  <2>2. CASE WriteEvent(c)
    BY <1>2, <2>2, EventsWrite
  <2>3. ASSUME UNCHANGED <<events, pos, lagged>>,
               \/ handler'[c] \in {handler[c], "gone"}
               \/ handler[c] \in {"none", "reading", "replying"},
               \/ handler'[c] \notin {"receiving", "writing"}
               \/ handler'[c] = handler[c]
        PROVE  EventsOf(c)'
    BY <1>2, <2>3 DEF EventsOf, Behind, Ordered
  <2>4. CASE SubscribeEvents(c)
    <3>1. events'[c] = <<>> /\ handler'[c] = "receiving"
      BY <1>2, <2>4 DEF SubscribeEvents, HandlerGoto, EventsOf, ControlTypes
    <3> QED
      BY <3>1 DEF EventsOf, Behind, Ordered
  <2> USE DEF HandlerGoto, ControlTypes, talkVars, clientVars, eventVars
  <2>5. CASE Accept(c)
    BY <2>3, <2>5 DEF Accept
  <2>6. CASE Execute(c)
    BY <2>3, <2>6 DEF Execute
  <2>7. CASE ReadEof(c)
    BY <2>3, <2>7 DEF ReadEof
  <2>8. CASE WriteResponse(c)
    BY <2>3, <2>8 DEF WriteResponse
  <2>9. CASE Connect(c) \/ ConnectFails(c) \/ HangUp(c)
    BY <2>3, <2>9 DEF Connect, ConnectFails, HangUp
  <2>10. CASE \E cmd \in Commands : Send(c, cmd)
    BY <2>3, <2>10 DEF Send
  <2> QED
    BY <2>1, <2>2, <2>4, <2>5, <2>6, <2>7, <2>8, <2>9, <2>10
       DEF ClientStep, HandlerSteps
<1> QED
  BY <1>1, <1>3 DEF EventsInv

-----------------------------------------------------------------------------
(* The socket file.                                                        *)

LEMMA SocketDaemon ==
  ASSUME ControlTypes, SocketInv, NEW d \in Daemons, DaemonStep(d)
  PROVE  SocketInv'
<1> USE DaemonsAssumption DEF MainGoto, ControlTypes, Running, Exit
<1>1. CASE Start(d)
  BY <1>1 DEF Start, SocketInv
<1>2. CASE StaleSocketChecked(d)
  BY <1>2 DEF StaleSocketChecked, SocketInv
<1>3. CASE StaleSocketRemoved(d)
  <2>1. /\ phase[d] = "removing" /\ together' = together
        /\ \/ /\ phase' = [phase EXCEPT ![d] = "cleaned"] /\ socket' = NoDaemon
           \/ /\ phase' = [phase EXCEPT ![d] = "exited"] /\ socket' = socket
    BY <1>3 DEF StaleSocketRemoved
  <2>2. CASE phase' = [phase EXCEPT ![d] = "cleaned"] /\ socket' = NoDaemon
    BY <2>1, <2>2 DEF SocketInv
  <2>3. CASE phase' = [phase EXCEPT ![d] = "exited"] /\ socket' = socket
    BY <2>1, <2>3 DEF SocketInv
  <2> QED
    BY <2>1, <2>2, <2>3
<1>4. CASE Bind(d)
  <2>1. phase[d] = "cleaned" /\ together' = together
    BY <1>4 DEF Bind
  <2>2. \/ /\ socket = NoDaemon /\ socket' = d
           /\ phase' = [phase EXCEPT ![d] = "up"]
        \/ /\ socket' = socket
           /\ phase' = [phase EXCEPT ![d] = "exited"]
    BY <1>4 DEF Bind
  <2>3. CASE /\ socket = NoDaemon /\ socket' = d
             /\ phase' = [phase EXCEPT ![d] = "up"]
    BY <2>1, <2>3 DEF SocketInv
  <2>4. CASE /\ socket' = socket
             /\ phase' = [phase EXCEPT ![d] = "exited"]
    BY <2>1, <2>4 DEF SocketInv
  <2> QED
    BY <2>2, <2>3, <2>4
<1>5. CASE CtrlC(d) \/ ShutdownReceived(d)
  BY <1>5 DEF CtrlC, ShutdownReceived, SocketInv
<1>6. CASE ExitChecksSocket(d)
  BY <1>6 DEF ExitChecksSocket, SocketInv
<1>7. CASE ExitRemovesSocket(d)
  BY <1>7 DEF ExitRemovesSocket, SocketInv
<1>8. CASE StartFails(d)
  BY <1>8 DEF StartFails, SocketInv
<1>9. CASE Killed(d)
  <2>1. /\ phase' = [phase EXCEPT ![d] = "killed"] /\ UNCHANGED <<socket, together>>
        /\ phase[d] \notin {"off", "exited", "killed"}
    BY <1>9 DEF Killed
  <2> QED
    BY <2>1 DEF SocketInv
<1>10. CASE AcceptFails(d)
  BY <1>10 DEF AcceptFails, SocketInv
<1>11. CASE Emit(d)
  BY <1>11 DEF Emit, mainVars, SocketInv
<1> QED
  BY <1>1, <1>2, <1>3, <1>4, <1>5, <1>6, <1>7, <1>8, <1>9, <1>10, <1>11
     DEF DaemonStep, MainSteps

-----------------------------------------------------------------------------
(* The theorems.                                                           *)

LEMMA ControlInvariant == Spec => []ControlInv
<1>1. Init => ControlInv
  <2> SUFFICES ASSUME Init PROVE ControlInv
    OBVIOUS
  <2>1. ControlTypes
    BY DEF Init, ControlTypes, HandlerStates, Response
  <2>2. RepliesInv
    BY DEF Init, RepliesInv, RepliesOf, RepliesCounted
  <2>3. EventsInv
    BY DEF Init, EventsInv, EventsOf, Ordered
  <2>4. SocketInv
    BY DaemonsAssumption DEF Init, SocketInv, Running
  <2> QED
    BY <2>1, <2>2, <2>3, <2>4 DEF ControlInv
<1>2. ASSUME ControlInv, [Next]_vars
      PROVE  ControlInv'
  <2>1. CASE \E d \in Daemons : DaemonStep(d)
    BY <1>2, <2>1, DaemonTypes, RepliesDaemon, EventsDaemon, SocketDaemon
       DEF ControlInv
  <2>2. CASE \E c \in Clients : ClientStep(c)
    <3>1. PICK c \in Clients : ClientStep(c)
      BY <2>2
    <3>2. SocketInv'
      BY <1>2, <3>1, ClientStepsApart DEF ControlInv, SocketInv, Running
    <3> QED
      BY <1>2, <3>1, <3>2, ClientTypes, RepliesClient, EventsClient
         DEF ControlInv
  <2>3. CASE UNCHANGED vars
    BY <1>2, <2>3
       DEF vars, mainVars, talkVars, clientVars, eventVars, ControlInv,
           ControlTypes, RepliesInv, RepliesOf, RepliesCounted, EventsInv,
           EventsOf, Behind, Ordered, SocketInv, Running
  <2> QED
    BY <1>2, <2>1, <2>2, <2>3 DEF Next, DaemonStep, ClientStep
<1> QED
  BY <1>1, <1>2, PTL DEF Spec

\* The i-th response on a connection answers its i-th request, for any number
\* of connections and any scripts, whatever is killed, refused or hung up in
\* between (handle_client reads the next line only after write_response).
THEOREM RepliesAreInOrder == Spec => []RepliesInOrder
<1>1. RepliesInv => RepliesInOrder
  BY DEF RepliesInv, RepliesOf, RepliesInOrder, Answers
<1> QED
  BY <1>1, ControlInvariant, PTL DEF ControlInv

\* A subscriber is written events in the order they were sent, each once, and
\* without a gap unless its receiver lagged, whatever the channel's capacity
\* (the recv loop of events_subscribe).
THEOREM EventsAreInOrder == Spec => []EventsInOrder
<1>1. EventsInv => EventsInOrder
  BY DEF EventsInv, EventsOf, EventsInOrder, Ordered
<1> QED
  BY <1>1, ControlInvariant, PTL DEF ControlInv

\* Daemons that run one after the other, in any number, are each reachable
\* through the socket file while they are up and leave none of theirs when
\* they exit (cleanup_socket before the bind and at the end of main).
THEOREM SocketIsInTurn == Spec => []SocketInTurn
<1>1. SocketInv => SocketInTurn
  BY DEF SocketInv, SocketInTurn
<1> QED
  BY <1>1, ControlInvariant, PTL DEF ControlInv
=============================================================================
