--------------------------- MODULE ControlServer ----------------------------
(***************************************************************************)
(* The control plane: focld's main, run_control_server and handle_client   *)
(* (src/bin/focld.rs), its clients (src/bin/focl.rs) and the broadcast     *)
(* channel of events.  Several runs of focld may use the same control      *)
(* socket, one after the other or, when the operator starts one before     *)
(* the last has ended, together.                                           *)
(*                                                                         *)
(* A request is its command; the commands are told apart by what           *)
(* handle_client may answer.  What a command does to the rest of the       *)
(* daemon is the subject of the other modules.                             *)
(***************************************************************************)
EXTENDS Naturals, Sequences, FiniteSets, SequencesExt

CONSTANTS
  Daemons,        \* runs of focld with the same control_socket
  NoDaemon,
  Clients,        \* connections to the socket
  Capacity,       \* messages the event channel retains
  MaxEvents,      \* bound on the events
  Scripts,        \* client -> the sequences of commands it may send
  Faults          \* whether a daemon may be killed, or fail to start or accept

ASSUME DaemonsAssumption == NoDaemon \notin Daemons
ASSUME ControlBounds ==
  /\ MaxEvents \in Nat
  /\ Capacity \in Nat \ {0} /\ Faults \in BOOLEAN

\* CommandKind and what its arm of handle_client does: answer ok, answer an
\* error, or leave with `?`, which closes the connection.  "ping" stands for
\* reload, peer_list, rib_summary and archive_destinations too, "archive" for
\* the commands of the archive and daemon_status, "peer" for those that name
\* a peer, "garbage" for a line that is not a request or not even UTF-8.
Outcomes == [ping             |-> {"ok"},
             archive          |-> {"ok", "error", "closed"},
             peer             |-> {"ok", "error"},
             shutdown         |-> {"ok"},
             events_subscribe |-> {"ok"},
             unsupported      |-> {"error"},
             garbage          |-> {"error", "closed"}]
Commands == DOMAIN Outcomes

ASSUME ScriptsAssumption ==
  \A c \in Clients : \A s \in Scripts[c] : s \in Seq(Commands)

MaxRequests == Max({Len(s) : s \in UNION {Scripts[c] : c \in Clients}})

VARIABLES
  phase,          \* daemon -> where its main stands
  socket,         \* daemon whose listener the socket file leads to, NoDaemon if
                  \* there is no file
  signalled,      \* daemon -> whether its shutdown channel has been sent to
  deaf,           \* daemons whose run_control_server has returned
  together,       \* history: a daemon was started while another ran
  server,         \* client -> daemon it connected to
  conn,           \* client -> its end of the connection
  sent,           \* client -> commands it has written
  taken,          \* client -> number of lines the handler has read
  handler,        \* client -> where its handle_client stands
  answer,         \* client -> the response being written
  replies,        \* client -> responses written to it
  emitted,        \* daemon -> number of events sent so far
  pos,            \* client -> next event its receiver will return
  events,         \* client -> events written to it
  lagged          \* history: clients whose receiver has returned Lagged

mainVars   == <<phase, socket, signalled, deaf, together>>
clientVars == <<server, conn, sent>>
eventVars  == <<emitted, pos, events, lagged>>
talkVars   == <<clientVars, taken, answer, replies, eventVars>>
vars == <<mainVars, handler, talkVars>>

Init ==
  /\ phase = [d \in Daemons |-> "off"]
  /\ socket = NoDaemon
  /\ signalled = [d \in Daemons |-> FALSE]
  /\ deaf = {} /\ together = FALSE
  /\ server = [c \in Clients |-> NoDaemon]
  /\ conn = [c \in Clients |-> "new"]
  /\ sent = [c \in Clients |-> <<>>]
  /\ taken = [c \in Clients |-> 0]
  /\ handler = [c \in Clients |-> "none"]
  /\ answer = [c \in Clients |-> [id |-> 0, ok |-> TRUE]]
  /\ replies = [c \in Clients |-> <<>>]
  /\ emitted = [d \in Daemons |-> 0]
  /\ pos = [c \in Clients |-> 0]
  /\ events = [c \in Clients |-> <<>>]
  /\ lagged = {}

Running(d) == phase[d] \notin {"off", "exited", "killed"}

\* Its listener exists: abort() takes it away some time before the exit.
Listening(d) == phase[d] \in {"up", "stopping", "unlinking"} /\ d \notin deaf

-----------------------------------------------------------------------------
(* main.                                                                   *)

MainGoto(d, from, to) == phase[d] = from /\ phase' = [phase EXCEPT ![d] = to]

\* The process ends: the runtime drops every task, and a connection is closed
\* with what was written to it still to be read.
Exit(d, how) ==
  /\ phase' = [phase EXCEPT ![d] = how]
  /\ handler' = [c \in Clients |-> IF server[c] = d THEN "gone" ELSE handler[c]]

\* FoclConfig::load, ArchiveService::new, BgpService::new.
Start(d) ==
  /\ MainGoto(d, "off", "starting")
  /\ together' = (together \/ \E e \in Daemons : Running(e))
  /\ UNCHANGED <<socket, signalled, deaf, handler, talkVars>>

StartFails(d) ==
  /\ Faults
  /\ phase[d] = "starting"
  /\ Exit(d, "exited")
  /\ UNCHANGED <<socket, signalled, deaf, together, talkVars>>

\* cleanup_socket, before the bind: path.exists().
StaleSocketChecked(d) ==
  /\ \/ socket # NoDaemon /\ MainGoto(d, "starting", "removing")
     \/ socket = NoDaemon /\ MainGoto(d, "starting", "cleaned")
  /\ UNCHANGED <<socket, signalled, deaf, together, handler, talkVars>>

\* fs::remove_file; it fails, and main with it, if the file has gone.
StaleSocketRemoved(d) ==
  /\ \/ socket # NoDaemon /\ MainGoto(d, "removing", "cleaned")
          /\ socket' = NoDaemon /\ UNCHANGED handler
     \/ socket = NoDaemon /\ phase[d] = "removing" /\ Exit(d, "exited")
          /\ UNCHANGED socket
  /\ UNCHANGED <<signalled, deaf, together, talkVars>>

\* UnixListener::bind fails on a file that exists.
Bind(d) ==
  /\ \/ socket = NoDaemon /\ MainGoto(d, "cleaned", "up")
          /\ socket' = d /\ UNCHANGED handler
     \/ socket # NoDaemon /\ phase[d] = "cleaned" /\ Exit(d, "exited")
          /\ UNCHANGED socket
  /\ UNCHANGED <<signalled, deaf, together, talkVars>>

\* tokio::select!: ctrl-c, or the shutdown channel.
CtrlC(d) ==
  /\ MainGoto(d, "up", "stopping")
  /\ UNCHANGED <<socket, signalled, deaf, together, handler, talkVars>>

\* Seeded fault: a shutdown waits for the connections to end.
ShutdownReceivedWhenIdle(d) ==
  /\ signalled[d] /\ \A c \in Clients : server[c] = d => handler[c] = "gone"
  /\ MainGoto(d, "up", "stopping")
  /\ UNCHANGED <<socket, signalled, deaf, together, handler, talkVars>>

ShutdownReceived(d) ==
  /\ signalled[d]
  /\ MainGoto(d, "up", "stopping")
  /\ UNCHANGED <<socket, signalled, deaf, together, handler, talkVars>>

\* Seeded fault: the exit leaves the file.
ExitLeavesSocket(d) ==
  /\ phase[d] = "stopping" /\ Exit(d, "exited")
  /\ UNCHANGED <<socket, signalled, deaf, together, talkVars>>

\* accept_task.abort(), then cleanup_socket looks for the file.
ExitChecksSocket(d) ==
  /\ \/ socket # NoDaemon /\ MainGoto(d, "stopping", "unlinking")
          /\ UNCHANGED handler
     \/ socket = NoDaemon /\ phase[d] = "stopping" /\ Exit(d, "exited")
  /\ UNCHANGED <<socket, signalled, deaf, together, talkVars>>

\* It removes the file that is there, whoever bound it.
ExitRemovesSocket(d) ==
  /\ phase[d] = "unlinking"
  /\ Exit(d, "exited")
  /\ socket' = NoDaemon
  /\ UNCHANGED <<signalled, deaf, together, talkVars>>

Killed(d) ==
  /\ Faults /\ Running(d)
  /\ Exit(d, "killed")
  /\ UNCHANGED <<socket, signalled, deaf, together, talkVars>>

-----------------------------------------------------------------------------
(* run_control_server.                                                     *)

Accept(c) ==
  /\ conn[c] \in {"open", "left"} /\ handler[c] = "none"
  /\ Listening(server[c])
  /\ handler' = [handler EXCEPT ![c] = "reading"]
  /\ UNCHANGED <<mainVars, talkVars>>

\* accept().await? returns from the loop and drops the listener with the
\* connections it holds; nobody awaits accept_task, so main does not notice.
AcceptFails(d) ==
  /\ Faults /\ phase[d] = "up"
  /\ d \notin deaf /\ deaf' = deaf \union {d}
  /\ handler' = [c \in Clients |-> IF server[c] = d /\ handler[c] = "none"
                                   THEN "gone" ELSE handler[c]]
  /\ UNCHANGED <<phase, socket, signalled, together, talkVars>>

-----------------------------------------------------------------------------
(* The client of a connection: focl writes one request and reads one       *)
(* response; other programs may write on without waiting.                  *)

Connect(c) ==
  /\ conn[c] = "new"
  /\ socket # NoDaemon /\ Listening(socket)
  /\ conn' = [conn EXCEPT ![c] = "open"]
  /\ server' = [server EXCEPT ![c] = socket]
  /\ UNCHANGED <<mainVars, handler, sent, taken, answer, replies, eventVars>>

ConnectFails(c) ==
  /\ conn[c] = "new"
  /\ socket # NoDaemon => phase[socket] # "up" \/ socket \in deaf
  /\ conn' = [conn EXCEPT ![c] = "refused"]
  /\ UNCHANGED <<mainVars, handler, server, sent, taken, answer, replies,
                 eventVars>>

Send(c, cmd) ==
  /\ conn[c] = "open" /\ handler[c] # "gone"
  /\ \E s \in Scripts[c] : IsPrefix(Append(sent[c], cmd), s)
  /\ sent' = [sent EXCEPT ![c] = Append(@, cmd)]
  /\ UNCHANGED <<mainVars, handler, server, conn, taken, answer, replies,
                 eventVars>>

HangUp(c) ==
  /\ conn[c] = "open"
  /\ conn' = [conn EXCEPT ![c] = "left"]
  /\ UNCHANGED <<mainVars, handler, server, sent, taken, answer, replies,
                 eventVars>>

-----------------------------------------------------------------------------
(* handle_client.                                                          *)

HandlerGoto(c, from, to) ==
  handler[c] = from /\ handler' = [handler EXCEPT ![c] = to]

\* Seeded fault: a line that is not a request is skipped.
ExecuteSkipsGarbage(c) ==
  /\ taken[c] < Len(sent[c])
  /\ taken' = [taken EXCEPT ![c] = @ + 1]
  /\ LET n == taken[c] + 1   cmd == sent[c][n] IN
     \E outcome \in Outcomes[cmd] :
       /\ IF outcome = "closed"
            THEN HandlerGoto(c, "reading", "gone") /\ UNCHANGED answer
          ELSE IF cmd = "garbage"
            THEN HandlerGoto(c, "reading", "reading") /\ UNCHANGED answer
          ELSE /\ HandlerGoto(c, "reading", "replying")
               /\ answer' = [answer EXCEPT ![c] =
                              [id |-> n, ok |-> outcome = "ok"]]
       /\ signalled' = IF cmd = "shutdown"
                         THEN [signalled EXCEPT ![server[c]] = TRUE]
                         ELSE signalled
  /\ UNCHANGED <<phase, socket, deaf, together, clientVars, replies, eventVars>>

\* read_line, from_str and the arm of the command.
Execute(c) ==
  /\ taken[c] < Len(sent[c])
  /\ taken' = [taken EXCEPT ![c] = @ + 1]
  /\ LET n == taken[c] + 1   cmd == sent[c][n] IN
     \E outcome \in Outcomes[cmd] :
       /\ IF outcome = "closed"
            THEN HandlerGoto(c, "reading", "gone") /\ UNCHANGED answer
            ELSE /\ HandlerGoto(c, "reading", "replying")
                 /\ answer' = [answer EXCEPT ![c] =
                                [id |-> IF cmd = "garbage" THEN 0 ELSE n,
                                 ok |-> outcome = "ok"]]
       /\ signalled' = IF cmd = "shutdown"
                         THEN [signalled EXCEPT ![server[c]] = TRUE]
                         ELSE signalled
  /\ UNCHANGED <<phase, socket, deaf, together, clientVars, replies, eventVars>>

\* read_line returns 0 bytes once the client has closed its end.
ReadEof(c) ==
  /\ conn[c] = "left" /\ taken[c] = Len(sent[c])
  /\ HandlerGoto(c, "reading", "gone")
  /\ UNCHANGED <<mainVars, talkVars>>

\* Seeded fault: the handler returns after an error response.
WriteResponseOnce(c) ==
  /\ \/ conn[c] = "left" /\ HandlerGoto(c, "replying", "gone")
          /\ UNCHANGED replies
     \/ /\ conn[c] = "open"
        /\ replies' = [replies EXCEPT ![c] = Append(@, answer[c])]
        /\ HandlerGoto(c, "replying",
                       IF sent[c][taken[c]] = "events_subscribe"
                         THEN "subscribing"
                       ELSE IF answer[c].ok THEN "reading" ELSE "gone")
  /\ UNCHANGED <<mainVars, clientVars, taken, answer, eventVars>>

\* write_response; it fails when the client has gone.
WriteResponse(c) ==
  /\ \/ conn[c] = "left" /\ HandlerGoto(c, "replying", "gone")
          /\ UNCHANGED replies
     \/ /\ conn[c] = "open"
        /\ replies' = [replies EXCEPT ![c] = Append(@, answer[c])]
        /\ HandlerGoto(c, "replying",
                       IF sent[c][taken[c]] = "events_subscribe"
                         THEN "subscribing" ELSE "reading")
  /\ UNCHANGED <<mainVars, clientVars, taken, answer, eventVars>>

\* archive.subscribe_events(): what was sent before is not received.
SubscribeEvents(c) ==
  /\ HandlerGoto(c, "subscribing", "receiving")
  /\ pos' = [pos EXCEPT ![c] = emitted[server[c]] + 1]
  /\ UNCHANGED <<mainVars, clientVars, taken, answer, replies, emitted, events,
                 lagged>>

\* Oldest event the channel still has.
Oldest(d) == IF emitted[d] < Capacity THEN 1 ELSE emitted[d] - Capacity + 1

\* Seeded fault: Lagged ends the subscription's turn without moving on.
RecvStuck(c) ==
  /\ handler[c] = "receiving"
  /\ pos[c] <= emitted[server[c]] /\ pos[c] >= Oldest(server[c])
  /\ HandlerGoto(c, "receiving", "writing")
  /\ UNCHANGED <<mainVars, clientVars, taken, answer, replies, emitted, pos,
                 events, lagged>>

\* rx.recv(): Lagged moves the receiver to the oldest event there is, and
\* the loop continues.  It is never Closed: the handler itself holds a sender.
Recv(c) ==
  /\ handler[c] = "receiving"
  /\ pos[c] <= emitted[server[c]]
  /\ \/ /\ pos[c] < Oldest(server[c])
        /\ HandlerGoto(c, "receiving", "receiving")
        /\ pos' = [pos EXCEPT ![c] = Oldest(server[c])]
        /\ lagged' = lagged \union {c}
     \/ /\ pos[c] >= Oldest(server[c])
        /\ HandlerGoto(c, "receiving", "writing")
        /\ UNCHANGED <<pos, lagged>>
  /\ UNCHANGED <<mainVars, clientVars, taken, answer, replies, emitted, events>>

\* Seeded fault: the next event is again the oldest there is.
WriteEventFromOldest(c) ==
  /\ conn[c] = "open"
  /\ HandlerGoto(c, "writing", "receiving")
  /\ events' = [events EXCEPT ![c] = Append(@, pos[c])]
  /\ pos' = [pos EXCEPT ![c] = Oldest(server[c])]
  /\ UNCHANGED <<mainVars, clientVars, taken, answer, replies, emitted, lagged>>

\* The event is written as a line; that fails when the client has gone.
WriteEvent(c) ==
  /\ \/ conn[c] = "left" /\ HandlerGoto(c, "writing", "gone")
          /\ UNCHANGED <<pos, events>>
     \/ /\ conn[c] = "open"
        /\ HandlerGoto(c, "writing", "receiving")
        /\ events' = [events EXCEPT ![c] = Append(@, pos[c])]
        /\ pos' = [pos EXCEPT ![c] = @ + 1]
  /\ UNCHANGED <<mainVars, clientVars, taken, answer, replies, emitted, lagged>>

\* A peer, the archive or the replicator sends an event; without a subscriber
\* that changes nothing.
Emit(d) ==
  /\ \E c \in Clients :
       /\ server[c] = d
       /\ handler[c] \in {"subscribing", "receiving", "writing"}
  /\ emitted[d] < MaxEvents
  /\ emitted' = [emitted EXCEPT ![d] = @ + 1]
  /\ UNCHANGED <<mainVars, handler, clientVars, taken, answer, replies, pos,
                 events, lagged>>

-----------------------------------------------------------------------------

MainSteps(d) ==
  \/ StaleSocketChecked(d) \/ StaleSocketRemoved(d) \/ Bind(d)
  \/ ShutdownReceived(d) \/ ExitChecksSocket(d) \/ ExitRemovesSocket(d)

HandlerSteps(c) ==
  \/ Accept(c) \/ Execute(c) \/ ReadEof(c) \/ WriteResponse(c)
  \/ SubscribeEvents(c) \/ Recv(c) \/ WriteEvent(c)

Next ==
  \/ \E d \in Daemons :
       \/ MainSteps(d)
       \/ Start(d) \/ StartFails(d) \/ CtrlC(d) \/ Killed(d)
       \/ AcceptFails(d) \/ Emit(d)
  \/ \E c \in Clients :
       \/ HandlerSteps(c)
       \/ Connect(c) \/ ConnectFails(c) \/ HangUp(c)
       \/ \E cmd \in Commands : Send(c, cmd)

Spec == Init /\ [][Next]_vars

\* The runtime polls every task that is ready, and a subscriber reads what it
\* is sent.  Nothing is asked of operators, clients, signals or events.
FairSpec ==
  /\ Spec
  /\ \A d \in Daemons : WF_vars(MainSteps(d))
  /\ \A c \in Clients : WF_vars(HandlerSteps(c))

-----------------------------------------------------------------------------

\* The i-th response on a connection answers the i-th request: it carries its
\* id ("unknown" for a line that has none) and says what that command may
\* say.  write_response and the arms that `continue` (focld.rs:130-137).
RepliesInOrder ==
  \A c \in Clients : \A i \in DOMAIN replies[c] :
    LET cmd == sent[c][i]   reply == replies[c][i] IN
    /\ reply.id = IF cmd = "garbage" THEN 0 ELSE i
    /\ (IF reply.ok THEN "ok" ELSE "error") \in Outcomes[cmd]

\* While daemons run one after the other, the one that is up can be reached
\* through the socket file, also after one that was killed and left its file,
\* and one that has exited leaves no file (cleanup_socket, focld.rs:41 and 69).
SocketInTurn ==
  ~together =>
    \A d \in Daemons : /\ phase[d] = "up" => socket = d
                       /\ phase[d] = "exited" => socket # d

\* A subscriber is written events in the order they were sent, each once, and
\* skips none unless the channel has dropped it (focld.rs:318-329).
EventsInOrder ==
  \A c \in Clients : \A i \in 1..(Len(events[c]) - 1) :
    /\ events[c][i] < events[c][i + 1]
    /\ c \notin lagged => events[c][i + 1] = events[c][i] + 1

\* accept_task has been aborted or has returned.
Unaccepting(d) == phase[d] # "up" \/ d \in deaf

\* Why the n-th request may stay without an answer.
Excused(c, n) ==
  \/ conn[c] # "open" \/ ~Running(server[c])
  \/ handler[c] \in {"none", "gone"} /\ taken[c] = 0 /\ Unaccepting(server[c])
  \/ /\ handler[c] = "gone"
     /\ \E i \in 1..taken[c] : "closed" \in Outcomes[sent[c][i]]
  \/ \E i \in DOMAIN sent[c] : i < n /\ sent[c][i] = "events_subscribe"

\* Every request on a connection that both sides keep open is answered, unless
\* an earlier one subscribed to events (nothing is read after it), a command of
\* the archive failed or a line was not text (`?`, focld.rs:125, 143, 162,
\* 191-193, 205 and 225).
Answered ==
  \A c \in Clients : \A n \in 1..MaxRequests :
    Len(sent[c]) >= n ~> Len(replies[c]) >= n \/ Excused(c, n)

\* After a shutdown command the process ends, whatever its connections do, and
\* even if the response is never written (focld.rs:158 and 62).
StopStops == \A d \in Daemons : signalled[d] ~> ~Running(d)

\* An event sent while a client is subscribed reaches it, unless the channel
\* dropped it first or one of the two ends is gone.
EventReaches ==
  \A c \in Clients : \A e \in 1..MaxEvents :
    (/\ handler[c] \in {"receiving", "writing"}
     /\ pos[c] <= e /\ e <= emitted[server[c]])
      ~> \/ e \in ToSet(events[c])
         \/ c \in lagged /\ pos[c] > e
         \/ handler[c] = "gone"
=============================================================================
