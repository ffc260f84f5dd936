---------------------------- MODULE PeerRegistry ----------------------------
(***************************************************************************)
(* BgpServiceInner.peers (src/bgp/mod.rs), the tasks that run sessions,    *)
(* the addresses that passive peers listen on, and peer_reset commands,    *)
(* which may arrive on several control connections at once.  The map is    *)
(* behind an RwLock that is taken per access: a reset removes the entry,   *)
(* aborts the task, spawns a new one and inserts the new entry in separate *)
(* steps.                                                                  *)
(*                                                                         *)
(* PeerSession models what a task does within a session; here it only      *)
(* gets a connection, goes through the states of PeerFsm and writes them   *)
(* into the entry of its peer, whichever task that entry belongs to.       *)
(***************************************************************************)
EXTENDS Naturals, Sequences, FiniteSets, PeerStates

CONSTANTS
  Configured,     \* the enabled peers, in the order of the configuration
  NoPeer,
  Hosts,          \* hosts that may connect: the routers of peers, and others
  Ips, AnyIp,     \* local IP addresses, and the wildcard among them
  Ports, NoPort,
  NoAddress,      \* no local_address, or no socket bound
  Setups,         \* configurations: who is passive, and the local addresses
  Resets,         \* peer_reset commands, each issued at most once
  Target          \* reset -> the peer it names

Peers == {Configured[i] : i \in DOMAIN Configured}

\* local_address is an IP address with or without a port.
LocalAddresses == [ip : Ips, port : Ports \union {NoPort}]
SocketAddresses == [ip : Ips, port : Ports]

ASSUME ResetsFinite == IsFiniteSet(Resets)
ASSUME RegistryConstants ==
  /\ Configured \in Seq(Peers)
  /\ NoPeer \notin Peers \union Hosts
  /\ AnyIp \in Ips /\ NoPort \notin Ports /\ NoAddress \notin LocalAddresses
  /\ Setups \subseteq
       [passive : SUBSET Peers, remote_port : [Peers -> Ports],
        local_address : [Peers -> LocalAddresses \union {NoAddress}]]
  /\ Target \in [Resets -> Peers]
\* The map is keyed by address; the configuration does not check that each
\* peer has its own.
ASSUME ConfiguredOnce ==
  \A i, j \in DOMAIN Configured : Configured[i] = Configured[j] => i = j

NoTask == 0
TaskIds == 1..(Len(Configured) + Cardinality(Resets))

VARIABLES
  setup,          \* passive, remote_port and local_address of the peers
  entry,          \* peer -> task of its PeerRuntime in the map, or NoTask
  shown,          \* peer -> info.state of its entry
  wrote,          \* history: peer -> the task that reported it, or NoTask
  started,        \* number of peers start_peers is done with
  owner,          \* task -> its peer, NoPeer before it is spawned
  live,           \* tasks that still run
  aborted,        \* tasks whose abort() was called
  stage,          \* task -> the state it last reported
  bound,          \* task -> the address its socket is bound to
  remote,         \* task -> the host its connection leads to
  reset,          \* reset -> where the command stands
  holds           \* reset -> the task it took out of the map or spawned

infoVars == <<shown, wrote>>
mapVars  == <<entry, started, infoVars>>
taskVars == <<owner, live, aborted>>
connVars == <<bound, remote>>
resetVars == <<reset, holds>>
vars == <<setup, mapVars, taskVars, stage, connVars, resetVars>>

TypeOK ==
  /\ setup \in Setups
  /\ entry \in [Peers -> TaskIds \union {NoTask}]
  /\ shown \in [Peers -> PeerState]
  /\ wrote \in [Peers -> TaskIds \union {NoTask}]
  /\ started \in 0..Len(Configured)
  /\ owner \in [TaskIds -> Peers \union {NoPeer}]
  /\ live \subseteq {t \in TaskIds : owner[t] # NoPeer}
  /\ aborted \subseteq TaskIds
  /\ stage \in [TaskIds -> PeerState]
  /\ bound \in [TaskIds -> SocketAddresses \union {NoAddress}]
  /\ remote \in [TaskIds -> Peers \union Hosts \union {NoPeer}]
  /\ \A t \in TaskIds \ live : bound[t] = NoAddress /\ remote[t] = NoPeer
  /\ reset \in [Resets -> {"idle", "removed", "spawned", "ok", "not found"}]
  /\ holds \in [Resets -> TaskIds \union {NoTask}]

Init ==
  /\ setup \in Setups
  /\ entry = [p \in Peers |-> NoTask]
  /\ shown = [p \in Peers |-> "Idle"] /\ wrote = [p \in Peers |-> NoTask]
  /\ started = 0
  /\ owner = [t \in TaskIds |-> NoPeer]
  /\ live = {} /\ aborted = {}
  /\ stage = [t \in TaskIds |-> "Idle"]
  /\ bound = [t \in TaskIds |-> NoAddress]
  /\ remote = [t \in TaskIds |-> NoPeer]
  /\ reset = [r \in Resets |-> "idle"]
  /\ holds = [r \in Resets |-> NoTask]

-----------------------------------------------------------------------------
(* start_peers.                                                            *)

passive == setup.passive

Spawned == {t \in TaskIds : owner[t] # NoPeer}
NextTask == Cardinality(Spawned) + 1

\* spawn_peer_task.
Spawn(p) ==
  /\ owner' = [owner EXCEPT ![NextTask] = p]
  /\ live' = live \union {NextTask}

\* The entry of peer p shows state s, reported by task t.
Shows(p, s, t) ==
  /\ shown' = [shown EXCEPT ![p] = s]
  /\ wrote' = [wrote EXCEPT ![p] = t]

\* insert(address, runtime), with a new PeerInfo.
InsertEntry(p, t) ==
  /\ entry' = [entry EXCEPT ![p] = t]
  /\ Shows(p, "Idle", NoTask)

StartSpawn ==
  /\ started < Len(Configured) /\ Cardinality(Spawned) = started
  /\ Spawn(Configured[started + 1])
  /\ UNCHANGED <<setup, mapVars, aborted, stage, connVars, resetVars>>

StartInsert ==
  /\ started < Len(Configured) /\ Cardinality(Spawned) = started + 1
  /\ InsertEntry(Configured[started + 1], started + 1)
  /\ started' = started + 1
  /\ UNCHANGED <<setup, taskVars, stage, connVars, resetVars>>

-----------------------------------------------------------------------------
(* A task: peer_loop, run_active_session and run_passive_session.          *)

\* set_peer_state: get_mut finds the entry by address, and nothing is written
\* if there is none.
Reports(t, s) ==
  /\ s \in Follows[stage[t]]
  /\ stage' = [stage EXCEPT ![t] = s]
  /\ IF entry[owner[t]] = NoTask
     THEN UNCHANGED infoVars
     ELSE Shows(owner[t], s, t)
  /\ UNCHANGED <<setup, entry, started, taskVars, resetVars>>

\* Seeded fault: the listener outlives the call that bound it.
ClosesStream(t) ==
  /\ remote' = [remote EXCEPT ![t] = NoPeer]
  /\ UNCHANGED bound

\* The stream and the listener of task t are dropped.
Closes(t) ==
  /\ bound' = [bound EXCEPT ![t] = NoAddress]
  /\ remote' = [remote EXCEPT ![t] = NoPeer]

\* Seeded fault: peer_loop makes one attempt.
ConnectOnce(t) ==
  /\ t \in live /\ stage[t] = "Idle"
  /\ Reports(t, "Connect") /\ UNCHANGED connVars

Connect(t) ==
  /\ t \in live /\ Reports(t, "Connect") /\ UNCHANGED connVars

\* The address the peer's socket is bound to.  A passive peer listens on its
\* local_address, with remote_port if that has no port, or on
\* 0.0.0.0:remote_port; an active one takes a local_address without a port as
\* any free port, which is nobody else's and left out.
LocalBind(p) ==
  LET given == setup.local_address[p]
      port  == setup.remote_port[p]
  IN  CASE given # NoAddress /\ given.port # NoPort -> given
        [] p \in passive /\ given # NoAddress /\ given.port = NoPort ->
             [ip |-> given.ip, port |-> port]
        [] p \in passive /\ given = NoAddress -> [ip |-> AnyIp, port |-> port]
        [] OTHER -> NoAddress

\* The system refuses to bind an address that another socket is bound to, or
\* that the wildcard of one covers.
Clash(a, b) ==
  /\ a # NoAddress /\ b # NoAddress /\ a.port = b.port
  /\ a.ip = b.ip \/ AnyIp \in {a.ip, b.ip}

\* TcpListener::bind, or TcpSocket::bind before an active peer connects.
Bind(t) ==
  /\ t \in live /\ stage[t] = "Connect" /\ bound[t] = NoAddress
  /\ LET a == LocalBind(owner[t])
         free == \A u \in TaskIds : ~ Clash(a, bound[u])
     IN  /\ a # NoAddress
         /\ \/ /\ free
               /\ bound' = [bound EXCEPT ![t] = a]
               /\ UNCHANGED <<setup, mapVars, taskVars, stage, remote, resetVars>>
            \/ /\ ~ free
               /\ Reports(t, "Active") /\ UNCHANGED connVars

\* connect to the peer's own address, with TCP-MD5 if configured.
DialActive(t) ==
  /\ t \in live /\ owner[t] \notin passive
  /\ stage[t] = "Connect" /\ remote[t] = NoPeer
  /\ bound[t] = LocalBind(owner[t])
  /\ remote' = [remote EXCEPT ![t] = owner[t]]
  /\ UNCHANGED <<setup, mapVars, taskVars, stage, bound, resetVars>>

\* accept() takes whoever connects first, the router of any peer or another
\* host: nothing compares peer_addr with peer.address.
AcceptPassive(t, host) ==
  /\ t \in live /\ owner[t] \in passive
  /\ stage[t] = "Connect" /\ remote[t] = NoPeer /\ bound[t] # NoAddress
  /\ remote' = [remote EXCEPT ![t] = host]
  /\ UNCHANGED <<setup, mapVars, taskVars, stage, bound, resetVars>>

\* run_session: OpenSent and, if the handshake succeeds, Established.
SessionAdvances(t) ==
  /\ t \in live /\ remote[t] # NoPeer
  /\ \E s \in {"OpenSent", "Established"} : Reports(t, s)
  /\ UNCHANGED connVars

\* The connection is refused or not accepted, set_md5_signature fails, or the
\* session ends: the attempt's stream and listener go with it.
AttemptFails(t) ==
  /\ t \in live /\ Reports(t, "Active")
  /\ owner[t] \in passive => bound[t] # NoAddress
  /\ Closes(t)

\* An aborted task stops at the next await that is not ready; until then it
\* runs on, on its own worker thread.
TaskStops(t) ==
  /\ t \in live \intersect aborted
  /\ live' = live \ {t}
  /\ stage' = [stage EXCEPT ![t] = "Idle"]
  /\ Closes(t)
  /\ UNCHANGED <<setup, mapVars, owner, aborted, resetVars>>

-----------------------------------------------------------------------------
(* peer_reset, after start-up: the control socket is bound later.          *)

Goto(r, from, to) == reset[r] = from /\ reset' = [reset EXCEPT ![r] = to]

ResetRemove(r) ==
  /\ started = Len(Configured) /\ entry[Target[r]] # NoTask
  /\ Goto(r, "idle", "removed")
  /\ holds' = [holds EXCEPT ![r] = entry[Target[r]]]
  /\ entry' = [entry EXCEPT ![Target[r]] = NoTask]
  /\ UNCHANGED <<setup, started, infoVars, taskVars, stage, connVars>>

ResetNotFound(r) ==
  /\ started = Len(Configured) /\ entry[Target[r]] = NoTask
  /\ Goto(r, "idle", "not found")
  /\ UNCHANGED <<setup, mapVars, taskVars, stage, connVars, holds>>

\* Seeded fault: the old task is not aborted.
ResetSpawnNoAbort(r) ==
  /\ Goto(r, "removed", "spawned")
  /\ Spawn(Target[r])
  /\ holds' = [holds EXCEPT ![r] = NextTask]
  /\ UNCHANGED <<setup, mapVars, aborted, stage, connVars>>

\* abort() of the old task, then spawn_peer_task.
ResetSpawn(r) ==
  /\ Goto(r, "removed", "spawned")
  /\ aborted' = aborted \union {holds[r]}
  /\ Spawn(Target[r])
  /\ holds' = [holds EXCEPT ![r] = NextTask]
  /\ UNCHANGED <<setup, mapVars, stage, connVars>>

\* Seeded fault: the new entry takes over the PeerInfo of the old one.
ResetInsertKeepsInfo(r) ==
  /\ Goto(r, "spawned", "ok")
  /\ entry' = [entry EXCEPT ![Target[r]] = holds[r]]
  /\ Shows(Target[r], shown[Target[r]], NoTask)
  /\ UNCHANGED <<setup, started, taskVars, stage, connVars, holds>>

\* Seeded fault: the new runtime is dropped instead of inserted.
ResetInsertSkips(r) ==
  /\ Goto(r, "spawned", "ok")
  /\ UNCHANGED <<setup, mapVars, taskVars, stage, connVars, holds>>

ResetInsert(r) ==
  /\ Goto(r, "spawned", "ok")
  /\ InsertEntry(Target[r], holds[r])
  /\ UNCHANGED <<setup, started, taskVars, stage, connVars, holds>>

-----------------------------------------------------------------------------

TaskSteps(t) == Connect(t) \/ Bind(t) \/ DialActive(t)
TaskMay(t) ==
  \/ \E host \in Hosts : AcceptPassive(t, host)
  \/ SessionAdvances(t) \/ AttemptFails(t) \/ TaskStops(t)
Reset(r) == ResetRemove(r) \/ ResetNotFound(r) \/ ResetSpawn(r) \/ ResetInsert(r)

Next ==
  \/ StartSpawn \/ StartInsert
  \/ \E t \in TaskIds : TaskSteps(t) \/ TaskMay(t)
  \/ \E r \in Resets : Reset(r)

Spec == Init /\ [][Next]_vars

\* Start-up and commands that were accepted are carried on, a task goes on
\* with its loop, and an aborted one reaches an await.  Whether anybody
\* connects or a session comes about or ends is up to the network.
FairSpec ==
  /\ Spec
  /\ WF_vars(StartSpawn) /\ WF_vars(StartInsert)
  /\ \A r \in Resets : WF_vars(ResetSpawn(r)) /\ WF_vars(ResetInsert(r))
  /\ \A t \in TaskIds : WF_vars(TaskSteps(t)) /\ WF_vars(TaskStops(t))

-----------------------------------------------------------------------------
(* Properties.                                                             *)

TasksOf(p) == {t \in live \ aborted : owner[t] = p}

\* However resets interleave, a peer has one session task that is not being
\* aborted, and the entry in the map, when there is one, is that task's: no
\* reset leaves behind a task that no later reset can abort.
OneTask ==
  \A i \in 1..started :
    /\ Cardinality(TasksOf(Configured[i])) = 1
    /\ entry[Configured[i]] # NoTask =>
         entry[Configured[i]] \in TasksOf(Configured[i])

\* The window in which a configured peer is missing from the map closes: it
\* is there again, and for good once no reset is under way.
PeerReturns == \A p \in Peers : []<>(entry[p] # NoTask)

\* No other peer's socket can be in the way of p's.
ListensAlone(p) ==
  \A q \in Peers \ {p} : ~ Clash(LocalBind(p), LocalBind(q))

\* A passive peer whose address no other peer's clashes with listens on it
\* again and again, although the task of before a reset may still have it when
\* the new one binds: run_passive_session's error leads to another attempt.
ListensAgain ==
  \A p \in Peers :
    []<>(p \in passive /\ ListensAlone(p) =>
           \E t \in live : owner[t] = p /\ bound[t] = LocalBind(p))

\* What the entry of a peer shows is what its own task reported last, or Idle
\* while none of its reports has found the entry: start_peers and peer_reset
\* spawn the task before they insert.  Only a task that was aborted and still
\* runs can put something else there (bgp/mod.rs:333).
ShownIsCurrent ==
  \A p \in Peers :
    entry[p] # NoTask /\ wrote[p] \notin aborted =>
      shown[p] = IF wrote[p] = NoTask THEN "Idle" ELSE stage[entry[p]]

\* A session of a peer is with that peer's router.
SessionIsOwn == \A t \in live : remote[t] \in {owner[t], NoPeer}
=============================================================================
