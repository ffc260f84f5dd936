------------------------- MODULE PeerRegistryProofs -------------------------
(***************************************************************************)
(* Proofs about PeerRegistry: the types, one task per peer, and what its   *)
(* entry shows, for any configuration without duplicate addresses and any  *)
(* number of resets that interleave in any way.                            *)
(*                                                                         *)
(* The argument for OneTask follows a peer's current task: it is the one   *)
(* in the map or, while a reset has taken the entry out, the one that this *)
(* reset holds; and no second reset can be under way for the peer then,    *)
(* because it would have to find an entry (CurrentTask).                   *)
(***************************************************************************)
EXTENDS PeerRegistry, FiniteSetTheorems, TLAPS

\* The configuration is a list.
L == Len(Configured)

\* Resets that have spawned their task.
Respawned == {r \in Resets : reset[r] \in {"spawned", "ok"}}

\* Tasks are numbered in the order in which they are spawned: one for each
\* peer that start_peers has got to, then one for each reset.
TasksNumbered ==
  /\ Cardinality(Spawned) \in Nat /\ Spawned = 1..Cardinality(Spawned)
  /\ started < L => Cardinality(Spawned) \in {started, started + 1}
  /\ started = L => Cardinality(Spawned) = L + Cardinality(Respawned)
  /\ aborted \subseteq Spawned

\* During start_peers no command has been taken, and the i-th task is that of
\* the i-th peer.
Starting ==
  started < L =>
    /\ \A r \in Resets : reset[r] = "idle"
    /\ aborted = {} /\ live = Spawned
    /\ \A t \in Spawned : owner[t] = Configured[t]

\* A reset is between the removal and the insertion of its peer's entry.
UnderWay(r) == reset[r] \in {"removed", "spawned"}

CurrentTask ==
  \A i \in 1..started :
    LET p == Configured[i] IN
    /\ entry[p] # NoTask =>
         /\ TasksOf(p) = {entry[p]}
         /\ \A r \in Resets : Target[r] = p => ~ UnderWay(r)
    /\ entry[p] = NoTask =>
         \E r \in Resets :
           /\ Target[r] = p /\ UnderWay(r) /\ TasksOf(p) = {holds[r]}
           /\ \A q \in Resets : Target[q] = p /\ UnderWay(q) => q = r

\* start_peers inserts entries in the order of the configuration.
EntriesStarted ==
  \A p \in Peers : entry[p] # NoTask => \E i \in 1..started : p = Configured[i]

\* What an entry shows was reported by its own task, whose state it is, by an
\* aborted one, or by none.
ShownFollows ==
  \A p \in Peers : entry[p] # NoTask =>
    /\ wrote[p] = NoTask => shown[p] = "Idle"
    /\ wrote[p] = entry[p] => shown[p] = stage[entry[p]]
    /\ wrote[p] \in {NoTask, entry[p]} \union aborted

RegistryInv ==
  /\ TypeOK /\ TasksNumbered /\ Starting /\ CurrentTask
  /\ EntriesStarted /\ ShownFollows

-----------------------------------------------------------------------------
(* Spawning a task.                                                        *)

LEMMA ConfiguredFacts ==
  /\ L \in Nat /\ DOMAIN Configured = 1..L
  /\ \A i \in 1..L : Configured[i] \in Peers
  /\ \A p \in Peers : \E i \in 1..L : p = Configured[i]
  /\ \A i, j \in 1..L : Configured[i] = Configured[j] => i = j
  /\ Cardinality(Resets) \in Nat
  /\ TaskIds = 1..(L + Cardinality(Resets))
<1>1. L \in Nat /\ DOMAIN Configured = 1..L
  BY RegistryConstants DEF L
<1>2. Cardinality(Resets) \in Nat
  BY ResetsFinite, FS_CardinalityType
<1> QED
  BY <1>1, <1>2, ConfiguredOnce DEF Peers, TaskIds, L

\* A spawned task has the next number and is nobody's before.
LEMMA SpawnTask ==
  ASSUME TypeOK, TasksNumbered, NEW p \in Peers, NextTask \in TaskIds,
         Spawn(p)
  PROVE  /\ NextTask \notin Spawned /\ NextTask # NoTask
         /\ NextTask \notin live /\ NextTask \notin aborted
         /\ Cardinality(Spawned') = Cardinality(Spawned) + 1
         /\ Spawned' = 1..Cardinality(Spawned')
         /\ Spawned' = Spawned \union {NextTask}
         /\ owner' \in [TaskIds -> Peers \union {NoPeer}]
         /\ owner'[NextTask] = p
         /\ \A t \in TaskIds : t # NextTask => owner'[t] = owner[t]
         /\ live' = live \union {NextTask}
<1>n. PICK n \in Nat : n = Cardinality(Spawned)
  BY DEF TasksNumbered
<1>s. Spawned = 1..n
  BY <1>n DEF TasksNumbered
<1>0. NextTask = n + 1
  BY <1>n DEF NextTask
<1>1. NextTask \notin Spawned
  BY <1>s, <1>0
<1>2. /\ owner' \in [TaskIds -> Peers \union {NoPeer}] /\ owner'[NextTask] = p
      /\ \A t \in TaskIds : t # NextTask => owner'[t] = owner[t]
      /\ live' = live \union {NextTask}
  BY DEF Spawn, TypeOK
<1>3. Spawned' = Spawned \union {NextTask}
  BY <1>1, <1>2, RegistryConstants DEF Spawned
<1>4. Spawned' = 1..(n + 1)
  BY <1>s, <1>0, <1>3
<1>5. Cardinality(1..(n + 1)) = n + 1
  BY FS_Interval
<1>6. live \subseteq Spawned /\ aborted \subseteq Spawned
  BY DEF TypeOK, Spawned, TasksNumbered
<1>7. Cardinality(Spawned') = Cardinality(Spawned) + 1
  BY <1>n, <1>4, <1>5
<1>8. Spawned' = 1..Cardinality(Spawned')
  BY <1>4, <1>5
<1>9. NextTask # NoTask
  BY <1>0 DEF NoTask
<1> QED
  BY <1>1, <1>2, <1>3, <1>6, <1>7, <1>8, <1>9

\* There is a number left for every reset that spawns.
LEMMA RespawnCounted ==
  ASSUME TypeOK, NEW r \in Resets, reset[r] = "removed",
         reset' = [reset EXCEPT ![r] = "spawned"]
  PROVE  /\ Cardinality(Respawned) \in Nat
         /\ Cardinality(Respawned) < Cardinality(Resets)
         /\ Cardinality(Respawned') = Cardinality(Respawned) + 1
<1>1. Respawned \in SUBSET Resets /\ r \notin Respawned
  BY DEF Respawned
<1>2. Respawned' = Respawned \union {r}
  BY DEF Respawned, TypeOK
<1>3. IsFiniteSet(Respawned) /\ Cardinality(Respawned) <= Cardinality(Resets)
  BY <1>1, ResetsFinite, FS_Subset
<1>4. Cardinality(Respawned) # Cardinality(Resets)
  BY <1>1, ResetsFinite, FS_Subset
<1>5. Cardinality(Respawned) \in Nat
  BY <1>3, FS_CardinalityType
<1>6. Cardinality(Respawned \union {r}) = Cardinality(Respawned) + 1
  BY <1>1, <1>3, FS_AddElement
<1> QED
  BY <1>2, <1>3, <1>4, <1>5, <1>6, ConfiguredFacts

\* A reset under way, or done, means that start_peers is over.
LEMMA Started ==
  ASSUME TypeOK, Starting, NEW r \in Resets, reset[r] # "idle"
  PROVE  started = L
<1>1. started \in 0..L /\ L \in Nat
  BY ConfiguredFacts DEF TypeOK, L
<1>2. ~ (started < L)
  BY DEF Starting
<1> QED
  BY <1>1, <1>2

\* The next peer of start_peers.
LEMMA NextPeer ==
  ASSUME TypeOK, started < Len(Configured)
  PROVE  /\ started \in Nat /\ started < L /\ started + 1 \in 1..L
         /\ started + 1 \in TaskIds /\ Configured[started + 1] \in Peers
<1>0. L \in Nat /\ Len(Configured) = L
  BY ConfiguredFacts DEF L
<1>1. started \in Nat /\ started < L
  <2>1. started \in 0..Len(Configured)
    BY DEF TypeOK
  <2> QED
    BY <1>0, <2>1
<1>2. started + 1 \in 1..L
  BY <1>0, <1>1
<1> QED
  BY <1>1, <1>2, ConfiguredFacts

LEMMA MaySpawn ==
  ASSUME TypeOK, TasksNumbered, Starting
  PROVE  /\ StartSpawn => NextTask \in TaskIds
         /\ \A r \in Resets : ResetSpawn(r) => NextTask \in TaskIds
<1> PICK n \in Nat : n = Cardinality(Spawned) /\ NextTask = n + 1
  BY DEF TasksNumbered, NextTask
<1>1. ASSUME StartSpawn
      PROVE  NextTask \in TaskIds
  <2>1. n < L
    BY <1>1 DEF StartSpawn, L
  <2> QED
    BY <2>1, ConfiguredFacts
<1>2. ASSUME NEW r \in Resets, ResetSpawn(r)
      PROVE  NextTask \in TaskIds
  <2>1. started = L
    BY <1>2, Started DEF ResetSpawn, Goto
  <2>2. n = L + Cardinality(Respawned)
    BY <2>1 DEF TasksNumbered
  <2>3. /\ Cardinality(Respawned) \in Nat
        /\ Cardinality(Respawned) < Cardinality(Resets)
    BY <1>2, RespawnCounted DEF ResetSpawn, Goto
  <2> QED
    BY <2>2, <2>3, ConfiguredFacts
<1> QED
  BY <1>1, <1>2

\* The task that a reset under way holds is its peer's current one, and the
\* reset is the only one under way for that peer.
LEMMA HeldTask ==
  ASSUME TypeOK, Starting, CurrentTask, NEW r \in Resets, UnderWay(r)
  PROVE  /\ started = L /\ entry[Target[r]] = NoTask
         /\ TasksOf(Target[r]) = {holds[r]}
         /\ holds[r] \in live \ aborted /\ owner[holds[r]] = Target[r]
         /\ \A q \in Resets : Target[q] = Target[r] /\ UnderWay(q) => q = r
<1>1. started = L
  BY Started DEF UnderWay
<1>2. PICK i \in 1..started : Target[r] = Configured[i]
  BY <1>1, ConfiguredFacts, RegistryConstants
<1>3. /\ entry[Target[r]] = NoTask
      /\ TasksOf(Target[r]) = {holds[r]}
      /\ \A q \in Resets : Target[q] = Target[r] /\ UnderWay(q) => q = r
  BY <1>2 DEF CurrentTask
<1>4. holds[r] \in TasksOf(Target[r])
  BY <1>3
<1> QED
  BY <1>1, <1>3, <1>4 DEF TasksOf

-----------------------------------------------------------------------------
(* What the steps of a task, and of a reset, leave alone.                  *)

LEMMA TaskStep ==
  ASSUME TypeOK, NEW t \in TaskIds, TaskSteps(t) \/ TaskMay(t)
  PROVE  /\ UNCHANGED <<setup, entry, started, owner, aborted, reset, holds>>
         /\ t \in live
         /\ (live' = live) \/ (t \in aborted /\ live' = live \ {t})
<1> USE DEF Reports, mapVars, infoVars, taskVars, resetVars
<1>1. CASE Connect(t) \/ Bind(t) \/ DialActive(t)
  BY <1>1 DEF Connect, Bind, DialActive
<1>2. CASE \E host \in Hosts : AcceptPassive(t, host)
  BY <1>2 DEF AcceptPassive
<1>3. CASE SessionAdvances(t) \/ AttemptFails(t) \/ TaskStops(t)
  BY <1>3 DEF SessionAdvances, AttemptFails, TaskStops
<1> QED
  BY <1>1, <1>2, <1>3 DEF TaskSteps, TaskMay

\* A step of a task reports a state, stops the task, or leaves the states and
\* what is shown alone.
LEMMA TaskReports ==
  ASSUME NEW t \in TaskIds, TaskSteps(t) \/ TaskMay(t)
  PROVE  \/ \E s : Reports(t, s)
         \/ TaskStops(t)
         \/ UNCHANGED <<stage, shown, wrote>>
<1> USE DEF mapVars, infoVars, infoVars
<1>1. Connect(t) \/ SessionAdvances(t) \/ AttemptFails(t) => \E s : Reports(t, s)
  BY DEF Connect, SessionAdvances, AttemptFails
<1>2. Bind(t) => (\E s : Reports(t, s)) \/ UNCHANGED <<stage, shown, wrote>>
  BY DEF Bind
<1>3. DialActive(t) \/ (\E host \in Hosts : AcceptPassive(t, host))
        => UNCHANGED <<stage, shown, wrote>>
  BY DEF DialActive, AcceptPassive
<1> QED
  BY <1>1, <1>2, <1>3 DEF TaskSteps, TaskMay

\* What a report changes.
LEMMA ReportStep ==
  ASSUME TypeOK, NEW t \in live, NEW s, Reports(t, s)
  PROVE  /\ s \in PeerState /\ owner[t] \in Peers
         /\ \A u \in TaskIds : stage'[u] = IF u = t THEN s ELSE stage[u]
         /\ \A p \in Peers :
              IF p = owner[t] /\ entry[p] # NoTask
              THEN shown'[p] = s /\ wrote'[p] = t
              ELSE shown'[p] = shown[p] /\ wrote'[p] = wrote[p]
         /\ stage' \in [TaskIds -> PeerState]
         /\ shown' \in [Peers -> PeerState]
         /\ wrote' \in [Peers -> TaskIds \union {NoTask}]
<1>1. t \in TaskIds /\ owner[t] \in Peers
  BY DEF TypeOK
<1>2. s \in PeerState
  <2>1. s \in Follows[stage[t]] /\ stage[t] \in PeerState
    BY <1>1 DEF Reports, TypeOK
  <2> QED
    BY <2>1 DEF Follows, PeerState
<1>3. /\ stage' \in [TaskIds -> PeerState]
      /\ \A u \in TaskIds : stage'[u] = IF u = t THEN s ELSE stage[u]
  BY <1>1, <1>2 DEF Reports, TypeOK
<1>4. CASE entry[owner[t]] = NoTask
  <2>1. UNCHANGED <<shown, wrote>>
    BY <1>4 DEF Reports, infoVars
  <2> QED
    BY <1>1, <1>2, <1>3, <1>4, <2>1 DEF TypeOK
<1>5. CASE entry[owner[t]] # NoTask
  <2>1. /\ shown' = [shown EXCEPT ![owner[t]] = s]
        /\ wrote' = [wrote EXCEPT ![owner[t]] = t]
    BY <1>5 DEF Reports, Shows
  <2> QED
    BY <1>1, <1>2, <1>3, <1>5, <2>1 DEF TypeOK
<1> QED
  BY <1>4, <1>5

-----------------------------------------------------------------------------
(* The types.                                                              *)

\* An address that LocalBind gives is one of a socket.
LEMMA BindAddress ==
  ASSUME TypeOK, NEW p \in Peers
  PROVE  LocalBind(p) \in SocketAddresses \union {NoAddress}
<1> DEFINE given == setup.local_address[p]
<1>1. /\ given \in LocalAddresses \union {NoAddress}
      /\ setup.remote_port[p] \in Ports /\ AnyIp \in Ips
  BY RegistryConstants DEF TypeOK
<1>2. given # NoAddress =>
        /\ given.ip \in Ips /\ given.port \in Ports \union {NoPort}
        /\ given = [ip |-> given.ip, port |-> given.port]
  BY <1>1 DEF LocalAddresses
<1>3. given # NoAddress /\ given.port # NoPort => given \in SocketAddresses
  BY <1>2 DEF SocketAddresses
<1>4. \A i \in Ips : [ip |-> i, port |-> setup.remote_port[p]] \in SocketAddresses
  BY <1>1 DEF SocketAddresses
<1> HIDE DEF given
<1> QED
  BY <1>1, <1>2, <1>3, <1>4 DEF LocalBind, given

LEMMA TaskTypes ==
  ASSUME TypeOK, NEW t \in TaskIds, TaskSteps(t) \/ TaskMay(t)
  PROVE  TypeOK'
<1>0. /\ UNCHANGED <<setup, entry, started, owner, aborted, reset, holds>>
      /\ t \in live /\ owner[t] \in Peers
      /\ (live' = live) \/ (t \in aborted /\ live' = live \ {t})
  BY TaskStep DEF TypeOK
<1>1. /\ stage' \in [TaskIds -> PeerState] /\ shown' \in [Peers -> PeerState]
      /\ wrote' \in [Peers -> TaskIds \union {NoTask}]
  <2>1. CASE \E s : Reports(t, s)
    BY <1>0, <2>1, ReportStep
  <2>2. CASE TaskStops(t)
    BY <2>2 DEF TaskStops, TypeOK, PeerState, mapVars, infoVars
  <2>3. CASE UNCHANGED <<stage, shown, wrote>>
    BY <2>3 DEF TypeOK
  <2> QED
    BY <2>1, <2>2, <2>3, TaskReports
<1>2. \/ UNCHANGED <<bound, remote>> /\ live' = live
      \/ /\ live' = live /\ remote' = remote
         /\ \E a \in SocketAddresses \union {NoAddress} :
              bound' = [bound EXCEPT ![t] = a]
      \/ /\ live' = live /\ bound' = bound
         /\ \E host \in Peers \union Hosts :
              remote' = [remote EXCEPT ![t] = host]
      \/ Closes(t)
  <2>1. CASE Connect(t) \/ SessionAdvances(t)
    BY <2>1 DEF Connect, SessionAdvances, Reports, taskVars, connVars
  <2>2. CASE Bind(t)
    BY <1>0, <2>2, BindAddress DEF Bind, Reports, taskVars, connVars
  <2>3. CASE DialActive(t) \/ \E host \in Hosts : AcceptPassive(t, host)
    BY <1>0, <2>3 DEF DialActive, AcceptPassive, taskVars
  <2>4. CASE AttemptFails(t) \/ TaskStops(t)
    BY <2>4 DEF AttemptFails, TaskStops
  <2> QED
    BY <2>1, <2>2, <2>3, <2>4 DEF TaskSteps, TaskMay
<1>3. /\ bound' \in [TaskIds -> SocketAddresses \union {NoAddress}]
      /\ remote' \in [TaskIds -> Peers \union Hosts \union {NoPeer}]
      /\ \A u \in TaskIds \ live' : bound'[u] = NoAddress /\ remote'[u] = NoPeer
  <2>1. CASE UNCHANGED <<bound, remote>> /\ live' = live
    BY <2>1 DEF TypeOK
  <2>2. CASE /\ live' = live /\ remote' = remote
             /\ \E a \in SocketAddresses \union {NoAddress} :
                  bound' = [bound EXCEPT ![t] = a]
    BY <1>0, <2>2 DEF TypeOK
  <2>3. CASE /\ live' = live /\ bound' = bound
             /\ \E host \in Peers \union Hosts :
                  remote' = [remote EXCEPT ![t] = host]
    BY <1>0, <2>3 DEF TypeOK
  <2>4. CASE Closes(t)
    <3>1. /\ bound' = [bound EXCEPT ![t] = NoAddress]
          /\ remote' = [remote EXCEPT ![t] = NoPeer]
      BY <2>4 DEF Closes
    <3> QED
      BY <1>0, <3>1 DEF TypeOK
  <2> QED
    BY <1>2, <2>1, <2>2, <2>3, <2>4
<1> QED
  BY <1>0, <1>1, <1>3 DEF TypeOK

LEMMA ResetTypes ==
  ASSUME TypeOK, TasksNumbered, Starting, CurrentTask, NEW r \in Resets,
         Reset(r)
  PROVE  TypeOK'
<1> USE DEF mapVars, infoVars, taskVars, connVars, Goto, InsertEntry,
           Shows
<1>1. CASE ResetRemove(r)
  BY <1>1, RegistryConstants DEF ResetRemove, TypeOK
<1>2. CASE ResetNotFound(r)
  BY <1>2 DEF ResetNotFound, TypeOK
<1>3. CASE ResetSpawn(r)
  <2>1. NextTask \in TaskIds /\ Target[r] \in Peers
    BY <1>3, MaySpawn, RegistryConstants
  <2>2. /\ owner' \in [TaskIds -> Peers \union {NoPeer}]
        /\ owner'[NextTask] # NoPeer /\ live' = live \union {NextTask}
        /\ \A t \in TaskIds : t # NextTask => owner'[t] = owner[t]
    BY <1>3, <2>1, SpawnTask, RegistryConstants DEF ResetSpawn
  <2>3. live' \subseteq {t \in TaskIds : owner'[t] # NoPeer}
    BY <2>1, <2>2 DEF TypeOK
  <2>4. aborted' \subseteq TaskIds
    <3>1. holds[r] \in TaskIds
      BY <1>3, HeldTask DEF ResetSpawn, UnderWay, TypeOK
    <3> QED
      BY <1>3, <3>1 DEF ResetSpawn, TypeOK
  <2>5. \A t \in TaskIds \ live' : bound'[t] = NoAddress /\ remote'[t] = NoPeer
    BY <1>3, <2>2 DEF ResetSpawn, TypeOK
  <2>6. /\ reset' \in [Resets -> {"idle", "removed", "spawned", "ok", "not found"}]
        /\ holds' \in [Resets -> TaskIds \union {NoTask}]
    BY <1>3, <2>1 DEF ResetSpawn, TypeOK
  <2> QED
    BY <1>3, <2>2, <2>3, <2>4, <2>5, <2>6 DEF ResetSpawn, TypeOK
<1>4. CASE ResetInsert(r)
  BY <1>4, RegistryConstants DEF ResetInsert, TypeOK, PeerState
<1> QED
  BY <1>1, <1>2, <1>3, <1>4 DEF Reset

LEMMA NextTypeOK ==
  ASSUME TypeOK, TasksNumbered, Starting, CurrentTask, [Next]_vars
  PROVE  TypeOK'
<1> USE DEF mapVars, infoVars, taskVars, connVars, resetVars
<1>1. CASE StartSpawn
  <2>1. /\ NextTask \in TaskIds /\ Configured[started + 1] \in Peers
    BY <1>1, MaySpawn, NextPeer DEF StartSpawn
  <2>2. /\ owner' \in [TaskIds -> Peers \union {NoPeer}]
        /\ owner'[NextTask] # NoPeer /\ live' = live \union {NextTask}
        /\ \A t \in TaskIds : t # NextTask => owner'[t] = owner[t]
    BY <1>1, <2>1, SpawnTask, RegistryConstants DEF StartSpawn
  <2>3. live' \subseteq {t \in TaskIds : owner'[t] # NoPeer}
    BY <2>1, <2>2 DEF TypeOK
  <2>4. \A t \in TaskIds \ live' : bound'[t] = NoAddress /\ remote'[t] = NoPeer
    BY <1>1, <2>2 DEF StartSpawn, TypeOK
  <2> QED
    BY <1>1, <2>2, <2>3, <2>4 DEF StartSpawn, TypeOK
<1>2. CASE StartInsert
  <2>1. /\ started \in Nat /\ started < L /\ started + 1 \in TaskIds
        /\ Configured[started + 1] \in Peers
    BY <1>2, NextPeer DEF StartInsert
  <2>2. entry' \in [Peers -> TaskIds \union {NoTask}]
    BY <1>2, <2>1 DEF StartInsert, InsertEntry, TypeOK
  <2>4. /\ shown' \in [Peers -> PeerState]
        /\ wrote' \in [Peers -> TaskIds \union {NoTask}]
    BY <1>2, <2>1 DEF StartInsert, InsertEntry, Shows, TypeOK, PeerState
  <2>3. started' \in 0..L
    BY <1>2, <2>1, ConfiguredFacts DEF StartInsert
  <2> QED
    BY <1>2, <2>2, <2>3, <2>4 DEF StartInsert, TypeOK, L
<1>3. CASE \E t \in TaskIds : TaskSteps(t) \/ TaskMay(t)
  BY <1>3, TaskTypes
<1>4. CASE \E r \in Resets : Reset(r)
  BY <1>4, ResetTypes
<1>5. CASE UNCHANGED vars
  BY <1>5 DEF vars, TypeOK
<1> QED
  BY <1>1, <1>2, <1>3, <1>4, <1>5 DEF Next

-----------------------------------------------------------------------------
(* The numbers of tasks.                                                   *)

LEMMA NextTasksNumbered ==
  ASSUME TypeOK, TasksNumbered, Starting, CurrentTask, [Next]_vars
  PROVE  TasksNumbered'
<1> USE DEF mapVars, infoVars, taskVars, connVars, resetVars, Goto
<1>0. L' = L /\ L \in Nat /\ started \in 0..L
  BY ConfiguredFacts DEF L, TypeOK
<1>1. CASE StartSpawn
  <2>1. /\ Cardinality(Spawned') = Cardinality(Spawned) + 1
        /\ Spawned' = 1..Cardinality(Spawned') /\ Spawned \subseteq Spawned'
    <3>1. NextTask \in TaskIds /\ Configured[started + 1] \in Peers
      BY <1>1, MaySpawn, NextPeer DEF StartSpawn
    <3> QED
      BY <1>1, <3>1, SpawnTask DEF StartSpawn
  <2> QED
    BY <1>0, <1>1, <2>1 DEF StartSpawn, TasksNumbered, L
<1>2. CASE StartInsert
  <2>1. Spawned' = Spawned /\ started < L
    BY <1>2 DEF StartInsert, Spawned, L
  <2>2. Cardinality(Respawned) = 0 /\ Respawned' = Respawned
    <3>1. Respawned = {} /\ Respawned' = Respawned
      BY <1>2, <2>1 DEF StartInsert, Starting, Respawned
    <3> QED
      BY <3>1, FS_EmptySet
  <2> QED
    BY <1>0, <1>2, <2>1, <2>2 DEF StartInsert, TasksNumbered
<1>3. CASE \E t \in TaskIds : TaskSteps(t) \/ TaskMay(t)
  <2>1. UNCHANGED <<started, owner, aborted, reset>>
    BY <1>3, TaskStep
  <2> QED
    BY <2>1 DEF TasksNumbered, Spawned, Respawned, L
<1>4. ASSUME NEW r \in Resets, ResetSpawn(r)
      PROVE  TasksNumbered'
  <2>1. /\ Cardinality(Spawned') = Cardinality(Spawned) + 1
        /\ Spawned' = 1..Cardinality(Spawned') /\ Spawned \subseteq Spawned'
    <3>1. NextTask \in TaskIds /\ Target[r] \in Peers
      BY <1>4, MaySpawn, RegistryConstants
    <3> QED
      BY <1>4, <3>1, SpawnTask DEF ResetSpawn
  <2>2. /\ Cardinality(Respawned) \in Nat
        /\ Cardinality(Respawned') = Cardinality(Respawned) + 1
    BY <1>4, RespawnCounted DEF ResetSpawn
  <2>3. started = L /\ holds[r] \in Spawned /\ started' = started
    BY <1>4, HeldTask DEF ResetSpawn, UnderWay, TypeOK, Spawned
  <2>4. aborted' \subseteq Spawned'
    BY <1>4, <2>1, <2>3 DEF ResetSpawn, TasksNumbered
  <2> QED
    BY <1>0, <2>1, <2>2, <2>3, <2>4 DEF TasksNumbered
<1>5. ASSUME NEW r \in Resets,
             ResetRemove(r) \/ ResetNotFound(r) \/ ResetInsert(r)
      PROVE  TasksNumbered'
  <2>1. UNCHANGED <<started, owner, aborted>>
    BY <1>5 DEF ResetRemove, ResetNotFound, ResetInsert
  <2>2. Respawned' = Respawned
    BY <1>5 DEF ResetRemove, ResetNotFound, ResetInsert, Respawned, TypeOK
  <2> QED
    BY <2>1, <2>2 DEF TasksNumbered, Spawned, L
<1>6. CASE UNCHANGED vars
  BY <1>6 DEF vars, TasksNumbered, Spawned, Respawned, L
<1> QED
  BY <1>1, <1>2, <1>3, <1>4, <1>5, <1>6 DEF Next, Reset

LEMMA NextStarting ==
  ASSUME TypeOK, TasksNumbered, Starting, CurrentTask, [Next]_vars
  PROVE  Starting'
<1> USE DEF mapVars, infoVars, taskVars, connVars, resetVars, Goto
<1>0. L' = L /\ L \in Nat /\ started \in 0..L
  BY ConfiguredFacts DEF L, TypeOK
<1>1. CASE StartSpawn
  <2>1. NextTask \in TaskIds /\ Configured[started + 1] \in Peers
    BY <1>1, MaySpawn, NextPeer DEF StartSpawn
  <2>2. /\ Spawned' = Spawned \union {NextTask} /\ live' = live \union {NextTask}
        /\ owner'[NextTask] = Configured[started + 1] /\ NextTask = started + 1
        /\ \A t \in Spawned : owner'[t] = owner[t]
    BY <1>1, <2>1, SpawnTask DEF StartSpawn, NextTask, Spawned
  <2> QED
    BY <1>0, <1>1, <2>2 DEF StartSpawn, Starting, L
<1>2. CASE StartInsert
  BY <1>0, <1>2 DEF StartInsert, Starting, Spawned, L
<1>3. CASE \E t \in TaskIds : TaskSteps(t) \/ TaskMay(t)
  BY <1>0, <1>3, TaskStep DEF Starting, Spawned
<1>4. CASE \E r \in Resets : Reset(r)
  <2>1. started' = started /\ started = L
    BY <1>4, HeldTask
       DEF Reset, ResetRemove, ResetNotFound, ResetSpawn, ResetInsert,
           UnderWay, L
  <2> QED
    BY <1>0, <2>1 DEF Starting
<1>5. CASE UNCHANGED vars
  BY <1>0, <1>5 DEF vars, Starting, Spawned
<1> QED
  BY <1>1, <1>2, <1>3, <1>4, <1>5 DEF Next

-----------------------------------------------------------------------------
(* One task for each peer.                                                 *)

\* What CurrentTask says of one peer.
HasCurrent(p) ==
  /\ entry[p] # NoTask =>
       /\ TasksOf(p) = {entry[p]}
       /\ \A r \in Resets : Target[r] = p => ~ UnderWay(r)
  /\ entry[p] = NoTask =>
       \E r \in Resets :
         /\ Target[r] = p /\ UnderWay(r) /\ TasksOf(p) = {holds[r]}
         /\ \A q \in Resets : Target[q] = p /\ UnderWay(q) => q = r

\* A step that touches neither a peer's entry, nor its tasks, nor its resets.
LEMMA CurrentKept ==
  ASSUME NEW p, HasCurrent(p), entry'[p] = entry[p], TasksOf(p)' = TasksOf(p),
         \A r \in Resets : Target[r] = p =>
           holds'[r] = holds[r] /\ (UnderWay(r)' <=> UnderWay(r))
  PROVE  HasCurrent(p)'
BY DEF HasCurrent

LEMMA StartCurrent ==
  ASSUME TypeOK, TasksNumbered, Starting, CurrentTask, StartSpawn \/
         StartInsert
  PROVE  CurrentTask'
<1> USE DEF mapVars, infoVars, taskVars, connVars, resetVars
<1>0. L \in Nat /\ started \in 0..L /\ started < L
  BY ConfiguredFacts DEF L, TypeOK, StartSpawn, StartInsert
<1>1. CASE StartSpawn
  <2>1. NextTask \in TaskIds /\ Configured[started + 1] \in Peers
    BY <1>1, MaySpawn, NextPeer DEF StartSpawn
  <2>2. ASSUME NEW i \in 1..started
        PROVE  HasCurrent(Configured[i])'
    <3>1. Configured[i] # Configured[started + 1]
      BY <1>0, ConfiguredFacts
    <3>2. TasksOf(Configured[i])' = TasksOf(Configured[i])
      BY <1>1, <2>1, <3>1, SpawnTask DEF StartSpawn, TasksOf, TypeOK
    <3>3. HasCurrent(Configured[i])
      BY DEF CurrentTask, HasCurrent
    <3> QED
      BY <1>1, <3>2, <3>3, CurrentKept DEF StartSpawn, UnderWay
  <2> QED
    BY <1>1, <2>2 DEF StartSpawn, CurrentTask, HasCurrent
<1>2. CASE StartInsert
  <2> PICK p : p = Configured[started + 1]
    OBVIOUS
  <2>0. p \in Peers /\ started + 1 \in Spawned
    BY <1>0, <1>2, ConfiguredFacts DEF StartInsert, TasksNumbered
  <2>1. /\ entry'[p] = started + 1 /\ started' = started + 1
        /\ \A q \in Peers : q # p => entry'[q] = entry[q]
    BY <1>2, <2>0 DEF StartInsert, InsertEntry, TypeOK
  <2>2. \A q : TasksOf(q)' = TasksOf(q)
    BY <1>2 DEF StartInsert, TasksOf
  <2>3. TasksOf(p) = {started + 1}
    <3>1. /\ live \ aborted = Spawned /\ Spawned = 1..(started + 1)
          /\ \A t \in Spawned : owner[t] = Configured[t]
      BY <1>0, <1>2 DEF Starting, StartInsert, TasksNumbered
    <3>2. \A t \in 1..(started + 1) : Configured[t] = p => t = started + 1
      BY <1>0, ConfiguredFacts
    <3> QED
      BY <1>0, <3>1, <3>2 DEF TasksOf
  <2>4. HasCurrent(p)'
    BY <1>0, <1>2, <2>1, <2>2, <2>3
       DEF StartInsert, HasCurrent, Starting, UnderWay, NoTask
  <2>5. ASSUME NEW i \in 1..started
        PROVE  HasCurrent(Configured[i])'
    <3>1. Configured[i] # p /\ Configured[i] \in Peers
      BY <1>0, ConfiguredFacts
    <3>2. HasCurrent(Configured[i])
      BY DEF CurrentTask, HasCurrent
    <3> QED
      BY <1>2, <2>1, <2>2, <3>1, <3>2, CurrentKept DEF StartInsert, UnderWay
  <2>6. \A i \in 1..(started + 1) : HasCurrent(Configured[i])'
    BY <1>0, <2>4, <2>5
  <2> QED
    BY <2>1, <2>6 DEF CurrentTask, HasCurrent
<1> QED
  BY <1>1, <1>2

\* A reset moves its peer's current task along; other peers are not touched.
LEMMA ResetCurrent ==
  ASSUME TypeOK, TasksNumbered, Starting, CurrentTask, NEW r \in Resets,
         Reset(r), NEW i \in 1..started
  PROVE  HasCurrent(Configured[i])'
<1> USE DEF mapVars, infoVars, taskVars, connVars, resetVars, Goto, UnderWay
<1> PICK p : p = Configured[i]
  OBVIOUS
<1>0. /\ started \in 0..L /\ L \in Nat /\ p \in Peers /\ HasCurrent(p)
      /\ Target[r] \in Peers
  <2>1. started \in 0..L /\ L \in Nat /\ Target[r] \in Peers
    BY ConfiguredFacts, RegistryConstants DEF L, TypeOK
  <2>2. i \in 1..L
    BY <2>1
  <2>3. HasCurrent(p)
    BY DEF CurrentTask, HasCurrent
  <2> QED
    BY <2>1, <2>2, <2>3, ConfiguredFacts
<1>1. CASE ResetRemove(r)
  <2>1. TasksOf(p)' = TasksOf(p)
    BY <1>1 DEF ResetRemove, TasksOf
  <2>2. CASE Target[r] = p
    <3>1. /\ entry[p] # NoTask /\ entry'[p] = NoTask
          /\ holds'[r] = entry[p] /\ reset'[r] = "removed"
          /\ \A q \in Resets : q # r => reset'[q] = reset[q]
      BY <1>0, <1>1, <2>2 DEF ResetRemove, TypeOK
    <3> QED
      BY <1>0, <2>1, <2>2, <3>1 DEF HasCurrent
  <2>3. CASE Target[r] # p
    <3>1. /\ entry'[p] = entry[p]
          /\ \A q \in Resets : q # r => reset'[q] = reset[q] /\ holds'[q] = holds[q]
      BY <1>0, <1>1, <2>3 DEF ResetRemove, TypeOK
    <3> QED
      BY <1>0, <2>1, <2>3, <3>1, CurrentKept
  <2> QED
    BY <2>2, <2>3
<1>2. CASE ResetNotFound(r)
  <2>1. TasksOf(p)' = TasksOf(p)
    BY <1>2 DEF ResetNotFound, TasksOf
  <2>2. \A q \in Resets : holds'[q] = holds[q] /\ (UnderWay(q)' <=> UnderWay(q))
    BY <1>2 DEF ResetNotFound, TypeOK
  <2> QED
    BY <1>0, <1>2, <2>1, <2>2, CurrentKept DEF ResetNotFound
<1>3. CASE ResetSpawn(r)
  <2>1. NextTask \in TaskIds
    BY <1>3, MaySpawn
  <2>2. /\ NextTask \notin live /\ NextTask \notin aborted
        /\ owner'[NextTask] = Target[r] /\ live' = live \union {NextTask}
        /\ \A t \in TaskIds : t # NextTask => owner'[t] = owner[t]
        /\ aborted' = aborted \union {holds[r]}
    BY <1>0, <1>3, <2>1, SpawnTask DEF ResetSpawn
  <2>3. /\ TasksOf(Target[r]) = {holds[r]} /\ entry[Target[r]] = NoTask
        /\ holds[r] \in live /\ owner[holds[r]] = Target[r]
        /\ \A q \in Resets : Target[q] = Target[r] /\ UnderWay(q) => q = r
    BY <1>3, HeldTask DEF ResetSpawn
  <2>4. /\ holds'[r] = NextTask /\ reset'[r] = "spawned"
        /\ \A q \in Resets : q # r => reset'[q] = reset[q] /\ holds'[q] = holds[q]
        /\ entry' = entry
    BY <1>3 DEF ResetSpawn, TypeOK
  <2>5. live \subseteq TaskIds
    BY DEF TypeOK
  <2>6. CASE Target[r] = p
    <3>1. TasksOf(p)' = {NextTask}
      BY <2>1, <2>2, <2>3, <2>5, <2>6 DEF TasksOf
    <3> QED
      BY <2>3, <2>4, <2>6, <3>1 DEF HasCurrent
  <2>7. CASE Target[r] # p
    <3>1. TasksOf(p)' = TasksOf(p)
      BY <2>1, <2>2, <2>3, <2>5, <2>7 DEF TasksOf
    <3> QED
      BY <1>0, <2>4, <2>7, <3>1, CurrentKept
  <2> QED
    BY <2>6, <2>7
<1>4. CASE ResetInsert(r)
  <2>1. TasksOf(p)' = TasksOf(p)
    BY <1>4 DEF ResetInsert, TasksOf
  <2>2. /\ TasksOf(Target[r]) = {holds[r]} /\ holds[r] \in live
        /\ \A q \in Resets : Target[q] = Target[r] /\ UnderWay(q) => q = r
    BY <1>4, HeldTask DEF ResetInsert
  <2>3. /\ entry'[Target[r]] = holds[r] /\ holds' = holds /\ reset'[r] = "ok"
        /\ \A q \in Resets : q # r => reset'[q] = reset[q]
        /\ \A q \in Peers : q # Target[r] => entry'[q] = entry[q]
    BY <1>0, <1>4 DEF ResetInsert, InsertEntry, TypeOK
  <2>4. holds[r] # NoTask
    <3>1. holds[r] \in 1..(L + Cardinality(Resets))
      BY <2>2, ConfiguredFacts DEF TypeOK
    <3> QED
      BY <3>1, ConfiguredFacts DEF NoTask
  <2>5. CASE Target[r] = p
    BY <2>1, <2>2, <2>3, <2>4, <2>5 DEF HasCurrent
  <2>6. CASE Target[r] # p
    BY <1>0, <2>1, <2>3, <2>6, CurrentKept
  <2> QED
    BY <2>5, <2>6
<1> QED
  BY <1>1, <1>2, <1>3, <1>4 DEF Reset

LEMMA NextCurrentTask ==
  ASSUME TypeOK, TasksNumbered, Starting, CurrentTask, [Next]_vars
  PROVE  CurrentTask'
<1> USE DEF mapVars, infoVars, taskVars, connVars, resetVars
<1>1. CASE StartSpawn \/ StartInsert
  BY <1>1, StartCurrent
<1>2. CASE \E t \in TaskIds : TaskSteps(t) \/ TaskMay(t)
  <2>1. UNCHANGED <<entry, started, owner, aborted, reset, holds>>
    BY <1>2, TaskStep
  <2>2. \A p : TasksOf(p)' = TasksOf(p)
    BY <1>2, TaskStep DEF TasksOf
  <2> QED
    BY <2>1, <2>2 DEF CurrentTask, UnderWay
<1>3. CASE \E r \in Resets : Reset(r)
  <2>1. started' = started
    BY <1>3
       DEF Reset, ResetRemove, ResetNotFound, ResetSpawn, ResetInsert
  <2>2. \A i \in 1..started : HasCurrent(Configured[i])'
    BY <1>3, ResetCurrent
  <2> QED
    BY <2>1, <2>2 DEF CurrentTask, HasCurrent
<1>4. CASE UNCHANGED vars
  BY <1>4 DEF vars, CurrentTask, UnderWay, TasksOf
<1> QED
  BY <1>1, <1>2, <1>3, <1>4 DEF Next

-----------------------------------------------------------------------------
(* What the entries show.                                                  *)

LEMMA NextEntriesStarted ==
  ASSUME TypeOK, Starting, EntriesStarted, [Next]_vars
  PROVE  EntriesStarted'
<1> USE DEF mapVars, infoVars, taskVars, connVars, resetVars
<1>1. CASE StartInsert
  <2>1. /\ started' = started + 1 /\ started \in Nat
        /\ entry' = [entry EXCEPT ![Configured[started + 1]] = started + 1]
    BY <1>1, NextPeer DEF StartInsert, InsertEntry
  <2>2. \A p \in Peers : p # Configured[started + 1] => entry'[p] = entry[p]
    BY <2>1 DEF TypeOK
  <2> QED
    BY <2>1, <2>2 DEF EntriesStarted
<1>2. CASE \E r \in Resets : Reset(r)
  <2>1. started' = started /\ started = L
    BY <1>2, Started
       DEF Reset, ResetRemove, ResetNotFound, ResetSpawn, ResetInsert, Goto, L
  <2> QED
    BY <2>1, ConfiguredFacts DEF EntriesStarted
<1>3. CASE UNCHANGED <<entry, started>>
  BY <1>3 DEF EntriesStarted
<1> QED
  BY <1>1, <1>2, <1>3, TaskStep DEF Next, StartSpawn, vars

\* The task of an entry is the peer's only one that was not aborted.
LEMMA EntryTask ==
  ASSUME TypeOK, CurrentTask, EntriesStarted, NEW p \in Peers,
         entry[p] # NoTask
  PROVE  /\ entry[p] \in TaskIds /\ entry[p] \notin aborted
         /\ owner[entry[p]] = p
         /\ \A t \in live : owner[t] = p /\ t # entry[p] => t \in aborted
<1>1. PICK i \in 1..started : p = Configured[i]
  BY DEF EntriesStarted
<1>2. TasksOf(p) = {entry[p]}
  BY <1>1 DEF CurrentTask
<1> QED
  BY <1>2 DEF TasksOf, TypeOK

\* What ShownFollows says of one peer.
Follow(p) ==
  entry[p] # NoTask =>
    /\ wrote[p] = NoTask => shown[p] = "Idle"
    /\ wrote[p] = entry[p] => shown[p] = stage[entry[p]]
    /\ wrote[p] \in {NoTask, entry[p]} \union aborted

\* A step that inserts an entry, leaves its peer's alone, or removes one.
LEMMA FollowsInserted ==
  ASSUME TypeOK, CurrentTask, EntriesStarted, NEW p \in Peers, NEW t \in TaskIds,
         Follow(p), entry'[p] # NoTask, aborted \subseteq aborted',
         stage' = stage,
         \/ /\ entry'[p] = t /\ wrote'[p] = NoTask /\ shown'[p] = "Idle"
         \/ /\ entry'[p] = entry[p] /\ wrote'[p] = wrote[p]
            /\ shown'[p] = shown[p]
  PROVE  Follow(p)'
<1>1. t # NoTask
  BY ConfiguredFacts DEF NoTask
<1> QED
  BY <1>1 DEF Follow

LEMMA TaskShows ==
  ASSUME TypeOK, CurrentTask, EntriesStarted, ShownFollows,
         NEW t \in TaskIds, TaskSteps(t) \/ TaskMay(t)
  PROVE  ShownFollows'
<1>0. UNCHANGED <<entry, owner, aborted>> /\ t \in live
  BY TaskStep
<1> SUFFICES ASSUME NEW p \in Peers, entry[p] # NoTask
             PROVE  Follow(p)'
  BY <1>0 DEF ShownFollows, Follow
<1>1. /\ entry[p] \in TaskIds /\ entry[p] \notin aborted /\ owner[entry[p]] = p
      /\ \A u \in live : owner[u] = p /\ u # entry[p] => u \in aborted
  BY EntryTask
<1>2. Follow(p)
  BY DEF ShownFollows, Follow
<1>3. ASSUME NEW s, Reports(t, s) PROVE Follow(p)'
  <2>1. /\ \A u \in TaskIds : stage'[u] = IF u = t THEN s ELSE stage[u]
        /\ IF p = owner[t]
           THEN shown'[p] = s /\ wrote'[p] = t
           ELSE shown'[p] = shown[p] /\ wrote'[p] = wrote[p]
    BY <1>0, <1>3, ReportStep
  <2>2. CASE p = owner[t]
    <3>1. t # NoTask
      BY ConfiguredFacts DEF NoTask
    <3> QED
      BY <1>0, <1>1, <2>1, <2>2, <3>1 DEF Follow
  <2>3. CASE p # owner[t]
    BY <1>0, <1>1, <1>2, <2>1, <2>3 DEF Follow
  <2> QED
    BY <2>2, <2>3
<1>4. CASE TaskStops(t)
  <2>1. /\ t \in aborted /\ UNCHANGED <<shown, wrote>>
        /\ \A u \in TaskIds : u # t => stage'[u] = stage[u]
    BY <1>4 DEF TaskStops, TypeOK, mapVars, infoVars
  <2> QED
    BY <1>0, <1>1, <1>2, <2>1 DEF Follow
<1>5. CASE UNCHANGED <<stage, shown, wrote>>
  BY <1>0, <1>2, <1>5 DEF Follow
<1> QED
  BY <1>3, <1>4, <1>5, TaskReports

LEMMA NextShownFollows ==
  ASSUME TypeOK, Starting, CurrentTask, EntriesStarted, ShownFollows, [Next]_vars
  PROVE  ShownFollows'
<1> USE DEF mapVars, infoVars, taskVars, connVars, resetVars
<1>0. \A p \in Peers : Follow(p)
  BY DEF ShownFollows, Follow
<1>1. CASE StartInsert
  <2> DEFINE n == Configured[started + 1]
  <2>1. started + 1 \in TaskIds /\ n \in Peers
    BY <1>1, NextPeer DEF StartInsert
  <2>2. /\ \A p \in Peers :
             IF p = n
             THEN entry'[p] = started + 1 /\ shown'[p] = "Idle" /\ wrote'[p] = NoTask
             ELSE entry'[p] = entry[p] /\ shown'[p] = shown[p] /\ wrote'[p] = wrote[p]
        /\ UNCHANGED <<stage, aborted>>
    BY <1>1, <2>1 DEF StartInsert, InsertEntry, Shows, TypeOK
  <2> HIDE DEF n
  <2>3. \A p \in Peers : entry'[p] # NoTask => Follow(p)'
    BY <1>0, <2>1, <2>2, FollowsInserted
  <2> QED
    BY <2>3 DEF ShownFollows, Follow
<1>2. CASE \E t \in TaskIds : TaskSteps(t) \/ TaskMay(t)
  BY <1>2, TaskShows
<1>3. ASSUME NEW r \in Resets, ResetRemove(r)
      PROVE  ShownFollows'
  <2>1. /\ \A p \in Peers : entry'[p] \in {entry[p], NoTask}
        /\ UNCHANGED <<stage, shown, wrote, aborted>>
    BY <1>3 DEF ResetRemove, TypeOK
  <2> QED
    BY <2>1 DEF ShownFollows
<1>4. ASSUME NEW r \in Resets, ResetInsert(r)
      PROVE  ShownFollows'
  <2>1. holds[r] \in TaskIds /\ Target[r] \in Peers
    BY <1>4, HeldTask, RegistryConstants
       DEF ResetInsert, Goto, UnderWay, TypeOK
  <2>2. /\ \A p \in Peers :
             IF p = Target[r]
             THEN entry'[p] = holds[r] /\ shown'[p] = "Idle" /\ wrote'[p] = NoTask
             ELSE entry'[p] = entry[p] /\ shown'[p] = shown[p] /\ wrote'[p] = wrote[p]
        /\ UNCHANGED <<stage, aborted>>
    BY <1>4, <2>1 DEF ResetInsert, InsertEntry, Shows, TypeOK
  <2>3. \A p \in Peers : entry'[p] # NoTask => Follow(p)'
    BY <1>0, <2>1, <2>2, FollowsInserted
  <2> QED
    BY <2>3 DEF ShownFollows, Follow
<1>5. CASE UNCHANGED <<entry, stage, shown, wrote>> /\ aborted \subseteq aborted'
  BY <1>5 DEF ShownFollows
<1> QED
  BY <1>1, <1>2, <1>3, <1>4, <1>5
     DEF Next, Reset, StartSpawn, ResetNotFound, ResetSpawn, vars

-----------------------------------------------------------------------------
(* The theorems.                                                           *)

LEMMA RegistryInvariant == Spec => []RegistryInv
<1>1. Init => RegistryInv
  <2> SUFFICES ASSUME Init PROVE RegistryInv
    OBVIOUS
  <2>0. L \in Nat /\ Len(Configured) = L
    BY ConfiguredFacts DEF L
  <2>1. TypeOK
    BY <2>0 DEF Init, TypeOK, PeerState
  <2>2. Spawned = {} /\ Respawned = {}
    BY DEF Init, Spawned, Respawned
  <2>3. Spawned = 1..0 /\ Cardinality(Spawned) = 0 /\ Cardinality(Respawned) = 0
    BY <2>2, FS_EmptySet
  <2>4. TasksNumbered
    BY <2>0, <2>3 DEF Init, TasksNumbered
  <2>5. Starting
    BY <2>2 DEF Init, Starting
  <2>6. CurrentTask
    BY DEF Init, CurrentTask
  <2>7. EntriesStarted /\ ShownFollows
    BY DEF Init, EntriesStarted, ShownFollows
  <2> QED
    BY <2>1, <2>4, <2>5, <2>6, <2>7 DEF RegistryInv
<1>2. RegistryInv /\ [Next]_vars => RegistryInv'
  BY NextTypeOK, NextTasksNumbered, NextStarting, NextCurrentTask,
     NextEntriesStarted, NextShownFollows DEF RegistryInv
<1> QED
  BY <1>1, <1>2, PTL DEF Spec

\* Every variable of the registry keeps its type; in particular there is a
\* number for every task that start_peers and peer_reset spawn.
THEOREM RegistryTypeCorrect == Spec => []TypeOK
BY RegistryInvariant, PTL DEF RegistryInv

\* Each peer that start_peers is done with has exactly one task that is not
\* being aborted, and the entry in the map, when there is one, is that task's:
\* for any number of peers, and of resets that interleave between remove,
\* abort, spawn and insert (peer_reset).
THEOREM OneTaskForEachPeer == Spec => []OneTask
<1>1. RegistryInv => OneTask
  <2> SUFFICES ASSUME RegistryInv, NEW i \in 1..started
               PROVE  /\ Cardinality(TasksOf(Configured[i])) = 1
                      /\ entry[Configured[i]] # NoTask =>
                           entry[Configured[i]] \in TasksOf(Configured[i])
    BY DEF OneTask
  <2>1. /\ \E t : TasksOf(Configured[i]) = {t}
        /\ entry[Configured[i]] # NoTask =>
             TasksOf(Configured[i]) = {entry[Configured[i]]}
    BY DEF RegistryInv, CurrentTask
  <2>2. Cardinality(TasksOf(Configured[i])) = 1
    BY <2>1, FS_Singleton
  <2> QED
    BY <2>1, <2>2
<1> QED
  BY <1>1, RegistryInvariant, PTL

\* What the entry of a peer shows is the state its own task reported last, or
\* Idle before the first report that found the entry, for any interleaving of
\* resets, of the tasks they abort and of the ones they spawn, unless an aborted
\* task that still runs has written into it (set_peer_state, peer_reset).
THEOREM EntriesShowTheirTask == Spec => []ShownIsCurrent
<1>1. RegistryInv => ShownIsCurrent
  BY DEF RegistryInv, ShownFollows, ShownIsCurrent
<1> QED
  BY <1>1, RegistryInvariant, PTL
=============================================================================
