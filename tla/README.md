# A TLA+ development for focl

`focl` is a small BGP speaker: a daemon, `focld`, that keeps sessions to
configured peers, archives MRT segments to disk, replicates them to local
directories and S3 buckets through a queue in SQLite, and answers control
commands on a Unix socket. This directory holds TLA+ models of the parts of the
daemon that keep state, TLC configurations that check them on small instances,
and TLAPS proofs for every instance. `PROJECT.json` maps every definition to the
lines it models and lists runs, seeded faults, findings, hazards and theorems.

## 1. Inventory

| Part | State it keeps | Operations | What is hard |
|---|---|---|---|
| replication queue (`archive/queue.rs`) | rows with status, attempts, retry time | enqueue, claim_ready, mark_success, mark_failed, retry_failed, counts | statuses survive a crash, attempts are computed from a copy |
| replicator (`archive/replicator.rs`) | destinations, the claimed batch | enqueue_segment, run_once, process_job, copies | copies race finalizations of the same path; a batch may be lost halfway |
| segment writer, manifest (`archive/writer.rs`, `manifest.rs`) | temporary file, encoder | new, write_record, finalize, build, write_sidecar | rename, hash and sidecar are separate steps |
| updates stream (`archive/mod.rs`) | the open writer behind a lock | ingest_update, ingest_peer_state, tick, rollover | two lock acquisitions per call, times read before the lock |
| RIB snapshots (`archive/mod.rs`) | ribs_last, last_rib_bucket | snapshot_now by scheduler and commands | no common lock, shared paths |
| layout (`archive/layout.rs`) | none | aligned_epoch, segment_paths, custom templates | names coarser than intervals, templates that coincide or give no file name |
| MRT encoding (`archive/snapshot.rs`) | none | encoders | data conversion |
| BGP session (`bgp/mod.rs`) | state, timers, stream | peer_loop, run_session, read/write messages | timers against a remote's timers, cancelled reads, no handshake timer, writes without a timeout |
| peer registry (`bgp/mod.rs`) | map of peers, tasks, listeners | start_peers, dialling and listening, peer_reset, set_peer_state | lock taken per access; abort and spawn overlap; addresses that clash; connections from anybody |
| TCP-MD5 (`bgp/auth.rs`) | none | one setsockopt | not modelled |
| configuration (`config/mod.rs`) | none | load, validate, destination_key | what validation lets through meets code that assumes more |
| control server (`bin/focld.rs`) | socket file, connections | main, accept, commands, events, shutdown | effect before reply, errors that close connections, two daemons and one file |
| control types, client (`control/mod.rs`, `bin/focl.rs`) | none | one request and response each, start | the daemon may end first |
| events (`types.rs`) | broadcast channel | send, subscribe | lag, gap before the subscription |

The parts meet as follows. The scheduler task and control connections call the
archive service; a finalized segment goes to `enqueue_segment`, which writes rows
the replicator task reads every two seconds. Control connections call
`peer_reset`; each peer's task reports its state into the shared map. All of this
runs on tokio's multi-threaded runtime, so calls interleave at every await and
blocking file and SQL calls of different tasks run in parallel.

What makes each part correct: the queue forgets no segment before it is
delivered and hands out no stale copy; replicas end up equal to the archive; the
updates stream keeps what it acknowledged, in one place and not before its time;
a published RIB file is whole and described by its manifest; a session with a
remote that follows the protocol stays up, and a dead one is noticed; a peer has
one task and an entry whatever resets do, and the entry shows what that task reported; every
request is answered in its turn and a shutdown shuts down; a configuration that is
accepted can be started, keeps segments apart and serves every replica.

## 2. Modules

| Module | Models | Checked with |
|---|---|---|
| `ReplicationQueue` | the table and its statements, one operator each | through `Replicator` |
| `Delivery` | abstract: what replication promises | implemented by `Replicator` |
| `Replicator` (extends `ReplicationQueue`) | finalize's rename and sidecar, enqueue_segment, run_once and the copies, retry command, crash and restart | `MCReplicator` |
| `ReplicatorProofs` | theorems about `Replicator` | tlapm |
| `DeliveryProofs` | `Replicator` implements `Delivery`; retry budgets | tlapm |
| `UpdatesArchive` | updates stream around the updates_writer lock | `MCUpdatesArchive` |
| `UpdatesArchiveProofs` | theorems about `UpdatesArchive` | tlapm |
| `RibSnapshot` | snapshot_now for one RIB interval | `MCRibSnapshot` |
| `RibSnapshotProofs` | theorems about `RibSnapshot` | tlapm |
| `PeerStates` | peer states and their order | used by the next three |
| `PeerFsm` | abstract: what an operator sees of a peer | implemented by `PeerSession` |
| `PeerSession` | one peer's task and a remote speaker, with time in seconds | `MCPeerSession` |
| `PeerSessionProofs` | theorems about `PeerSession`, which implements `PeerFsm` | tlapm |
| `PeerRegistry` | the map, start-up, tasks that dial and listen, concurrent resets | `MCPeerRegistry` |
| `PeerRegistryProofs` | theorems about `PeerRegistry` | tlapm |
| `ControlServer` | focld's main and socket file, its connections, clients and events | `MCControlServer` |
| `ControlServerProofs` | theorems about `ControlServer` | tlapm |
| `Layout` | paths of segments | through `Configuration` |
| `Configuration` (extends `Layout`) | from a configuration file to start-up, published segments and replicas | `MCConfiguration` |
| `ConfigurationProofs` | theorems about `Configuration` and `Layout` | tlapm |

Operators that begin with a comment "Seeded fault" are not part of any
specification: each is a plausible wrong version of the definition after it, and
replacing the definition by it must make the named property fail
(`mutants` in `PROJECT.json`).

### Replicator

State: `queue` and `next_id` are the table; `primary` the segment and manifest of
each path in the archive; `fin` and `owing` the progress of the task that finalizes
a path; `claimed`, `job`, `stage`, `source` the local variables of `run_once` and
`process_job`; `replica` what each destination holds. `enqueued` is a history
variable. A file's content is the number of the finalization that produced it, 0 when
it is missing, truncated or torn; a manifest numbered v describes content v. Of the
retry time the code asks only whether it has passed, so a row has a flag `due`.
Actions: `FinalizeRename`, `BeginSidecar`, `EndSidecar`, `EnqueueSegment` and their
failures follow `finalize` and `enqueue_segment`; `ClaimReady` to `MarkError` follow
`run_once`; `Crash` covers both a kill and the daemon's shutdown, which finalizes and
waits for nothing. A local copy truncates its target when it opens it and reads the
file it opened; an upload takes the length first and opens the file when it is sent
(the behaviour of `ByteStream::from_path`, an external library), so it may send the
replaced file, the new one, or a cut one. A sidecar is rewritten in place, so
reading one while it is rewritten may give a mixture. Finalizations of one path are
serialized; concurrent ones, which only RIB snapshots can have, are `RibSnapshot`'s
subject. The `failures` counter and events are left out.

`Delivery` knows no queue: a destination is asked for the latest content of a path, owes
it until it has it, and its copy is touched only while it owes. The refinement mapping
takes a row of the table, in whatever status, for the debt. That is why rows stranded in
`in_progress` do not violate it: the debt is kept and never paid, which is a matter of
liveness and shown by `replicator_stranded`. An upload that meets a replacement of
its file is the one case where a debt ends without the content, and only until the
replacement is enqueued.

### UpdatesArchive

Time is the index of the rotation interval. `EnsureUpdatesWriter(b)` is the whole
critical section of `ensure_updates_writer`; its failure leaves no writer, whichever
step failed, and the archive with or without the renamed file. `PathOf` keeps of
`segment_paths` what matters: names carry minutes. `Delayed` allows the clock to move
between reading it and taking the lock. The history variable `disturbed` says that this
happened, or that an operator issued a rollover; what holds only without either is
stated with it. A crash counts as a fault; the open segment goes
with it, because a restart starts a new temporary file and nothing reads the old one.

### RibSnapshot

Files are inodes, because a task goes on writing to the inode it opened after another
task has renamed it. Content has two parts of equal length, the bytes the encoder
spills and those it writes when it finishes; a part holds the name of the task that
wrote it last. `overlap` is a history variable: two snapshots were under way together.
The scheduler's snapshot is also skipped in a tick whose updates
rotation failed; that delays `TickStarts` and nothing else.

### PeerSession

The remote follows RFC 4271 except for what `RemoteMay` permits: refusing, falling
silent (`mute`), falling silent and reading nothing (`stall`), closing, notifying
(`MaxTroubles` times at most), sending updates. Writes have no timeout in the code, so each
prefix announcement and each keepalive is a step of its own that waits while a stalled
remote leaves `SendBuffer` messages unread (`CanWrite`, `Blocked`); the announcements
come after Established is reported and before there is a hold deadline (`StartTimers`).
A stalled remote stays so until the connection ends: one that reads again
after a while, one that goes on sending, and one that closes a connection it has not
drained are left out. So is a host that has vanished altogether, whose connection
the operating system gives up after some minutes. Progress is maximal: a second passes
only when nobody has anything to do, so timers are exact. Deadlines of `run_session`
count only within its loop. Read timeouts are one second, the smaller of the code's
two bounds while keepalive intervals are whole seconds. A message is one piece or, if
`Fragmented`, two; `got` is what a pending read has consumed, and the history variable
`cut` says that a timeout threw such a piece away. The states and errors that are
reported implement `PeerFsm`: `run_session` has no way out but an error, so the
`Ok` branch of `peer_loop` is never taken.

### PeerRegistry

A task is a number. It binds the peer's `local_address` if there is one, which a passive
peer without it replaces by the wildcard (`LocalBind`); it dials its peer or accepts
a connection from any host (`Hosts`: the routers of all peers, and strangers), and reports
states in the order of `Follows`; what happens within the session is `PeerSession`'s
subject. As on Linux, `Bind` fails while another task's socket is bound to the same
port on the same IP address, or while one of the two is the wildcard (`Clash`). Local
addresses are assumed to be addresses of this host, a passive one not to have port 0,
and no other process to hold the port; the port the system picks for an active peer whose
`local_address` has none is nobody else's and is not recorded. Abort and spawn of a reset
have no await between them, but an aborted task runs on until its next await, so
`TaskStops` comes later and the address is free only then. Of `PeerInfo` the state is kept
(`shown`), which any task of the peer writes into whatever entry the map has; the history
variable `wrote` says which task did.

### ControlServer

`phase` is where each run of focld stands: `cleanup_socket` looks for the file and removes
it in two steps, before the bind and at the exit, so two runs may meet in between. `socket`
is the run whose listener the file leads to. A connection has its client's end (`conn`,
`sent`) and its handler (`handler`, `taken`, `answer`, `replies`); commands are told apart
by the outcomes their arm has, one of which is to leave with `?` and close. Events are
numbered per daemon; a receiver has the number it will return next and is moved on by
`Lagged`. An event without a subscriber changes nothing and is not counted.

### Layout and Configuration

A file is a record of the sections and fields it sets; `Parsed` adds the defaults, of
which there are two sets: a missing `[archive]` gets `ArchiveConfig::default()` with a
destination, an `[archive]` without destinations gets none and is refused when enabled.
Text is `ok` or `bad`. A path is the record of the parts its text is built from, so two
paths are equal when their texts are. `CustomPathFails` has the errors of
`build_custom_relative_path`: a missing token, which `validate` looks for too, and a path
that ends in `..`, for which it does not look. `segment_paths` could also fail
for want of a temporary file name; that needs a path without a file name and so cannot
follow a success of the former, and built-in profiles always have one. `Configuration` runs one daemon from `load` through
`ArchiveService::new` and `BgpService::new` to ticks of the scheduler and jobs of the
replicator, each atomic: rotations and snapshots go to `store` under their paths, copies to
the places the destinations name. The same code's interleavings are the subject of
the modules above.

## 3. Runs

Passing runs:

| Run | Question | Bounds |
|---|---|---|
| `replicator_faults` | with every fault, changing configurations and retry commands: no stale copy, nothing forgotten, budgets kept | 1 path, a local and an S3 replica, 3 finalizations, batch of 2, a u32 that saturates at 2, finite and unlimited budgets |
| `replicator_delivers` | when no job is left, is each replica the archive's pair, and does the backlog vanish beside a destination that may fail for ever? | 2 replicas, 2 finalizations, failing copies, batch of 4, fair |
| `session` | does a good session survive delay and fragments, is Established real, are errors reported, is a silent remote noticed, does the task reconnect? | hold 6 against 0, 3 and 6, one misbehaviour, delay 1, 2 messages on the wire, messages in two pieces, 3 prefixes and room for 3 unread messages, fair |
| `updates` | is everything acknowledged kept once and not before its time, is everything finalized kept through crashes and failures, does the writer recover? | 2 calls, 4 intervals, 2 faults, rollovers, late clocks, fair |
| `ribs_snapshots` | are file, manifest and status right after crashes and failures, and does the interval get its snapshot? | scheduler and 1 command, 2 crashes, 2 failures, fair |
| `registry_resets` | one task, one entry that shows what it reported, and the address back, however resets interleave? | 2 peers in 4 setups, 2 resets of one of them, connections of its router to either peer, fair |
| `control` | is every request answered in its turn, does a shutdown shut down, do events arrive, can the daemon be reached? | 2 runs of focld, 1 connection with up to 3 requests, 2 events and a channel of 1, kills and accept errors, fair |
| `config` | does an accepted file start, keep segments apart and serve the replicas? | about 350 files, 4 instants: a half minute, neighbouring minutes, the same minute of two days |

Why the bounds are enough: what the properties relate is one path and one destination
(rows of others matter only by filling batches, hence the batch of 2, which is smaller
than the backlog); the second finalization is the one that races the copy of the first
and the third the one that races its retry; three intervals give a finalized, an old
open and a current one; two tasks suffice for every race over a file. Two resets give one that meets another
at each of its steps and finds the entry gone or there again, with up to three tasks of
a peer alive; the four setups are a passive peer on the wildcard beside an active one that
does and one that does not bind the port, and two passive ones on addresses of
their own, and on an address and the wildcard. One host that connects is enough there: to
the one peer it is its own router and to the other a stranger, and no property of the run
asks which. With 3 prefixes
and room for 3 messages a stalled remote is met with every number of unread messages:
it blocks the announcements, or one of the keepalives, or nothing before the hold
timer fires. Connections
share nothing but the daemon's end, so one of them, against two daemons, meets every
order of exit, answer and event; a channel of one event lags at the second. In `config` the
sections are varied one at a time, except that intervals and destinations are combined
with every layout, because those are what paths depend on; 100 seconds divides an
hour and is no multiple of a minute. In
`replicator_delivers` the batch is as large as the backlog can get: with a full batch of
due jobs of a dead destination at the head of the queue the others would wait, since
`claim_ready` goes by id. `CHECK_DEADLOCK FALSE` is set where finalizations, snapshots,
requests or instants are bounded and the daemon may be idle or has ended. No symmetry is used.

Runs that show a disagreement between the code and what the repository says of it
(quoted under `findings`):

| Run | Shows |
|---|---|
| `replicator_stranded` | a crash after `claim_ready` strands rows in `in_progress` |
| `session_hold` | the hold time is not negotiated: a remote with a shorter one drops the session |
| `updates_rollover` | the segment of a rollover is replaced at the end of its interval |
| `registry_shared` | a passive peer's session is with another peer's router |

What the passing runs leave out on purpose. Each of these makes a property fail once its
exception is dropped, and so marks the limit of what is claimed:

- `GoodSessionSurvives` excepts remotes with a shorter hold time, 0 included: the code turns
  its own 0 into 3 and enforces a hold time against a remote that announced none. It
  also excepts a message that is cut: a read cancelled between two pieces loses the first
  and misframes the stream.
- `DeadPeerNoticed` excepts a task that waits in a write to a remote that reads nothing:
  the announcements come after Established is reported and before the hold deadline
  exists, and a keepalive that is due is written before the deadline is looked at, so that
  such a remote holds the peer in Established for as long as it keeps the connection.
- `ComesBack` excepts a remote that accepts and stays silent: it holds the peer in
  OpenSent, since the handshake has no timer. It does not ask how long Established lasts.
- `ListensAgain` excepts peers whose addresses clash, of which the wildcard default of
  `local_address` makes many: one of them cannot listen while the other does.
- Nothing is claimed about who a passive peer's session is with, whatever its address:
  the accepted connection may be anybody's.
- `AckedRetainedInTime`, `FinalizedKept` and `NotBeforeItsTime` except late times: a call
  stamped just before a rotation reopens the old interval, whose finalization replaces the
  earlier segment, and a caller already past its own `ensure_updates_writer` writes into it.
- `ManifestMatchesInTurn` excepts overlapping snapshots: `snapshot_now` takes no lock, and
  two of one interval interleave renames and sidecars, so that the manifest left describes
  another content than the file (`ManifestMatches` fails with two operators).
- `SocketInTurn` excepts daemons that run together: `focl stop` answers before the daemon has
  gone, and if `focl start` follows at once the old daemon's `cleanup_socket` removes the
  new one's file; a second `focl start` takes the file of a running daemon over.
- `Answered` excepts what follows a failed archive command, which closes the connection, and
  connections not accepted when the accept loop ends or the shutdown begins.
- `EventReaches` starts at `subscribe_events`, which comes after the answer "subscribed".
- `ArchiveIntact` excepts three kinds of file that the validation accepts: updates
  intervals below a minute (two intervals share a name), templates that coincide but
  for a leading dot, and a local replica that is the archive, by its directory or by an
  absolute template (`fs::copy` truncates its own source).
- `ReplicasServed` excepts destinations that share directory or bucket: keys leave the prefix
  out, and the last of them is the one that is served.
- `AcceptedStarts` excepts a bad `next_hop`, which only `BgpService::new` looks at, when the
  archive has already created its directories and its first segment; and a template of the
  updates stream that renders to a path ending in `..`, which ends `ArchiveService::new`.
  The same in the template of snapshots lets the daemon start and makes every tick log
  an error instead of taking a snapshot.
- `ShownIsCurrent` excepts what an aborted task still reports, which goes to the new entry
  and stays until the new task's next report. A state reported between spawn and insert
  is lost: the entry then shows Idle.

Seen in the source while modelling, and not the subject of a run: `reload` answers
"reloaded" and does nothing; `listen` and `listen_addr` are read by nothing; a destination
with `mode = "primary"` is required and never written to, segments go to `root`; snapshots
of scheduler and commands hold no peers and no routes; `advertised_prefixes` and
`established_at` keep the values of a session that is over; an IPv6 peer address cannot be
dialled, because "address:port" does not parse without brackets; two peers with one
address leave a task that nothing can abort; a client that leaves while subscribed is
noticed at the next event.

Fairness. The replicator, the scheduler and the peer tasks are endless loops that
tokio polls; a call that began is carried on; an aborted task reaches an await; time
passes; the backoff of a row ends. Nothing obliges a remote to misbehave, an operator to act, a
finalization to happen, a client to ask, a router to connect or a fault to occur. The remote is fair in its protocol duties
only.

## 4. Proofs

The proofs hold for all values of the constants that satisfy the named assumptions of
the modules (types, non-empty sets, positive limits); TLC evaluates these assumptions in
every run. A theorem that needs more says so as its own hypothesis. Every inductive
invariant was checked with TLC on the instances of section 3 before it was proved. Every
invariant of the passing runs is a theorem, the two refinements are, and so are the
action properties `RetryBudgetKept` and `FinalizedKept`.

**Replicator** (`ReplicatorProofs`, `DeliveryProofs`): all sets of paths and destinations,
configurations, retry budgets, batch sizes, u32 ranges.

- `TypeCorrect` and `ClaimsAreFresh`. The types alone are not inductive: `process_job`
  reads `claimed[job]`, so the proof carries `ClaimedCopyFresh` along.
- `QueueKeepsItsPromise` (`SegmentCovered`), for all faults. While a job is copied its
  row is there and the replica is torn, so the property says nothing about the moment
  before the row is deleted. `CoverInv` says that a destination which lacks the enqueued
  content is owed it by another row, by the current job before its copy or after a
  failure, or by a copy whose source is recent enough; with `EnqueuedBound` and
  `SourceBound`, which say that contents only grow.
- `ReplicatorImplementsDelivery`, for all faults: one step of `Delivery` or a stutter for
  each action, from `CoverInv`. `BudgetsAreKept`: the action property from the freshness
  of the claimed copy.
- `ReplicasAreCurrent` (`ReplicaCurrent`), if only copies fail. From a rename on a new row
  is announced; where it is not, `CurrentInv` says for each stage of the current job how
  much of the archive's present pair it already has, unless another row will copy again.
- `NothingStranded` (`NoJobStranded`), without crashes and database errors: the finding of
  `replicator_stranded` needs one of the two.

**Updates stream** (`UpdatesArchiveProofs`): any number of calls, intervals and faults.
`UpdatesTypeCorrect`, `RecordsWrittenOnce`, `RecordsNotBeforeTheirTime`,
`WriterIsInitialized` from `UpdatesInv`, and, for intervals of a minute or more,
`AckedRecordsRetained` and `FinalizedRecordsKept` from `KeptInv`. The strengthening says
where every time that was read stands relative to the clock and the open segment
(`InTime`), and that the path of an interval that is not over has not been written yet
(`NotRewritten`); the second uses that names carry minutes, hence the hypothesis.

**RIB snapshots** (`RibSnapshotProofs`): any number of operators, crashes and failures.
`SnapshotTypeCorrect`, `SnapshotIsWhole`, `SidecarMatches`, `StatusIsPublished` from
`SnapshotInv`: while snapshots come one at a time, the temporary path names the file the
one under way has open, which holds what it has written so far (`InTurn`), and the manifest
lags behind the file only between rename and sidecar (`ManifestFollows`).

**BGP session** (`PeerSessionProofs`): any hold times, intervals, delay, numbers of
prefixes, of messages on the wire, of misbehaviours and of messages the buffers hold.

- `SessionTypeCorrect`, `EstablishedMeansSession` and the refinement `TaskImplementsFsm`
  from `SessionInv`, which ties the reported state and the remote's state to the
  position of the task.
- `GoodSessionsSurvive` (`GoodSessionSurvives`) from `GoodInv`: both ends keep at every
  moment of an undisturbed session enough of their hold timers for what is on the wire
  and for the next keepalive (`LocalOutlasts`, `RemoteOutlasts`), and the messages come in
  an order and framing that neither end refuses (`InOrder`, `Framed`). The hypothesis
  `DelayAllowed` bounds the delay: the hold time exceeds keepalive interval plus delay, and
  twice the delay; with no prefix to send it exceeds keepalive interval plus twice the
  delay, because nothing then follows the OPEN and KEEPALIVE until the first interval is
  over. The last condition is tight: with hold 6, delay 2 and no prefixes TLC finds the
  session dropped. Real delays are far below these bounds for the default of 90 seconds.

**Peer registry** (`PeerRegistryProofs`): any list of peers without duplicate addresses,
any number of resets, any addresses. `RegistryTypeCorrect`, `OneTaskForEachPeer`,
`EntriesShowTheirTask` (`ShownIsCurrent`) from `RegistryInv`: a peer's one task that was
not aborted is that of its entry or, while a reset has taken the entry out, the one this
reset holds, and no second reset of the peer is under way then (`CurrentTask`); so what an
entry shows comes from its own task, from an aborted one, or from nobody yet
(`ShownFollows`).

**Control server** (`ControlServerProofs`): any number of daemons, connections, requests
and events, any channel size. `RepliesAreInOrder`, `EventsAreInOrder`, `SocketIsInTurn` from
`ControlInv`: one response for each request taken, except the one being written or lost
with its connection (`RepliesCounted`); a receiver stands behind what it handed out, right
behind it unless it lagged (`Behind`); and, while daemons run one at a time, the file leads
to the one that bound it.

**Configuration** (`ConfigurationProofs`): any set of files (intervals are natural
numbers, profile and destination type are what the enums allow, destinations a list) and
any clock.

- `AcceptedCanStart` and `SnapshotsBeginUpdates` from `ConfigInv`: from `Load` on the
  configuration has passed `validate` and stays, `validate` asks for all that the later
  steps need but for next hops and file names, and published segments begin intervals of
  their stream. The second theorem is arithmetic: a multiple of the RIB interval is
  one of the updates interval.
- `SegmentsStay` (`ArchiveIntact`) and `ReplicasAreServed` (`ReplicasServed`) from
  `PlacesInv`. Two starts a minute or more apart differ in day or minute, so a path names
  its segment (`PathIsOwn`); a copy goes to no path of the archive (`CopyElsewhere`), and
  to no place of a destination that has its place to itself (`TargetsApart`); the map of the
  replicator holds, under each key, a destination of that key (`MapHolds`).

Only model-checked: the liveness properties (`BacklogClears`, `DeadPeerNoticed`,
`ComesBack`, `CatchesUp`, `SchedulerSucceeds`, `PeerReturns`, `ListensAgain`, `Answered`,
`StopStops`, `EventReaches`), since fairness and ENABLED are beyond the proof system
used. What recursive data definitions compute for all inputs cannot be proved with the
installed provers either; there are none in these modules.

## 5. Not modelled

Byte formats (MRT, BGP attributes, JSON), compression, TCP-MD5 (one setsockopt, whose
failure is one of the reasons an attempt fails), logging, read-only queries, the text
of addresses and paths, `..` before the last component of a template or in `collector_id`
(the file system resolves it, so that a path may lose its date or leave the root), a slash
after a template's file name with a dot in it (its rename fails), and fsync (a crash here is one of the process, not of the disk
cache). `ingest_update` and `ingest_peer_state` have no caller in the daemon yet; they are
modelled as the library interface the integration test uses.

## 6. Plan

1. Type correctness of `ControlServer` as an invariant of its own, now part of
   `ControlInv`, and of `Configuration`.
2. Facts about the limits of the claims: which hypothesis of `GoodSessionsSurvive`,
   `AckedRecordsRetained` and `SegmentsStay` fails in which run of section 3.
