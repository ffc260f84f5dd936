----------------------------- MODULE Replicator -----------------------------
(***************************************************************************)
(* The replication of finalized segments: what SegmentWriter::finalize and *)
(* enqueue_segment leave on disk and in the queue, and the replicator task *)
(* (src/archive/replicator.rs) that copies segment and manifest to every   *)
(* destination.  The daemon runs on a multi-threaded runtime, so           *)
(* finalizations of different segments, the replicator, and the control    *)
(* command that retries failed jobs interleave at every file operation and *)
(* every SQL statement.                                                    *)
(*                                                                         *)
(* The content of a file is the number of the finalization that produced   *)
(* it; 0 stands for a file that is missing, truncated or torn.  A manifest *)
(* with number v holds the checksum of segment content v.                  *)
(*                                                                         *)
(* Finalizations of one path are serialized here, as the updates_writer    *)
(* lock does for the updates stream and the scheduler for ribs.            *)
(***************************************************************************)
EXTENDS ReplicationQueue

CONSTANTS
  Local,          \* destinations of type `local`; the others are S3
  MaxRetries,     \* destination -> max_retries, 0 for unlimited
  Configs,        \* configurations the daemon may be started with
  Faults,         \* the faults that may happen, a subset of FaultKinds
  OperatorRetries,\* whether `archive replicator retry` is issued
  MaxVersion      \* bound on the finalizations of one path

FaultKinds == {"crash", "db", "archive_io", "copy"}
Modes == {"primary", "async_replica"}

ASSUME DestinationAssumption ==
  /\ Local \subseteq Destinations
  /\ MaxRetries \in [Destinations -> 0..U32Max]
ASSUME ConfigsAssumption ==
  /\ Configs # {}
  /\ \A c \in Configs : /\ DOMAIN c \subseteq Destinations
                        /\ c \in [DOMAIN c -> Modes]
ASSUME FaultsAssumption == Faults \subseteq FaultKinds
ASSUME OperatorAssumption == OperatorRetries \in BOOLEAN
ASSUME MaxVersionAssumption == MaxVersion \in Nat

VARIABLES
  up,             \* the daemon runs
  destinations,   \* the replicator's map: key -> mode
  primary,        \* path -> contents of segment and manifest in the archive
  fin,            \* path -> where its finalization stands
  owing,          \* path -> destinations enqueue_segment has yet to reach
  claimed,        \* id -> job: what run_once holds of its batch
  job,            \* id of the job in process_job, 0 for none
  stage,          \* where process_job stands
  source,         \* content of the source file when the copy opened it
  replica,        \* destination -> path -> contents of segment and manifest
  enqueued        \* history: destination -> path -> last content enqueued

publishVars == <<primary, fin, owing>>
runVars     == <<claimed, job, stage, source>>
vars == <<queue, next_id, up, destinations, primary, fin, owing, claimed, job,
          stage, source, replica, enqueued>>

Version == 0..MaxVersion
Torn == 0
Pair == [seg : Version, manifest : Version]
Stages == {"start", "segment", "manifest", "manifest_copy", "ok", "err"}

TypeOK ==
  /\ QueueTypeOK
  /\ up \in BOOLEAN
  /\ destinations \in Configs
  /\ primary \in [Paths -> Pair]
  /\ fin \in [Paths -> {"idle", "renamed", "writing", "enqueue"}]
  /\ owing \in [Paths -> SUBSET Destinations]
  /\ DOMAIN claimed \subseteq Nat \ {0}
  /\ claimed \in [DOMAIN claimed -> ReplicationJob]
  /\ job \in Nat
  /\ stage \in Stages
  /\ source \in Version
  /\ replica \in [Destinations -> [Paths -> Pair]]
  /\ enqueued \in [Destinations -> [Paths -> Version]]

NoJobs == [i \in {} |-> i]

Init ==
  /\ QueueInit
  /\ up = TRUE
  /\ destinations \in Configs
  /\ primary = [p \in Paths |-> [seg |-> Torn, manifest |-> Torn]]
  /\ fin = [p \in Paths |-> "idle"]
  /\ owing = [p \in Paths |-> {}]
  /\ claimed = NoJobs
  /\ job = 0
  /\ stage = "start"
  /\ source = Torn
  /\ replica = [d \in Destinations |->
                  [p \in Paths |-> [seg |-> Torn, manifest |-> Torn]]]
  /\ enqueued = [d \in Destinations |-> [p \in Paths |-> 0]]

-----------------------------------------------------------------------------
(* SegmentWriter::finalize, then Replicator::enqueue_segment.              *)

AsyncReplicas ==
  {d \in DOMAIN destinations : destinations[d] = "async_replica"}

\* fs::rename: the new content replaces an earlier one under the same path.
FinalizeRename(p) ==
  /\ up /\ fin[p] = "idle"
  /\ primary[p].seg < MaxVersion
  /\ primary' = [primary EXCEPT ![p].seg = @ + 1]
  /\ fin' = [fin EXCEPT ![p] = "renamed"]
  /\ UNCHANGED <<queueVars, up, destinations, owing, runVars, replica,
                 enqueued>>

\* SegmentManifest::build read the segment; fs::write truncates the sidecar.
BeginSidecar(p) ==
  /\ up /\ fin[p] = "renamed"
  /\ primary' = [primary EXCEPT ![p].manifest = Torn]
  /\ fin' = [fin EXCEPT ![p] = "writing"]
  /\ UNCHANGED <<queueVars, up, destinations, owing, runVars, replica,
                 enqueued>>

\* fs::write completes, finalize returns and enqueue_segment starts its loop.
EndSidecar(p) ==
  /\ up /\ fin[p] = "writing"
  /\ primary' = [primary EXCEPT ![p].manifest = primary[p].seg]
  /\ owing' = [owing EXCEPT ![p] = AsyncReplicas]
  /\ fin' = [fin EXCEPT ![p] = IF AsyncReplicas = {} THEN "idle"
                               ELSE "enqueue"]
  /\ UNCHANGED <<queueVars, up, destinations, runVars, replica, enqueued>>

\* build or write_sidecar fails: finalize returns the error, nothing is
\* enqueued and the files stay as they are.
FinalizeFails(p) ==
  /\ up /\ "archive_io" \in Faults
  /\ fin[p] \in {"renamed", "writing"}
  /\ fin' = [fin EXCEPT ![p] = "idle"]
  /\ UNCHANGED <<queueVars, up, destinations, primary, owing, runVars,
                 replica, enqueued>>

\* One turn of the loop over the map, whose order is arbitrary.
EnqueueSegment(p, d) ==
  /\ up /\ fin[p] = "enqueue" /\ d \in owing[p]
  /\ Enqueue(p, d, MaxRetries[d])
  /\ owing' = [owing EXCEPT ![p] = @ \ {d}]
  /\ fin' = [fin EXCEPT ![p] = IF owing[p] \ {d} = {} THEN "idle" ELSE @]
  /\ enqueued' = [enqueued EXCEPT ![d][p] = primary[p].seg]
  /\ UNCHANGED <<up, destinations, primary, runVars, replica>>

\* The `?` of enqueue_segment: the destinations not reached yet get no job.
EnqueueFails(p) ==
  /\ up /\ "db" \in Faults
  /\ fin[p] = "enqueue"
  /\ owing' = [owing EXCEPT ![p] = {}]
  /\ fin' = [fin EXCEPT ![p] = "idle"]
  /\ UNCHANGED <<queueVars, up, destinations, primary, runVars, replica,
                 enqueued>>

-----------------------------------------------------------------------------
(* Replicator::run_once and process_job.                                   *)

\* The loop sleeps between two batches, so a claim finds an empty hand.  A
\* claim that returns no row, or whose transaction rolls back, changes
\* nothing.
ClaimReady ==
  /\ up /\ claimed = NoJobs
  /\ ReadyBatch # {}
  /\ MarkInProgress(ReadyBatch)
  /\ claimed' = [i \in ReadyBatch |-> JobOf(i)]
  /\ UNCHANGED <<up, destinations, publishVars, job, stage, source, replica,
                 enqueued>>

\* `for job in jobs`: the batch is processed in the order of the query.
NextJob ==
  /\ up /\ job = 0
  /\ \E i \in DOMAIN claimed :
       /\ \A j \in DOMAIN claimed : i <= j
       /\ job' = i
  /\ stage' = "start"
  /\ UNCHANGED <<queueVars, up, destinations, publishVars, claimed, source,
                 replica, enqueued>>

CurrentPath == claimed[job].path
CurrentDest == claimed[job].dest
InJob(st) == up /\ job # 0 /\ stage = st

\* Destination lookup and parse of the manifest, then the copy opens the
\* segment: a local fs::copy truncates its target, a put leaves it alone.
OpenSegment ==
  LET d == CurrentDest  p == CurrentPath IN
  /\ InJob("start")
  /\ d \in DOMAIN destinations
  /\ primary[p].manifest # Torn
  /\ source' = primary[p].seg
  /\ replica' = IF d \in Local
                THEN [replica EXCEPT ![d][p].seg = Torn] ELSE replica
  /\ stage' = "segment"
  /\ UNCHANGED <<queueVars, up, destinations, publishVars, claimed, job,
                 enqueued>>

\* The lookup fails, the manifest does not parse, or the copy fails before it
\* touches its target.
PrepareFails ==
  /\ InJob("start")
  /\ \/ CurrentDest \notin DOMAIN destinations
     \/ primary[CurrentPath].manifest = Torn
     \/ "copy" \in Faults
  /\ stage' = "err"
  /\ UNCHANGED <<queueVars, up, destinations, publishVars, claimed, job,
                 source, replica, enqueued>>

\* A local copy has the file open, which keeps its content when a rename
\* replaces the path.  ByteStream::from_path takes the length of the file and
\* opens it when the put is sent, so an upload that overlaps the rename sends
\* the old content, the new one, or the new one cut to the old length.
ReadsOfSegment(d, p) ==
  IF d \in Local \/ source = primary[p].seg THEN {source}
  ELSE {source, primary[p].seg, Torn}

CopySegment ==
  LET d == CurrentDest  p == CurrentPath IN
  /\ InJob("segment")
  /\ \E read \in ReadsOfSegment(d, p) :
       replica' = [replica EXCEPT ![d][p].seg = read]
  /\ stage' = "manifest"
  /\ UNCHANGED <<queueVars, up, destinations, publishVars, claimed, job,
                 source, enqueued>>

OpenManifest ==
  LET d == CurrentDest  p == CurrentPath IN
  /\ InJob("manifest")
  /\ source' = primary[p].manifest
  /\ replica' = IF d \in Local
                THEN [replica EXCEPT ![d][p].manifest = Torn] ELSE replica
  /\ stage' = "manifest_copy"
  /\ UNCHANGED <<queueVars, up, destinations, publishVars, claimed, job,
                 enqueued>>

\* A sidecar is rewritten in place, so a copy that overlaps the rewriting
\* reads the old content, the new one, or a mixture of the two.
CopyManifest ==
  LET d == CurrentDest  p == CurrentPath IN
  /\ InJob("manifest_copy")
  /\ \E read \in IF source = primary[p].manifest THEN {source}
                 ELSE {source, primary[p].manifest, Torn} :
       replica' = [replica EXCEPT ![d][p].manifest = read]
  /\ stage' = "ok"
  /\ UNCHANGED <<queueVars, up, destinations, publishVars, claimed, job,
                 source, enqueued>>

\* Seeded fault: the error of a copy is dropped.
CopyFailsIgnored ==
  /\ up /\ job # 0 /\ stage \in {"segment", "manifest", "manifest_copy"}
  /\ "copy" \in Faults
  /\ stage' = "ok"
  /\ UNCHANGED <<queueVars, up, destinations, publishVars, claimed, job,
                 source, replica, enqueued>>

\* process_job returns an error after what it already did: a truncated
\* target stays truncated.
CopyFails ==
  /\ up /\ job # 0 /\ stage \in {"segment", "manifest", "manifest_copy"}
  /\ "copy" \in Faults
  /\ stage' = "err"
  /\ UNCHANGED <<queueVars, up, destinations, publishVars, claimed, job,
                 source, replica, enqueued>>

\* The job leaves the batch.
DropJob ==
  /\ claimed' = [i \in DOMAIN claimed \ {job} |-> claimed[i]]
  /\ job' = 0
  /\ stage' = "start"
  /\ UNCHANGED source

JobSucceeds ==
  /\ InJob("ok")
  /\ MarkSuccess(job)
  /\ DropJob
  /\ UNCHANGED <<up, destinations, publishVars, replica, enqueued>>

\* Seeded fault: `break` where the code has `continue`.
JobFailsBreaks ==
  /\ InJob("err")
  /\ MarkFailed(job, claimed[job])
  /\ claimed' = NoJobs
  /\ job' = 0
  /\ stage' = "start"
  /\ UNCHANGED <<up, destinations, publishVars, source, replica, enqueued>>

JobFails ==
  /\ InJob("err")
  /\ MarkFailed(job, claimed[job])
  /\ DropJob
  /\ UNCHANGED <<up, destinations, publishVars, replica, enqueued>>

\* The `?` after mark_success and mark_failed: run_once returns, and with it
\* goes the rest of the batch.
MarkError ==
  /\ up /\ "db" \in Faults
  /\ job # 0 /\ stage \in {"ok", "err"}
  /\ claimed' = NoJobs
  /\ job' = 0
  /\ stage' = "start"
  /\ UNCHANGED <<queueVars, up, destinations, publishVars, source, replica,
                 enqueued>>

-----------------------------------------------------------------------------
(* Operator, clock, crash and restart.                                     *)

RetryFailed ==
  /\ up /\ OperatorRetries
  /\ FailedCount > 0
  /\ RetryFailedRows
  /\ UNCHANGED <<up, destinations, publishVars, runVars, replica, enqueued>>

BackoffElapses(i) ==
  /\ BackoffOver(i)
  /\ UNCHANGED <<up, destinations, publishVars, runVars, replica, enqueued>>

\* The process ends: a kill, a power failure, or `focl stop`, which aborts
\* the tasks where they are.  Files and committed rows stay.
Crash ==
  /\ up /\ "crash" \in Faults
  /\ up' = FALSE
  /\ fin' = [p \in Paths |-> "idle"]
  /\ owing' = [p \in Paths |-> {}]
  /\ claimed' = NoJobs
  /\ job' = 0
  /\ stage' = "start"
  /\ source' = Torn
  /\ UNCHANGED <<queueVars, destinations, primary, replica, enqueued>>

\* ReplicationQueue::init creates the table if it is missing, nothing more.
Restart ==
  /\ ~ up
  /\ up' = TRUE
  /\ destinations' \in Configs
  /\ UNCHANGED <<queueVars, publishVars, runVars, replica, enqueued>>

-----------------------------------------------------------------------------
Publish(p) ==
  \/ FinalizeRename(p)
  \/ BeginSidecar(p)
  \/ EndSidecar(p)
  \/ FinalizeFails(p)
  \/ \E d \in Destinations : EnqueueSegment(p, d)
  \/ EnqueueFails(p)

RunOnce ==
  \/ ClaimReady
  \/ NextJob
  \/ OpenSegment
  \/ PrepareFails
  \/ CopySegment
  \/ OpenManifest
  \/ CopyManifest
  \/ CopyFails
  \/ JobSucceeds
  \/ JobFails
  \/ MarkError

Next ==
  \/ \E p \in Paths : Publish(p)
  \/ RunOnce
  \/ RetryFailed
  \/ \E i \in DOMAIN queue : BackoffElapses(i)
  \/ Crash
  \/ Restart

Spec == Init /\ [][Next]_vars
-----------------------------------------------------------------------------
(* Fairness.  The replicator is a task in an endless loop, a finalization  *)
(* that began is carried on by the task that began it, and time passes.    *)
(* Nothing makes a finalization, a fault or an operator command happen.    *)

JobIds == 1..(MaxVersion * Cardinality(Paths) * Cardinality(Destinations))

Fairness ==
  /\ WF_vars(RunOnce)
  /\ \A p \in Paths : WF_vars(BeginSidecar(p) \/ EndSidecar(p)
                              \/ \E d \in Destinations : EnqueueSegment(p, d))
  /\ \A i \in JobIds : WF_vars(BackoffElapses(i))

FairSpec == Spec /\ Fairness

-----------------------------------------------------------------------------
(* Properties.                                                             *)

HasRow(d, p) == \E i \in DOMAIN queue : queue[i].dest = d /\ queue[i].path = p

\* mark_failed writes `attempts` and decides on giving up from the copy of the
\* row that claim_ready handed out, batches earlier: that copy is never stale,
\* and the row is still there, marked in_progress, whatever the operator's
\* retry command, an enqueue or a fault did in between.
ClaimedCopyFresh ==
  /\ \A i \in DOMAIN claimed : /\ i \in DOMAIN queue
                               /\ queue[i].status = "in_progress"
                               /\ claimed[i] = JobOf(i)
  /\ job # 0 => job \in DOMAIN claimed

\* A later finalization has replaced the content last enqueued for the S3
\* destination d, and an upload may have met the replacement.
Superseded(d, p) == d \notin Local /\ primary[p].seg > enqueued[d][p]

\* The queue keeps its promise across crashes, database errors and failing
\* copies: as long as a destination has not received, complete, the content
\* last enqueued for it (or a later one), the table has a row for that
\* segment and destination, unless that content is gone from the archive too.
\* A success is never recorded for a torn copy of a segment that stayed.
SegmentCovered ==
  \A d \in Destinations, p \in Paths :
    ~ HasRow(d, p) => \/ replica[d][p].seg >= enqueued[d][p]
                      \/ Superseded(d, p)

\* The contract between the archive and its replicas that the queue, the
\* batches and the copies implement.
Contract == INSTANCE Delivery WITH
  Streamed <- Destinations \ Local,
  latest <- [p \in Paths |-> primary[p].seg],
  wanted <- enqueued,
  owed <- [d \in Destinations |-> [p \in Paths |-> HasRow(d, p)]],
  have <- [d \in Destinations |-> [p \in Paths |-> replica[d][p].seg]]

\* Whatever fails, crashes or is reconfigured, what the replicator does to the
\* copies is a behaviour of Delivery: no copy is touched without a row for it,
\* and the last row goes only when the copy is complete.
ImplementsDelivery == Contract!Spec

\* Where only copies fail: a segment whose finalization is over and that has
\* no job left is, at every replica, the pair of segment and manifest of the
\* archive, although the replicator reads both files while a later
\* finalization of the same path replaces the one and rewrites the other.
ReplicaCurrent ==
  \A p \in Paths : \A d \in AsyncReplicas :
    (fin[p] = "idle" /\ primary[p].seg > 0 /\ ~ HasRow(d, p))
      => replica[d][p] = primary[p]

\* Every job marked in_progress is in the hands of the running replicator;
\* one that is not is never claimed again, since claim_ready selects
\* `pending` rows and the retry command `failed` ones.
NoJobStranded ==
  up => \A i \in DOMAIN queue :
          queue[i].status = "in_progress" => i \in DOMAIN claimed

\* A job is given up only by a failure that used up a finite budget, so a
\* destination with max_retries = 0 is never given up; and no failure,
\* retry command or restart gives a job attempts back.
RetryBudgetKept ==
  [][\A i \in DOMAIN queue :
       i \in DOMAIN queue' =>
         /\ queue'[i].attempts >= queue[i].attempts
         /\ queue'[i].status = "failed" =>
              queue[i].max_retries > 0
                /\ queue'[i].attempts >= queue[i].max_retries]_vars

\* A destination whose copies fail for ever, and which is retried for ever
\* because its budget is unlimited, does not keep the jobs of the others
\* waiting: their backlog goes to zero, for good once finalizations stop.
BacklogClears ==
  <>[](\A i \in DOMAIN queue :
         queue[i].max_retries > 0 => queue[i].status = "failed")
=============================================================================
