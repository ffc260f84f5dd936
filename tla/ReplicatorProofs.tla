-------------------------- MODULE ReplicatorProofs --------------------------
(* Proofs about Replicator, for every set of paths and destinations, every  *)
(* configuration, retry budget, batch size and set of faults, except the    *)
(* last two theorems, which say in their hypothesis which faults they allow. *)
EXTENDS Replicator, TLAPS

-----------------------------------------------------------------------------
(* Type correctness.                                                       *)

\* What claim_ready takes are pending rows of the table.
LEMMA ReadyBatchPending ==
  /\ ReadyBatch \subseteq DOMAIN queue
  /\ \A i \in ReadyBatch : queue[i].status = "pending"
BY DEF ReadyBatch, Ready

\* saturating_add(1) stays in u32 and never decreases a counter.
LEMMA SaturatingSuccType ==
  ASSUME NEW n \in 0..U32Max
  PROVE  SaturatingSucc(n) \in 0..U32Max /\ SaturatingSucc(n) >= n
BY U32MaxAssumption DEF SaturatingSucc

\* A torn file is one of the contents a file may have.
LEMMA TornIsVersion == Torn \in Version
BY MaxVersionAssumption DEF Torn, Version

\* Writing one file of a pair of segment and manifest gives a pair.
LEMMA PairUpdate ==
  ASSUME NEW r \in Pair, NEW v \in Version
  PROVE  /\ [r EXCEPT !.seg = v] \in Pair
         /\ [r EXCEPT !.manifest = v] \in Pair
BY DEF Pair

\* The types hold when the daemon first starts.
LEMMA InitTypeOK == Init => TypeOK
BY MaxVersionAssumption, U32MaxAssumption
   DEF Init, QueueInit, TypeOK, QueueTypeOK, NoJobs, Version, Torn, Pair,
       Stages

\* Finalizations and their enqueueing keep the types.
LEMMA PublishTypeOK ==
  ASSUME TypeOK, NEW p \in Paths, Publish(p)
  PROVE  TypeOK'
<1> USE DEF TypeOK, publishVars, runVars, queueVars
<1>1. CASE FinalizeRename(p)
  <2>1. primary[p].seg + 1 \in Version
    BY <1>1, MaxVersionAssumption DEF FinalizeRename, Pair, Version
  <2>2. primary' \in [Paths -> Pair]
    BY <1>1, <2>1, PairUpdate DEF FinalizeRename
  <2> QED
    BY <1>1, <2>2 DEF FinalizeRename, QueueTypeOK
<1>2. CASE BeginSidecar(p)
  <2>1. primary' \in [Paths -> Pair]
    BY <1>2, TornIsVersion, PairUpdate DEF BeginSidecar
  <2> QED
    BY <1>2, <2>1 DEF BeginSidecar, QueueTypeOK
<1>3. CASE EndSidecar(p)
  <2>1. AsyncReplicas \subseteq Destinations
    BY ConfigsAssumption DEF AsyncReplicas
  <2> QED
    BY <1>3, <2>1, MaxVersionAssumption
       DEF EndSidecar, QueueTypeOK, Pair, Version
<1>4. CASE FinalizeFails(p)
  BY <1>4 DEF FinalizeFails, QueueTypeOK
<1>5. ASSUME NEW d \in Destinations, EnqueueSegment(p, d)
      PROVE  TypeOK'
  <2>1. QueueTypeOK'
    <3>1. [path |-> p, dest |-> d, attempts |-> 0,
           max_retries |-> MaxRetries[d], due |-> TRUE, status |-> "pending"]
             \in Row
      BY DestinationAssumption, U32MaxAssumption DEF Row, Status
    <3>2. DOMAIN queue' = DOMAIN queue \union {next_id} /\ next_id' = next_id + 1
      BY <1>5 DEF EnqueueSegment, Enqueue
    <3>3. queue' \in [DOMAIN queue' -> Row]
      BY <1>5, <3>1, <3>2 DEF EnqueueSegment, Enqueue, QueueTypeOK
    <3> QED
      BY <3>2, <3>3 DEF QueueTypeOK
  <2>2. enqueued' \in [Destinations -> [Paths -> Version]]
    BY <1>5 DEF EnqueueSegment, Pair
  <2> QED
    BY <1>5, <2>1, <2>2 DEF EnqueueSegment
<1>6. CASE EnqueueFails(p)
  BY <1>6 DEF EnqueueFails, QueueTypeOK
<1> QED
  BY <1>1, <1>2, <1>3, <1>4, <1>5, <1>6 DEF Publish

\* DropJob keeps the types of what run_once holds.
LEMMA DropJobType ==
  ASSUME TypeOK, DropJob
  PROVE  /\ DOMAIN claimed' \subseteq Nat \ {0}
         /\ claimed' \in [DOMAIN claimed' -> ReplicationJob]
         /\ job' \in Nat /\ stage' \in Stages /\ source' \in Version
BY DEF TypeOK, DropJob, Stages

\* A replica file that is written holds a version again.
LEMMA ReplicaUpdateType ==
  ASSUME TypeOK, NEW d \in Destinations, NEW p \in Paths, NEW v \in Version
  PROVE  /\ [replica EXCEPT ![d][p].seg = v] \in [Destinations -> [Paths -> Pair]]
         /\ [replica EXCEPT ![d][p].manifest = v]
               \in [Destinations -> [Paths -> Pair]]
<1>1. replica[d][p] \in Pair
  BY DEF TypeOK
<1>2. /\ [replica[d][p] EXCEPT !.seg = v] \in Pair
      /\ [replica[d][p] EXCEPT !.manifest = v] \in Pair
  BY <1>1, PairUpdate
<1> QED
  BY <1>2 DEF TypeOK

\* The job in process_job is one the replicator claimed.
LEMMA CurrentJobType ==
  ASSUME TypeOK, ClaimedCopyFresh, job # 0
  PROVE  /\ job \in DOMAIN claimed /\ job \in DOMAIN queue
         /\ CurrentPath \in Paths /\ CurrentDest \in Destinations
         /\ queue[job].path = CurrentPath /\ queue[job].dest = CurrentDest
<1>1. job \in DOMAIN claimed
  BY DEF ClaimedCopyFresh
<1>2. claimed[job] \in ReplicationJob
  BY <1>1 DEF TypeOK
<1> QED
  BY <1>1, <1>2
     DEF ClaimedCopyFresh, ReplicationJob, CurrentPath, CurrentDest,
                    JobOf

\* The columns written by the statements keep their types.
LEMMA RowUpdate ==
  ASSUME NEW r \in Row, NEW s \in Status, NEW b \in BOOLEAN, NEW n \in
         0..U32Max
  PROVE  [r EXCEPT !.attempts = n, !.status = s, !.due = b] \in Row
BY DEF Row

\* The replicator's steps keep the types.
LEMMA RunOnceTypeOK ==
  ASSUME TypeOK, ClaimedCopyFresh, RunOnce
  PROVE  TypeOK'
<1> USE DEF publishVars, runVars, queueVars
<1>1. CASE ClaimReady
  <2>1. QueueTypeOK'
    <3>1. \A i \in DOMAIN queue : [queue[i] EXCEPT !.status = "in_progress"] \in Row
      <4>1. \A r \in Row : [r EXCEPT !.status = "in_progress"] \in Row
        BY DEF Row, Status
      <4> QED
        BY <4>1 DEF TypeOK, QueueTypeOK
    <3> QED
      BY <1>1, <3>1 DEF ClaimReady, MarkInProgress, TypeOK, QueueTypeOK
  <2>2. \A i \in DOMAIN queue : JobOf(i) \in ReplicationJob
    BY DEF JobOf, ReplicationJob, TypeOK, QueueTypeOK, Row
  <2>3. /\ DOMAIN claimed' \subseteq Nat \ {0}
        /\ claimed' \in [DOMAIN claimed' -> ReplicationJob]
    BY <1>1, <2>2, ReadyBatchPending DEF ClaimReady, TypeOK, QueueTypeOK
  <2> QED
    BY <1>1, <2>1, <2>3 DEF ClaimReady, TypeOK
<1>2. CASE NextJob
  BY <1>2 DEF NextJob, TypeOK, QueueTypeOK, Stages
<1>3. CASE OpenSegment
  <2>1. CurrentPath \in Paths /\ CurrentDest \in Destinations
    BY <1>3, CurrentJobType DEF OpenSegment, InJob
  <2>2. replica' \in [Destinations -> [Paths -> Pair]]
    BY <1>3, <2>1, ReplicaUpdateType, TornIsVersion DEF OpenSegment, TypeOK
  <2>3. source' \in Version
    BY <1>3, <2>1 DEF OpenSegment, TypeOK, Pair
  <2> QED
    BY <1>3, <2>2, <2>3 DEF OpenSegment, TypeOK, QueueTypeOK, Stages
<1>4. CASE PrepareFails
  BY <1>4 DEF PrepareFails, TypeOK, QueueTypeOK, Stages
<1>5. CASE CopySegment
  <2>1. CurrentPath \in Paths /\ CurrentDest \in Destinations
    BY <1>5, CurrentJobType DEF CopySegment, InJob
  <2>2. PICK read \in {source, primary[CurrentPath].seg, Torn} :
          replica' = [replica EXCEPT ![CurrentDest][CurrentPath].seg = read]
    BY <1>5 DEF CopySegment, ReadsOfSegment
  <2>3. read \in Version
    BY <2>1, <2>2, TornIsVersion DEF TypeOK, Pair
  <2>4. replica' \in [Destinations -> [Paths -> Pair]]
    BY <2>1, <2>2, <2>3, ReplicaUpdateType
  <2> QED
    BY <1>5, <2>4 DEF CopySegment, TypeOK, QueueTypeOK, Stages
<1>6. CASE OpenManifest
  <2>1. CurrentPath \in Paths /\ CurrentDest \in Destinations
    BY <1>6, CurrentJobType DEF OpenManifest, InJob
  <2>2. replica' \in [Destinations -> [Paths -> Pair]]
    BY <1>6, <2>1, ReplicaUpdateType, TornIsVersion DEF OpenManifest, TypeOK
  <2>3. source' \in Version
    BY <1>6, <2>1 DEF OpenManifest, TypeOK, Pair
  <2> QED
    BY <1>6, <2>2, <2>3 DEF OpenManifest, TypeOK, QueueTypeOK, Stages
<1>7. CASE CopyManifest
  <2>1. CurrentPath \in Paths /\ CurrentDest \in Destinations
    BY <1>7, CurrentJobType DEF CopyManifest, InJob
  <2>2. PICK read \in {source, primary[CurrentPath].manifest, Torn} :
          replica' = [replica EXCEPT ![CurrentDest][CurrentPath].manifest = read]
    BY <1>7 DEF CopyManifest
  <2>3. read \in Version
    BY <2>1, <2>2, TornIsVersion DEF TypeOK, Pair
  <2>4. replica' \in [Destinations -> [Paths -> Pair]]
    BY <2>1, <2>2, <2>3, ReplicaUpdateType
  <2> QED
    BY <1>7, <2>4 DEF CopyManifest, TypeOK, QueueTypeOK, Stages
<1>8. CASE CopyFails
  BY <1>8 DEF CopyFails, TypeOK, QueueTypeOK, Stages
<1>9. CASE JobSucceeds
  <2>1. QueueTypeOK'
    BY <1>9 DEF JobSucceeds, MarkSuccess, TypeOK, QueueTypeOK
  <2> QED
    BY <1>9, <2>1, DropJobType DEF JobSucceeds, TypeOK
<1>10. CASE JobFails
  <2>1. SaturatingSucc(claimed[job].attempts) \in 0..U32Max
    BY <1>10, CurrentJobType, SaturatingSuccType
       DEF JobFails, InJob, TypeOK, ReplicationJob
  <2>2. \A i \in DOMAIN queue : queue'[i] \in Row
    <3> SUFFICES ASSUME NEW i \in DOMAIN queue PROVE queue'[i] \in Row
      OBVIOUS
    <3>1. queue[i] \in Row /\ queue[i].due \in BOOLEAN
      BY DEF TypeOK, QueueTypeOK, Row
    <3>2. (IF Exhausted(claimed[job]) THEN "failed" ELSE "pending") \in Status
      BY DEF Status
    <3>3. (IF Exhausted(claimed[job]) THEN queue[i].due ELSE FALSE) \in BOOLEAN
      BY <3>1
    <3> QED
      BY <1>10, <2>1, <3>1, <3>2, <3>3, RowUpdate DEF JobFails, MarkFailed
  <2>3. QueueTypeOK'
    BY <1>10, <2>2 DEF JobFails, MarkFailed, TypeOK, QueueTypeOK
  <2> QED
    BY <1>10, <2>3, DropJobType DEF JobFails, TypeOK
<1>11. CASE MarkError
  BY <1>11 DEF MarkError, TypeOK, QueueTypeOK, Stages, NoJobs
<1> QED
  BY <1>1, <1>2, <1>3, <1>4, <1>5, <1>6, <1>7, <1>8, <1>9, <1>10, <1>11
     DEF RunOnce

\* Every step keeps the types.
LEMMA NextTypeOK ==
  ASSUME TypeOK, ClaimedCopyFresh, [Next]_vars
  PROVE  TypeOK'
<1> USE DEF publishVars, runVars, queueVars
<1>1. ASSUME NEW p \in Paths, Publish(p) PROVE TypeOK'
  BY <1>1, PublishTypeOK
<1>2. CASE RunOnce
  BY <1>2, RunOnceTypeOK
<1>3. CASE RetryFailed
  <2>1. \A i \in DOMAIN queue :
          [queue[i] EXCEPT !.status = "pending", !.due = TRUE] \in Row
    <3>1. \A r \in Row : [r EXCEPT !.status = "pending", !.due = TRUE] \in Row
      BY DEF Row, Status
    <3> QED
      BY <3>1 DEF TypeOK, QueueTypeOK
  <2>2. QueueTypeOK'
    BY <1>3, <2>1 DEF RetryFailed, RetryFailedRows, TypeOK, QueueTypeOK
  <2> QED
    BY <1>3, <2>2 DEF RetryFailed, TypeOK
<1>4. ASSUME NEW i \in DOMAIN queue, BackoffElapses(i) PROVE TypeOK'
  <2>1. [queue[i] EXCEPT !.due = TRUE] \in Row
    <3>1. queue[i] \in Row
      BY DEF TypeOK, QueueTypeOK
    <3> QED
      BY <3>1 DEF Row
  <2>2. QueueTypeOK'
    BY <1>4, <2>1 DEF BackoffElapses, BackoffOver, TypeOK, QueueTypeOK
  <2> QED
    BY <1>4, <2>2 DEF BackoffElapses, TypeOK
<1>5. CASE Crash
  BY <1>5, TornIsVersion DEF Crash, TypeOK, QueueTypeOK, NoJobs, Stages
<1>6. CASE Restart
  BY <1>6 DEF Restart, TypeOK, QueueTypeOK
<1>7. CASE UNCHANGED vars
  BY <1>7 DEF vars, TypeOK, QueueTypeOK
<1> QED
  BY <1>1, <1>2, <1>3, <1>4, <1>5, <1>6, <1>7 DEF Next

-----------------------------------------------------------------------------
(* The jobs the replicator holds and the rows they were claimed from.      *)

\* A replicator that starts holds no job, so no copy of a row.
LEMMA InitClaimedCopyFresh == Init => ClaimedCopyFresh
BY DEF Init, ClaimedCopyFresh, NoJobs

\* A step that leaves the batch and the claimed rows alone keeps them equal.
LEMMA ClaimedRowsKept ==
  ASSUME ClaimedCopyFresh, claimed' = claimed, job' = job,
         \A i \in DOMAIN claimed : i \in DOMAIN queue' /\ queue'[i] = queue[i]
  PROVE  ClaimedCopyFresh'
BY DEF ClaimedCopyFresh, JobOf

\* Every step keeps the copies in run_once's hands equal to their rows: the
\* statements that change a claimed row are those of the job's own end.
LEMMA NextClaimedCopyFresh ==
  ASSUME TypeOK, ClaimedCopyFresh, [Next]_vars
  PROVE  ClaimedCopyFresh'
<1> USE DEF publishVars, runVars, queueVars
<1>1. ASSUME NEW p \in Paths, Publish(p) PROVE ClaimedCopyFresh'
  <2>1. \A i \in DOMAIN claimed : i \in DOMAIN queue' /\ queue'[i] = queue[i]
    <3>1. next_id \notin DOMAIN queue
      BY DEF TypeOK, QueueTypeOK
    <3>2. CASE \E d \in Destinations : EnqueueSegment(p, d)
      BY <3>1, <3>2 DEF EnqueueSegment, Enqueue, ClaimedCopyFresh
    <3>3. CASE UNCHANGED queue
      BY <3>3 DEF ClaimedCopyFresh
    <3> QED
      BY <1>1, <3>2, <3>3
         DEF Publish, FinalizeRename, BeginSidecar, EndSidecar,
                              FinalizeFails, EnqueueFails
  <2>2. claimed' = claimed /\ job' = job
    BY <1>1 DEF Publish, FinalizeRename, BeginSidecar, EndSidecar,
                FinalizeFails, EnqueueSegment, EnqueueFails
  <2> QED
    BY <2>1, <2>2, ClaimedRowsKept
<1>2. CASE ClaimReady
  <2>1. /\ job' = job /\ DOMAIN claimed = {}
        /\ claimed' = [i \in ReadyBatch |-> JobOf(i)]
    BY <1>2 DEF ClaimReady, NoJobs
  <2>2. job = 0
    BY <2>1 DEF ClaimedCopyFresh
  <2>3. /\ DOMAIN queue' = DOMAIN queue
        /\ \A i \in ReadyBatch :
             queue'[i] = [queue[i] EXCEPT !.status = "in_progress"]
    BY <1>2, ReadyBatchPending DEF ClaimReady, MarkInProgress
  <2>4. \A i \in ReadyBatch : /\ i \in DOMAIN queue'
                             /\ queue'[i].status = "in_progress"
                             /\ JobOf(i)' = JobOf(i)
    <3> SUFFICES ASSUME NEW i \in ReadyBatch
                 PROVE  /\ i \in DOMAIN queue'
                        /\ queue'[i].status = "in_progress"
                        /\ JobOf(i)' = JobOf(i)
      OBVIOUS
    <3>1. i \in DOMAIN queue /\ queue[i] \in Row
      BY ReadyBatchPending DEF TypeOK, QueueTypeOK
    <3>2. /\ queue'[i].status = "in_progress"
          /\ queue'[i].path = queue[i].path /\ queue'[i].dest = queue[i].dest
          /\ queue'[i].attempts = queue[i].attempts
          /\ queue'[i].max_retries = queue[i].max_retries
      BY <2>3, <3>1 DEF Row
    <3> QED
      BY <2>3, <3>1, <3>2 DEF JobOf
  <2> QED
    BY <2>1, <2>2, <2>4 DEF ClaimedCopyFresh
<1>3. CASE NextJob
  BY <1>3 DEF NextJob, ClaimedCopyFresh, JobOf
<1>4. CASE OpenSegment \/ PrepareFails \/ CopySegment \/ OpenManifest
           \/ CopyManifest \/ CopyFails
  <2>1. UNCHANGED <<queue, claimed, job>>
    BY <1>4 DEF OpenSegment, PrepareFails, CopySegment, OpenManifest,
                CopyManifest, CopyFails
  <2> QED
    BY <2>1 DEF ClaimedCopyFresh, JobOf
<1>5. CASE JobSucceeds
  BY <1>5 DEF JobSucceeds, MarkSuccess, DropJob, ClaimedCopyFresh, JobOf
<1>6. CASE JobFails
  BY <1>6 DEF JobFails, MarkFailed, DropJob, ClaimedCopyFresh, JobOf
<1>7. CASE MarkError
  BY <1>7 DEF MarkError, ClaimedCopyFresh, NoJobs
<1>8. CASE RetryFailed
  <2>1. \A i \in DOMAIN claimed : i \in DOMAIN queue' /\ queue'[i] = queue[i]
    BY <1>8 DEF RetryFailed, RetryFailedRows, ClaimedCopyFresh
  <2> QED
    BY <1>8, <2>1, ClaimedRowsKept DEF RetryFailed
<1>9. ASSUME NEW i \in DOMAIN queue, BackoffElapses(i) PROVE ClaimedCopyFresh'
  <2>1. \A j \in DOMAIN claimed : j \in DOMAIN queue' /\ queue'[j] = queue[j]
    BY <1>9 DEF BackoffElapses, BackoffOver, ClaimedCopyFresh
  <2> QED
    BY <1>9, <2>1, ClaimedRowsKept DEF BackoffElapses
<1>10. CASE Crash
  BY <1>10 DEF Crash, ClaimedCopyFresh, NoJobs
<1>11. CASE Restart
  BY <1>11 DEF Restart, ClaimedCopyFresh, JobOf
<1>12. CASE UNCHANGED vars
  BY <1>12 DEF vars, ClaimedCopyFresh, JobOf
<1> QED
  BY <1>1, <1>2, <1>3, <1>4, <1>5, <1>6, <1>7, <1>8, <1>9, <1>10, <1>11, <1>12
     DEF Next, RunOnce

\* Type correctness of the whole system.
THEOREM TypeCorrect == Spec => []TypeOK
<1>1. Init => TypeOK /\ ClaimedCopyFresh
  BY InitTypeOK, InitClaimedCopyFresh
<1>2. TypeOK /\ ClaimedCopyFresh /\ [Next]_vars => (TypeOK /\ ClaimedCopyFresh)'
  BY NextTypeOK, NextClaimedCopyFresh
<1> QED
  BY <1>1, <1>2, PTL DEF Spec

\* Whatever faults happen, the in-memory copies from which mark_failed
\* computes the next `attempts` are never stale.
THEOREM ClaimsAreFresh == Spec => []ClaimedCopyFresh
<1>1. Init => TypeOK /\ ClaimedCopyFresh
  BY InitTypeOK, InitClaimedCopyFresh
<1>2. TypeOK /\ ClaimedCopyFresh /\ [Next]_vars => (TypeOK /\ ClaimedCopyFresh)'
  BY NextTypeOK, NextClaimedCopyFresh
<1> QED
  BY <1>1, <1>2, PTL DEF Spec

-----------------------------------------------------------------------------
(* The queue's promise.  SegmentCovered is not inductive: between two steps *)
(* of process_job the row is there and the copy is half done.  What holds   *)
(* at every step is that a destination which lacks the enqueued content is  *)
(* owed it by a row other than the current job's, or by the current job at  *)
(* a stage from which it will still copy that content or fail.              *)

OtherRow(d, p) ==
  \E i \in DOMAIN queue \ {job} : queue[i].dest = d /\ queue[i].path = p

JobOn(d, p) == job # 0 /\ CurrentDest = d /\ CurrentPath = p

Copying(d, p) == JobOn(d, p) /\ stage = "segment"

SegmentOwed(d, p) ==
  \/ OtherRow(d, p)
  \/ JobOn(d, p) /\ stage \in {"start", "err"}
  \/ Copying(d, p) /\ source >= enqueued[d][p]
  \/ ~ Copying(d, p) /\ replica[d][p].seg >= enqueued[d][p]
  \/ Superseded(d, p)

\* What the archive holds is at least what was enqueued last.
EnqueuedBound ==
  \A d \in Destinations, p \in Paths : enqueued[d][p] <= primary[p].seg

\* What a copy found when it began is not later than what the archive holds.
SourceBound ==
  job # 0 /\ stage = "segment" => source <= primary[CurrentPath].seg

CoverInv ==
  /\ TypeOK
  /\ ClaimedCopyFresh
  /\ EnqueuedBound
  /\ SourceBound
  /\ \A d \in Destinations, p \in Paths : SegmentOwed(d, p)

\* The rows S are still there, for the same segments and destinations.
RowsKept(S) ==
  \A i \in S : /\ i \in DOMAIN queue'
              /\ queue'[i].dest = queue[i].dest
              /\ queue'[i].path = queue[i].path

\* Only mark_success removes a row, and only the current job's; no statement
\* changes a row's segment or destination.
LEMMA NextKeepsRows ==
  ASSUME TypeOK, [Next]_vars
  PROVE  /\ RowsKept(DOMAIN queue \ {job})
         /\ ~ JobSucceeds => RowsKept(DOMAIN queue)
<1> USE DEF publishVars, runVars, queueVars
<1>0. \A i \in DOMAIN queue : queue[i] \in Row
  BY DEF TypeOK, QueueTypeOK
<1>1. CASE \E p \in Paths, d \in Destinations : EnqueueSegment(p, d)
  <2>1. next_id \notin DOMAIN queue
    BY DEF TypeOK, QueueTypeOK
  <2> QED
    BY <1>1, <2>1 DEF EnqueueSegment, Enqueue, RowsKept
<1>2. CASE ClaimReady
  BY <1>0, <1>2 DEF ClaimReady, MarkInProgress, RowsKept, Row
<1>3. CASE JobSucceeds
  BY <1>3 DEF JobSucceeds, MarkSuccess, RowsKept
<1>4. CASE JobFails
  BY <1>0, <1>4 DEF JobFails, MarkFailed, RowsKept, Row
<1>5. CASE RetryFailed
  BY <1>0, <1>5 DEF RetryFailed, RetryFailedRows, RowsKept, Row
<1>6. ASSUME NEW i \in DOMAIN queue, BackoffElapses(i)
      PROVE  RowsKept(DOMAIN queue)
  BY <1>0, <1>6 DEF BackoffElapses, BackoffOver, RowsKept, Row
<1>7. CASE UNCHANGED queue
  BY <1>7 DEF RowsKept
<1>8. RowsKept(DOMAIN queue) => RowsKept(DOMAIN queue \ {job})
  BY DEF RowsKept
<1> QED
  BY <1>1, <1>2, <1>3, <1>4, <1>5, <1>6, <1>7, <1>8
     DEF Next, Publish, RunOnce, FinalizeRename, BeginSidecar, EndSidecar,
         FinalizeFails, EnqueueFails, NextJob, OpenSegment, PrepareFails,
         CopySegment, OpenManifest, CopyManifest, CopyFails, MarkError, Crash,
         Restart, vars

\* A row other than the current job's is still one after a step that starts
\* no new job.
LEMMA OtherRowKept ==
  ASSUME NEW d, NEW p, OtherRow(d, p), RowsKept(DOMAIN queue \ {job}),
         0 \notin DOMAIN queue, job' = job \/ job' = 0
  PROVE  OtherRow(d, p)'
BY DEF OtherRow, RowsKept

\* The current job's row becomes an ordinary one when the job is dropped.
LEMMA DroppedJobRow ==
  ASSUME NEW d, NEW p, TypeOK, ClaimedCopyFresh, JobOn(d, p),
         RowsKept(DOMAIN queue), job' = 0
  PROVE  OtherRow(d, p)'
<1>1. /\ job \in DOMAIN queue
      /\ queue[job].dest = d /\ queue[job].path = p
  BY CurrentJobType DEF JobOn
<1> QED
  BY <1>1 DEF OtherRow, RowsKept, JobOn

\* The job that is started next is one of the rows.
LEMMA StartedJobRow ==
  ASSUME NEW d, NEW p, TypeOK, ClaimedCopyFresh, NextJob, OtherRow(d, p)
  PROVE  OtherRow(d, p)' \/ (JobOn(d, p) /\ stage = "start")'
<1>1. /\ job' \in DOMAIN claimed /\ claimed' = claimed /\ stage' = "start"
      /\ queue' = queue
  BY DEF NextJob, queueVars
<1>2. PICK i \in DOMAIN queue : queue[i].dest = d /\ queue[i].path = p
  BY DEF OtherRow
<1>3. CASE i # job'
  BY <1>1, <1>2, <1>3 DEF OtherRow
<1>4. CASE i = job'
  <2>1. claimed[i] = JobOf(i) /\ i # 0
    BY <1>1, <1>4 DEF ClaimedCopyFresh, TypeOK
  <2> QED
    BY <1>1, <1>2, <1>4, <2>1 DEF JobOn, CurrentDest, CurrentPath, JobOf
<1> QED
  BY <1>3, <1>4

\* The inductive invariant holds at the start: nothing was enqueued.
LEMMA InitCoverInv == Init => CoverInv
<1> SUFFICES ASSUME Init PROVE CoverInv
  OBVIOUS
<1>1. /\ EnqueuedBound /\ SourceBound
      /\ \A d \in Destinations, p \in Paths : SegmentOwed(d, p)
  BY DEF Init, Torn, EnqueuedBound, SourceBound, SegmentOwed, Copying, JobOn
<1> QED
  BY <1>1, InitTypeOK, InitClaimedCopyFresh DEF CoverInv

\* A content is enqueued after its rename, and later renames only replace it
\* by a later one.
LEMMA NextEnqueuedBound ==
  ASSUME TypeOK, EnqueuedBound, [Next]_vars
  PROVE  EnqueuedBound'
<1> USE DEF publishVars, runVars, queueVars
<1>0. ASSUME NEW d \in Destinations, NEW q \in Paths
      PROVE  /\ primary[q] \in Pair /\ primary[q].seg \in Nat
             /\ enqueued[d][q] \in Nat
  BY MaxVersionAssumption DEF TypeOK, Pair, Version
<1>1. ASSUME NEW p \in Paths, FinalizeRename(p) PROVE EnqueuedBound'
  <2>1. ASSUME NEW q \in Paths
        PROVE  primary'[q].seg \in {primary[q].seg, primary[q].seg + 1}
    <3>1. primary[q] \in Pair
      BY DEF TypeOK
    <3> QED
      BY <1>1, <3>1 DEF FinalizeRename, TypeOK, Pair
  <2> QED
    BY <1>0, <1>1, <2>1 DEF FinalizeRename, EnqueuedBound
<1>2. ASSUME NEW p \in Paths, BeginSidecar(p) \/ EndSidecar(p)
      PROVE  EnqueuedBound'
  <2>1. \A q \in Paths : primary'[q].seg = primary[q].seg
    <3> SUFFICES ASSUME NEW q \in Paths PROVE primary'[q].seg = primary[q].seg
      OBVIOUS
    <3>1. primary[q] \in Pair
      BY DEF TypeOK
    <3>2. \A v : [primary EXCEPT ![p].manifest = v][q].seg = primary[q].seg
      BY <3>1 DEF TypeOK, Pair
    <3> QED
      BY <1>2, <3>2 DEF BeginSidecar, EndSidecar
  <2> QED
    BY <1>2, <2>1 DEF BeginSidecar, EndSidecar, EnqueuedBound
<1>3. ASSUME NEW p \in Paths, NEW d \in Destinations, EnqueueSegment(p, d)
      PROVE  EnqueuedBound'
  BY <1>0, <1>3 DEF EnqueueSegment, EnqueuedBound, TypeOK
<1>4. CASE UNCHANGED <<primary, enqueued>>
  BY <1>4 DEF EnqueuedBound
<1> QED
  BY <1>1, <1>2, <1>3, <1>4
     DEF Next, Publish, RunOnce, FinalizeFails, EnqueueFails, ClaimReady,
         NextJob,
         OpenSegment, PrepareFails, CopySegment, OpenManifest, CopyManifest,
         CopyFails, JobSucceeds, JobFails, MarkError, RetryFailed,
         BackoffElapses, Crash, Restart, vars

\* No step takes a segment of the archive back to an earlier content.
LEMMA PrimaryGrows ==
  ASSUME TypeOK, [Next]_vars, NEW p \in Paths
  PROVE  primary'[p].seg >= primary[p].seg
<1> USE DEF publishVars
<1>1. primary[p] \in Pair /\ primary[p].seg \in Nat
  BY MaxVersionAssumption DEF TypeOK, Pair, Version
<1>2. ASSUME NEW q \in Paths, FinalizeRename(q)
      PROVE  primary'[p].seg \in {primary[p].seg, primary[p].seg + 1}
  BY <1>1, <1>2 DEF FinalizeRename, TypeOK, Pair
<1>3. ASSUME NEW q \in Paths, BeginSidecar(q) \/ EndSidecar(q)
      PROVE  primary'[p].seg = primary[p].seg
  <2>1. \A v : [primary EXCEPT ![q].manifest = v][p].seg = primary[p].seg
    BY <1>1 DEF TypeOK, Pair
  <2> QED
    BY <1>3, <2>1 DEF BeginSidecar, EndSidecar
<1>4. CASE UNCHANGED primary
  BY <1>1, <1>4
<1>5. ASSUME NEW q \in Paths, Publish(q) PROVE primary'[p].seg >= primary[p].seg
  BY <1>1, <1>2, <1>3, <1>4, <1>5
     DEF Publish, FinalizeFails, EnqueueSegment, EnqueueFails
<1> QED
  BY <1>4, <1>5
     DEF Next, RunOnce, ClaimReady, NextJob, OpenSegment, PrepareFails,
         CopySegment, OpenManifest, CopyManifest, CopyFails, JobSucceeds,
         JobFails, MarkError, RetryFailed, BackoffElapses, Crash, Restart, vars

\* Every step keeps the bound on the content a copy began with.
LEMMA NextSourceBound ==
  ASSUME TypeOK, ClaimedCopyFresh, SourceBound, [Next]_vars
  PROVE  SourceBound'
<1> USE DEF publishVars, runVars, queueVars
<1>1. CASE OpenSegment
  <2>1. /\ source' = primary[CurrentPath].seg /\ job # 0
        /\ UNCHANGED <<claimed, job, primary>>
    BY <1>1 DEF OpenSegment, InJob
  <2>2. primary[CurrentPath].seg \in Nat
    BY <2>1, CurrentJobType, MaxVersionAssumption DEF TypeOK, Pair, Version
  <2> QED
    BY <2>1, <2>2 DEF SourceBound, CurrentPath
<1>2. CASE stage' # "segment" \/ job' = 0
  BY <1>2 DEF SourceBound
<1>3. CASE UNCHANGED <<claimed, job, stage, source>>
  <2> SUFFICES ASSUME job # 0, stage = "segment"
               PROVE  source <= primary'[CurrentPath].seg
    BY <1>3 DEF SourceBound, CurrentPath
  <2>1. CurrentPath \in Paths
    BY CurrentJobType
  <2>2. /\ source \in Nat /\ primary[CurrentPath].seg \in Nat
        /\ primary'[CurrentPath].seg \in Nat
    BY <2>1, NextTypeOK, MaxVersionAssumption DEF TypeOK, Pair, Version
  <2>3. primary'[CurrentPath].seg >= primary[CurrentPath].seg
    BY <2>1, PrimaryGrows
  <2> QED
    BY <2>2, <2>3 DEF SourceBound
<1>4. CASE ClaimReady
  BY <1>4 DEF ClaimReady, NoJobs, ClaimedCopyFresh, SourceBound
<1> QED
  BY <1>1, <1>2, <1>3, <1>4
     DEF Next, Publish, RunOnce, FinalizeRename, BeginSidecar, EndSidecar,
         FinalizeFails, EnqueueSegment, EnqueueFails, NextJob, PrepareFails,
         CopySegment, OpenManifest, CopyManifest, CopyFails, JobSucceeds,
         JobFails, DropJob, MarkError, RetryFailed, BackoffElapses, Crash,
         Restart, vars

\* Content that is gone from the archive stays gone, until a later one is
\* enqueued for the destination.
LEMMA SupersededKept ==
  ASSUME TypeOK, ClaimedCopyFresh, [Next]_vars,
         NEW d \in Destinations, NEW p \in Paths,
         Superseded(d, p), enqueued'[d][p] = enqueued[d][p]
  PROVE  Superseded(d, p)'
<1>1. /\ primary[p].seg \in Nat /\ enqueued[d][p] \in Nat
      /\ primary'[p].seg \in Nat
  BY NextTypeOK, MaxVersionAssumption DEF TypeOK, Pair, Version
<1> QED
  BY <1>1, PrimaryGrows DEF Superseded

\* Every step keeps the destinations that lack a content owed it.
LEMMA NextSegmentOwed ==
  ASSUME CoverInv, [Next]_vars, NEW d \in Destinations, NEW p \in Paths
  PROVE  SegmentOwed(d, p)'
<1> USE DEF publishVars, runVars, queueVars
<1>0. /\ TypeOK /\ ClaimedCopyFresh /\ EnqueuedBound /\ SourceBound
      /\ SegmentOwed(d, p)
      /\ 0 \notin DOMAIN queue
  BY DEF CoverInv, TypeOK, QueueTypeOK
<1>1. RowsKept(DOMAIN queue \ {job})
  BY <1>0, NextKeepsRows
<1>2. ~ JobSucceeds => RowsKept(DOMAIN queue)
  BY <1>0, NextKeepsRows
<1>3. /\ replica[d][p] \in Pair /\ replica[d][p].seg \in Nat
      /\ primary[p].seg \in Nat /\ source \in Nat /\ enqueued[d][p] \in Nat
  BY <1>0, MaxVersionAssumption DEF TypeOK, Pair, Version
<1>s. Superseded(d, p) /\ enqueued'[d][p] = enqueued[d][p] => Superseded(d, p)'
  BY <1>0, SupersededKept
<1>4. ASSUME NEW q \in Paths, NEW e \in Destinations, EnqueueSegment(q, e)
      PROVE  SegmentOwed(d, p)'
  <2>1. CASE q = p /\ e = d
    <3>1. /\ next_id \in DOMAIN queue'
          /\ queue'[next_id].dest = d /\ queue'[next_id].path = p
      BY <1>4, <2>1 DEF EnqueueSegment, Enqueue
    <3>2. job' # next_id
      <4>1. next_id \notin DOMAIN queue /\ next_id # 0
        BY <1>0 DEF TypeOK, QueueTypeOK
      <4> QED
        BY <1>0, <1>4, <4>1, CurrentJobType DEF EnqueueSegment
    <3> QED
      BY <3>1, <3>2 DEF SegmentOwed, OtherRow
  <2>2. CASE ~(q = p /\ e = d)
    <3>1. enqueued'[d][p] = enqueued[d][p]
      BY <1>0, <1>4, <2>2 DEF EnqueueSegment, TypeOK
    <3>2. OtherRow(d, p) => OtherRow(d, p)'
      BY <1>0, <1>1, <1>4, OtherRowKept DEF EnqueueSegment
    <3>3. /\ UNCHANGED <<replica, stage, source>>
          /\ JobOn(d, p)' = JobOn(d, p)
      BY <1>4 DEF EnqueueSegment, JobOn, CurrentDest, CurrentPath
    <3> QED
      BY <1>0, <1>s, <3>1, <3>2, <3>3 DEF SegmentOwed, Copying
  <2> QED
    BY <2>1, <2>2
<1>5. CASE NextJob
  <2>1. job = 0 /\ UNCHANGED <<replica, enqueued>> /\ stage' = "start"
    BY <1>5 DEF NextJob
  <2>2. CASE OtherRow(d, p)
    BY <1>0, <1>s, <1>5, <2>2, StartedJobRow DEF SegmentOwed
  <2>3. CASE replica[d][p].seg >= enqueued[d][p]
    BY <2>1, <2>3 DEF SegmentOwed, Copying
  <2> QED
    BY <1>0, <1>s, <2>1, <2>2, <2>3 DEF SegmentOwed, Copying, JobOn
<1>6. CASE OpenSegment
  <2>1. /\ UNCHANGED <<job, claimed, enqueued>> /\ job # 0
        /\ stage' = "segment" /\ source' = primary[CurrentPath].seg
    BY <1>6 DEF OpenSegment, InJob
  <2>2. JobOn(d, p)' = JobOn(d, p)
    BY <2>1 DEF JobOn, CurrentPath, CurrentDest
  <2>3. CASE JobOn(d, p)
    <3>1. source' >= enqueued'[d][p]
      BY <1>0, <1>3, <2>1, <2>3 DEF JobOn, EnqueuedBound
    <3> QED
      BY <2>1, <2>2, <2>3, <3>1 DEF SegmentOwed, Copying
  <2>4. CASE ~ JobOn(d, p)
    <3>1. replica'[d][p] = replica[d][p]
      BY <1>0, <1>6, <2>1, <2>4 DEF OpenSegment, JobOn, TypeOK
    <3> QED
      BY <1>0, <1>s, <1>1, <2>1, <2>2, <2>4, <3>1, OtherRowKept
         DEF SegmentOwed, Copying
  <2> QED
    BY <2>3, <2>4
<1>7. CASE PrepareFails \/ CopyFails
  <2>1. UNCHANGED <<job, claimed, enqueued, replica>> /\ stage' = "err"
    BY <1>7 DEF PrepareFails, CopyFails
  <2>2. JobOn(d, p)' = JobOn(d, p)
    BY <2>1 DEF JobOn, CurrentPath, CurrentDest
  <2> QED
    BY <1>0, <1>s, <1>1, <2>1, <2>2, OtherRowKept DEF SegmentOwed, Copying
<1>8. CASE CopySegment
  <2>1. /\ UNCHANGED <<job, claimed, enqueued, primary>> /\ job # 0
        /\ stage = "segment" /\ stage' = "manifest"
    BY <1>8 DEF CopySegment, InJob
  <2>2. PICK read \in ReadsOfSegment(CurrentDest, CurrentPath) :
          replica' = [replica EXCEPT ![CurrentDest][CurrentPath].seg = read]
    BY <1>8 DEF CopySegment
  <2>3. CASE JobOn(d, p)
    <3>1. replica'[d][p].seg = read
      BY <1>0, <1>3, <2>2, <2>3 DEF JobOn, TypeOK, Pair
    <3>2. read = source \/ (d \notin Local /\ source # primary[p].seg)
      BY <2>2, <2>3 DEF ReadsOfSegment, JobOn
    <3>3. source <= primary[p].seg
      BY <1>0, <2>1, <2>3 DEF SourceBound, JobOn
    <3>4. \/ OtherRow(d, p) \/ Superseded(d, p)
          \/ source >= enqueued[d][p]
      BY <1>0, <2>1, <2>3 DEF SegmentOwed, Copying
    <3>5. CASE source >= enqueued[d][p] /\ read # source
      BY <1>3, <2>1, <3>2, <3>3, <3>5 DEF SegmentOwed, Superseded
    <3>6. CASE source >= enqueued[d][p] /\ read = source
      BY <2>1, <3>1, <3>6 DEF SegmentOwed, Copying
    <3>7. CASE OtherRow(d, p)
      BY <1>0, <1>1, <2>1, <3>7, OtherRowKept DEF SegmentOwed
    <3>8. CASE Superseded(d, p)
      BY <1>s, <2>1, <3>8 DEF SegmentOwed
    <3> QED
      BY <3>4, <3>5, <3>6, <3>7, <3>8
  <2>4. CASE ~ JobOn(d, p)
    <3>1. replica'[d][p] = replica[d][p]
      BY <1>0, <2>1, <2>2, <2>4 DEF JobOn, TypeOK
    <3> QED
      BY <1>0, <1>1, <1>s, <2>1, <2>4, <3>1, OtherRowKept
         DEF SegmentOwed, Copying
  <2> QED
    BY <2>3, <2>4
<1>9. CASE OpenManifest \/ CopyManifest
  <2>1. /\ UNCHANGED <<job, claimed, enqueued>> /\ job # 0
        /\ stage \in {"manifest", "manifest_copy"}
        /\ stage' \in {"manifest_copy", "ok"}
    BY <1>9 DEF OpenManifest, CopyManifest, InJob
  <2>2. replica'[d][p].seg = replica[d][p].seg
    <3>1. \A v : [replica EXCEPT ![CurrentDest][CurrentPath].manifest = v]
                    [d][p].seg = replica[d][p].seg
      BY <1>0, <1>3 DEF TypeOK, Pair
    <3> QED
      BY <1>9, <3>1 DEF OpenManifest, CopyManifest
  <2> QED
    BY <1>0, <1>s, <1>1, <2>1, <2>2, OtherRowKept DEF SegmentOwed, Copying
<1>10. CASE JobSucceeds
  <2>1. /\ UNCHANGED <<enqueued, replica>> /\ stage = "ok" /\ job' = 0
    BY <1>10 DEF JobSucceeds, InJob, DropJob
  <2> QED
    BY <1>0, <1>s, <1>1, <2>1, OtherRowKept DEF SegmentOwed, Copying, JobOn
<1>11. CASE JobFails \/ MarkError \/ Crash
  <2>1. UNCHANGED <<enqueued, replica>> /\ job' = 0
    BY <1>11 DEF JobFails, MarkError, DropJob, Crash
  <2>2. RowsKept(DOMAIN queue)
    <3>1. CASE JobFails
      BY <1>2, <3>1 DEF JobSucceeds, JobFails, InJob
    <3>2. CASE MarkError \/ Crash
      BY <3>2 DEF MarkError, Crash, RowsKept
    <3> QED
      BY <1>11, <3>1, <3>2
  <2>3. CASE JobOn(d, p)
    BY <1>0, <1>s, <2>1, <2>2, <2>3, DroppedJobRow DEF SegmentOwed
  <2>4. CASE ~ JobOn(d, p)
    BY <1>0, <1>s, <1>1, <2>1, <2>4, OtherRowKept
       DEF SegmentOwed, Copying, JobOn
  <2> QED
    BY <2>3, <2>4
<1>12. CASE UNCHANGED <<replica, enqueued, job, claimed, stage, source>>
  <2>1. JobOn(d, p)' = JobOn(d, p)
    BY <1>12 DEF JobOn, CurrentPath, CurrentDest
  <2> QED
    BY <1>0, <1>s, <1>1, <1>12, <2>1, OtherRowKept DEF SegmentOwed, Copying
<1>13. CASE ClaimReady
  <2>1. job = 0 /\ job' = 0 /\ UNCHANGED <<replica, enqueued>>
    BY <1>0, <1>13 DEF ClaimReady, NoJobs, ClaimedCopyFresh
  <2> QED
    BY <1>0, <1>s, <1>1, <2>1, OtherRowKept DEF SegmentOwed, Copying, JobOn
<1> QED
  BY <1>4, <1>5, <1>6, <1>7, <1>8, <1>9, <1>10, <1>11, <1>12, <1>13
     DEF Next, Publish, RunOnce, FinalizeRename, BeginSidecar, EndSidecar,
         FinalizeFails, EnqueueFails, RetryFailed, BackoffElapses, Restart, vars

\* The inductive invariant implies the promise: with no row for a segment and
\* destination there is neither another row nor a current job for it.
LEMMA CoverInvImplies == CoverInv => SegmentCovered
<1> SUFFICES ASSUME CoverInv, NEW d \in Destinations, NEW p \in Paths,
                    ~ HasRow(d, p)
             PROVE  replica[d][p].seg >= enqueued[d][p] \/ Superseded(d, p)
  BY DEF SegmentCovered
<1>1. ~ OtherRow(d, p)
  BY DEF OtherRow, HasRow
<1>2. ~ JobOn(d, p)
  BY CurrentJobType DEF CoverInv, JobOn, HasRow
<1> QED
  BY <1>1, <1>2 DEF CoverInv, SegmentOwed, Copying

\* For every set of faults, configurations and retry budgets: a destination
\* that has not received the content last enqueued for it still has a row, unless
\* the archive itself has replaced that content under an S3 upload.
THEOREM QueueKeepsItsPromise == Spec => []SegmentCovered
<1>1. CoverInv /\ [Next]_vars => CoverInv'
  BY NextTypeOK, NextClaimedCopyFresh, NextEnqueuedBound, NextSourceBound,
     NextSegmentOwed DEF CoverInv
<1> QED
  BY <1>1, InitCoverInv, CoverInvImplies, PTL DEF Spec

-----------------------------------------------------------------------------
(* Where neither a crash nor the database interferes, no row is stranded:  *)
(* replicator_stranded needs one of the two.                               *)

HandInv == TypeOK /\ ClaimedCopyFresh /\ up /\ NoJobStranded

\* Every step without these faults keeps rows in_progress in the hands of
\* run_once.
LEMMA NextHandInv ==
  ASSUME HandInv, [Next]_vars, Faults \cap {"crash", "db"} = {}
  PROVE  HandInv'
<1> USE DEF publishVars, runVars, queueVars
<1>0. TypeOK /\ ClaimedCopyFresh /\ up
  BY DEF HandInv
<1>1. TypeOK' /\ ClaimedCopyFresh'
  BY <1>0, NextTypeOK, NextClaimedCopyFresh
<1>2. ~ Crash /\ ~ Restart /\ ~ MarkError
  BY <1>0 DEF Crash, Restart, MarkError
<1>3. up'
  BY <1>0, <1>2
     DEF Next, Publish, RunOnce, FinalizeRename, BeginSidecar, EndSidecar,
         FinalizeFails, EnqueueSegment, EnqueueFails, ClaimReady, NextJob,
         OpenSegment, PrepareFails, CopySegment, OpenManifest, CopyManifest,
         CopyFails, JobSucceeds, JobFails, RetryFailed, BackoffElapses, vars
<1> DEFINE Held == \A i \in DOMAIN queue :
                     queue[i].status = "in_progress" => i \in DOMAIN claimed
<1>4. \A i \in DOMAIN queue :
        queue[i] \in Row /\ (queue[i].status = "in_progress" => i \in DOMAIN claimed)
  BY <1>0 DEF HandInv, NoJobStranded, TypeOK, QueueTypeOK
<1>5. ASSUME NEW p \in Paths, NEW d \in Destinations, EnqueueSegment(p, d)
      PROVE  Held'
  BY <1>4, <1>5 DEF EnqueueSegment, Enqueue
<1>6. ASSUME ClaimReady PROVE Held'
  <2>1. DOMAIN claimed = {}
    BY <1>6 DEF ClaimReady, NoJobs
  <2>2. DOMAIN claimed' = ReadyBatch
    BY <1>6 DEF ClaimReady
  <2>3. \A i \in DOMAIN queue' : i \notin ReadyBatch => queue'[i] = queue[i]
    BY <1>6 DEF ClaimReady, MarkInProgress
  <2>4. DOMAIN queue' = DOMAIN queue
    BY <1>6 DEF ClaimReady, MarkInProgress
  <2> QED BY <1>4, <2>1, <2>2, <2>3, <2>4
<1>7. ASSUME JobSucceeds PROVE Held'
  BY <1>4, <1>7 DEF JobSucceeds, MarkSuccess, DropJob
<1>8. ASSUME JobFails PROVE Held'
  <2>1. \A i \in DOMAIN queue : i # job => queue'[i] = queue[i]
    BY <1>8 DEF JobFails, MarkFailed
  <2>2. DOMAIN queue' = DOMAIN queue /\ DOMAIN claimed' = DOMAIN claimed \ {job}
    BY <1>8 DEF JobFails, MarkFailed, DropJob
  <2>3. job \in DOMAIN queue => queue'[job].status # "in_progress"
    BY <1>4, <1>8 DEF JobFails, MarkFailed, Row
  <2> QED BY <1>4, <2>1, <2>2, <2>3
<1>9. ASSUME RetryFailed PROVE Held'
  BY <1>4, <1>9 DEF RetryFailed, RetryFailedRows, Row
<1>10. ASSUME NEW i \in DOMAIN queue, BackoffElapses(i)
       PROVE  Held'
  BY <1>4, <1>10 DEF BackoffElapses, BackoffOver, Row
<1>11. ASSUME UNCHANGED <<queue, claimed>> PROVE Held'
  BY <1>4, <1>11
<1>12. Held'
  BY <1>2, <1>5, <1>6, <1>7, <1>8, <1>9, <1>10, <1>11
     DEF Next, Publish, RunOnce, FinalizeRename, BeginSidecar, EndSidecar,
         FinalizeFails, EnqueueFails, NextJob, OpenSegment, PrepareFails,
         CopySegment, OpenManifest, CopyManifest, CopyFails, vars
<1>13. NoJobStranded'
  BY <1>12 DEF NoJobStranded
<1> QED BY <1>1, <1>3, <1>13 DEF HandInv

\* Without crashes and database errors a job that is in_progress is in the
\* hands of run_once, whatever copies, finalizations and retry commands do
\* (queue.rs:99-138, replicator.rs:81-114).
THEOREM NothingStranded ==
  ASSUME Faults \cap {"crash", "db"} = {}
  PROVE  Spec => []NoJobStranded
<1>1. Init => HandInv
  <2> SUFFICES ASSUME Init PROVE HandInv
    OBVIOUS
  <2>1. up /\ NoJobStranded
    BY DEF Init, QueueInit, NoJobStranded
  <2> QED BY <2>1, InitTypeOK, InitClaimedCopyFresh DEF HandInv
<1>2. HandInv /\ [Next]_vars => HandInv'
  BY NextHandInv
<1>3. HandInv => NoJobStranded
  BY DEF HandInv
<1> QED BY <1>1, <1>2, <1>3, PTL DEF Spec

-----------------------------------------------------------------------------
(* Where only copies fail, replicas end up as the archive.  From a rename   *)
(* on the destination is sure of a new row (Announced); until then what the *)
(* current job has done so far is of the pair the archive has now, or       *)
(* another row will do it again.                                            *)

Announced(d, p) == fin[p] \in {"renamed", "writing"} \/ d \in owing[p]

\* The current job has, so far, what the archive has.
CopyCurrent(d, p) ==
  /\ JobOn(d, p)
  /\ \/ stage \in {"start", "err"}
     \/ stage = "segment" /\ source = primary[p].seg
     \/ stage = "manifest" /\ replica[d][p].seg = primary[p].seg
     \/ /\ stage = "manifest_copy" /\ source = primary[p].manifest
        /\ replica[d][p].seg = primary[p].seg
     \/ stage = "ok" /\ replica[d][p] = primary[p]

PairOwed(d, p) ==
  \/ Announced(d, p)
  \/ OtherRow(d, p)
  \/ CopyCurrent(d, p)
  \/ ~ JobOn(d, p) /\ replica[d][p] = primary[p]

CurrentInv ==
  /\ TypeOK /\ ClaimedCopyFresh /\ up
  /\ \A p \in Paths : fin[p] # "enqueue" => owing[p] = {}
  /\ \A p \in Paths : \A d \in AsyncReplicas : PairOwed(d, p)

\* A pair is its two files.
LEMMA PairIs ==
  ASSUME NEW r \in Pair, NEW s \in Pair, r.seg = s.seg, r.manifest =
         s.manifest
  PROVE  r = s
BY DEF Pair

\* A file of a replica is written: the other file, and the pairs of the other
\* destinations and paths, are as before.
LEMMA SegmentWritten ==
  ASSUME TypeOK, NEW e \in Destinations, NEW q \in Paths, NEW v,
         replica' = [replica EXCEPT ![e][q].seg = v],
         NEW d \in Destinations, NEW p \in Paths
  PROVE  /\ e = d /\ q = p =>
              replica'[d][p] = [replica[d][p] EXCEPT !.seg = v]
         /\ ~ (e = d /\ q = p) => replica'[d][p] = replica[d][p]
BY DEF TypeOK

LEMMA ManifestWritten ==
  ASSUME TypeOK, NEW e \in Destinations, NEW q \in Paths, NEW v,
         replica' = [replica EXCEPT ![e][q].manifest = v],
         NEW d \in Destinations, NEW p \in Paths
  PROVE  /\ e = d /\ q = p =>
              replica'[d][p] = [replica[d][p] EXCEPT !.manifest = v]
         /\ ~ (e = d /\ q = p) => replica'[d][p] = replica[d][p]
BY DEF TypeOK

\* The replicator's steps on a job keep what its destination has of the pair.
LEMMA RunOncePairOwed ==
  ASSUME TypeOK, ClaimedCopyFresh, up, RunOnce, ~ MarkError,
         NEW d \in Destinations, NEW p \in Paths, PairOwed(d, p)
  PROVE  PairOwed(d, p)'
<1> USE DEF publishVars, runVars, queueVars
<1>0. 0 \notin DOMAIN queue
  BY DEF TypeOK, QueueTypeOK
<1>1. RowsKept(DOMAIN queue \ {job}) /\ (~ JobSucceeds => RowsKept(DOMAIN queue))
  BY NextKeepsRows DEF Next
<1>2. UNCHANGED publishVars
  BY DEF RunOnce, ClaimReady, NextJob, OpenSegment, PrepareFails, CopySegment,
         OpenManifest, CopyManifest, CopyFails, JobSucceeds, JobFails, MarkError
<1>3. Announced(d, p) => Announced(d, p)'
  BY <1>2 DEF Announced
<1>4. OtherRow(d, p) /\ (job' = job \/ job' = 0) => OtherRow(d, p)'
  BY <1>0, <1>1, OtherRowKept
<1>5. replica[d][p] \in Pair /\ primary[p] \in Pair
  BY DEF TypeOK
<1>6. UNCHANGED <<claimed, job>> => JobOn(d, p)' = JobOn(d, p)
  BY DEF JobOn, CurrentDest, CurrentPath
<1>7. job # 0 => CurrentDest \in Destinations /\ CurrentPath \in Paths
  BY CurrentJobType
<1>8. ASSUME UNCHANGED <<claimed, job>>, ~ JobOn(d, p),
             replica'[d][p] = replica[d][p]
      PROVE  PairOwed(d, p)'
  BY <1>2, <1>3, <1>4, <1>6, <1>8 DEF PairOwed, CopyCurrent
<1>9. CASE ClaimReady
  <2>1. job = 0 /\ job' = 0 /\ UNCHANGED replica
    BY <1>9 DEF ClaimReady, NoJobs, ClaimedCopyFresh
  <2> QED BY <1>2, <1>3, <1>4, <2>1 DEF PairOwed, CopyCurrent, JobOn
<1>10. CASE NextJob
  <2>1. job = 0 /\ UNCHANGED replica /\ stage' = "start"
    BY <1>10 DEF NextJob
  <2>2. CASE OtherRow(d, p)
    BY <1>10, <2>2, StartedJobRow DEF PairOwed, CopyCurrent
  <2>3. CASE ~ OtherRow(d, p)
    BY <1>2, <1>3, <2>1, <2>3 DEF PairOwed, CopyCurrent, JobOn
  <2> QED BY <2>2, <2>3
<1>11. CASE OpenSegment
  <2>1. /\ UNCHANGED <<job, claimed>> /\ job # 0 /\ stage = "start"
        /\ stage' = "segment" /\ source' = primary[CurrentPath].seg
    BY <1>11 DEF OpenSegment, InJob
  <2>2. CASE JobOn(d, p)
    BY <1>2, <1>6, <2>1, <2>2 DEF PairOwed, CopyCurrent, JobOn
  <2>3. CASE ~ JobOn(d, p)
    <3>1. replica'[d][p] = replica[d][p]
      BY <1>7, <1>11, <2>1, <2>3, SegmentWritten DEF OpenSegment, JobOn
    <3> QED BY <1>8, <2>1, <2>3, <3>1
  <2> QED BY <2>2, <2>3
<1>12. CASE PrepareFails \/ CopyFails
  <2>1. UNCHANGED <<job, claimed, replica>> /\ stage' = "err"
    BY <1>12 DEF PrepareFails, CopyFails
  <2> QED BY <1>2, <1>3, <1>4, <1>6, <2>1 DEF PairOwed, CopyCurrent
<1>13. CASE CopySegment
  <2>1. /\ UNCHANGED <<job, claimed>> /\ job # 0
        /\ stage = "segment" /\ stage' = "manifest"
    BY <1>13 DEF CopySegment, InJob
  <2>2. PICK read \in ReadsOfSegment(CurrentDest, CurrentPath) :
          replica' = [replica EXCEPT ![CurrentDest][CurrentPath].seg = read]
    BY <1>13 DEF CopySegment
  <2>3. CASE JobOn(d, p) /\ source = primary[p].seg
    <3>1. read = primary[p].seg
      BY <2>2, <2>3 DEF ReadsOfSegment, JobOn
    <3>0. replica' = [replica EXCEPT ![d][p].seg = read]
      BY <2>2, <2>3 DEF JobOn
    <3>2. replica'[d][p] = [replica[d][p] EXCEPT !.seg = read]
      BY <3>0 DEF TypeOK
    <3>3. replica'[d][p].seg = primary'[p].seg
      BY <1>2, <1>5, <3>1, <3>2 DEF Pair
    <3> QED BY <1>6, <2>1, <2>3, <3>3 DEF PairOwed, CopyCurrent
  <2>4. CASE JobOn(d, p) /\ source # primary[p].seg
    BY <1>3, <1>4, <2>1, <2>4 DEF PairOwed, CopyCurrent
  <2>5. CASE ~ JobOn(d, p)
    <3>1. replica'[d][p] = replica[d][p]
      BY <1>7, <2>1, <2>2, <2>5, SegmentWritten DEF JobOn
    <3> QED BY <1>8, <2>1, <2>5, <3>1
  <2> QED BY <2>3, <2>4, <2>5
<1>14. CASE OpenManifest
  <2>1. /\ UNCHANGED <<job, claimed>> /\ job # 0 /\ stage = "manifest"
        /\ stage' = "manifest_copy" /\ source' = primary[CurrentPath].manifest
    BY <1>14 DEF OpenManifest, InJob
  <2>2. \/ replica' = replica
        \/ replica' = [replica EXCEPT ![CurrentDest][CurrentPath].manifest = Torn]
    BY <1>14 DEF OpenManifest
  <2>3. CASE JobOn(d, p)
    <3>1. replica'[d][p].seg = replica[d][p].seg
      BY <1>5, <1>7, <2>1, <2>2, <2>3, ManifestWritten DEF JobOn, Pair
    <3>2. source' = primary'[p].manifest
      BY <1>2, <2>1, <2>3 DEF JobOn
    <3> QED BY <1>2, <1>3, <1>4, <1>6, <2>1, <2>3, <3>1, <3>2
            DEF PairOwed, CopyCurrent
  <2>4. CASE ~ JobOn(d, p)
    <3>1. replica'[d][p] = replica[d][p]
      <4>1. ~ (CurrentDest = d /\ CurrentPath = p)
        BY <2>1, <2>4 DEF JobOn
      <4>2. CASE replica' = replica
        BY <4>2
      <4>3. CASE replica' = [replica EXCEPT
                               ![CurrentDest][CurrentPath].manifest = Torn]
        BY <1>7, <2>1, <4>1, <4>3, ManifestWritten
      <4> QED BY <2>2, <4>2, <4>3
    <3> QED BY <1>8, <2>1, <2>4, <3>1
  <2> QED BY <2>3, <2>4
<1>15. CASE CopyManifest
  <2>1. /\ UNCHANGED <<job, claimed>> /\ job # 0 /\ stage = "manifest_copy"
        /\ stage' = "ok"
    BY <1>15 DEF CopyManifest, InJob
  <2>2. PICK read :
          /\ source = primary[CurrentPath].manifest => read = source
          /\ replica' = [replica EXCEPT ![CurrentDest][CurrentPath].manifest = read]
    BY <1>15 DEF CopyManifest
  <2>3. CASE JobOn(d, p)
    <3>1. ASSUME source = primary[p].manifest,
                 replica[d][p].seg = primary[p].seg
          PROVE  replica'[d][p] = primary'[p]
      <4>0. replica' = [replica EXCEPT ![d][p].manifest = read]
        BY <2>2, <2>3 DEF JobOn
      <4>1. replica'[d][p] = [replica[d][p] EXCEPT !.manifest = read]
        BY <4>0 DEF TypeOK
      <4>2. read = primary[p].manifest
        BY <2>2, <2>3, <3>1 DEF JobOn
      <4>3. [replica[d][p] EXCEPT !.manifest = read] \in Pair
        BY <1>5, <4>2, PairUpdate DEF Pair
      <4>4. replica'[d][p] = primary[p]
        BY <1>5, <3>1, <4>1, <4>2, <4>3, PairIs DEF Pair
      <4> QED BY <1>2, <4>4
    <3> QED BY <1>3, <1>4, <1>6, <2>1, <2>3, <3>1 DEF PairOwed, CopyCurrent
  <2>4. CASE ~ JobOn(d, p)
    <3>1. replica'[d][p] = replica[d][p]
      BY <1>7, <2>1, <2>2, <2>4, ManifestWritten DEF JobOn
    <3> QED BY <1>8, <2>1, <2>4, <3>1
  <2> QED BY <2>3, <2>4
<1>16. CASE JobSucceeds
  <2>1. UNCHANGED replica /\ stage = "ok" /\ job' = 0
    BY <1>16 DEF JobSucceeds, InJob, DropJob
  <2> QED BY <1>2, <1>3, <1>4, <2>1 DEF PairOwed, CopyCurrent, JobOn
<1>17. CASE JobFails
  <2>1. UNCHANGED replica /\ job' = 0 /\ ~ JobSucceeds
    BY <1>17 DEF JobFails, DropJob, JobSucceeds, InJob
  <2>2. CASE JobOn(d, p)
    BY <1>1, <2>1, <2>2, DroppedJobRow DEF PairOwed
  <2>3. CASE ~ JobOn(d, p)
    BY <1>2, <1>3, <1>4, <2>1, <2>3 DEF PairOwed, CopyCurrent, JobOn
  <2> QED BY <2>2, <2>3
<1> QED BY <1>9, <1>10, <1>11, <1>12, <1>13, <1>14, <1>15, <1>16, <1>17 DEF RunOnce

\* A finalization announces its new row until the row is there.
LEMMA PublishPairOwed ==
  ASSUME TypeOK, ClaimedCopyFresh, up, NEW q \in Paths, Publish(q),
         ~ FinalizeFails(q), ~ EnqueueFails(q),
         \A r \in Paths : fin[r] # "enqueue" => owing[r] = {},
         NEW d \in AsyncReplicas, NEW p \in Paths, PairOwed(d, p)
  PROVE  PairOwed(d, p)'
<1> USE DEF publishVars, runVars, queueVars
<1>0. 0 \notin DOMAIN queue
  BY DEF TypeOK, QueueTypeOK
<1>1. UNCHANGED <<claimed, job, stage, source, replica>>
  BY DEF Publish, FinalizeRename, BeginSidecar, EndSidecar, EnqueueSegment
<1>2. OtherRow(d, p) => OtherRow(d, p)'
  <2>1. RowsKept(DOMAIN queue \ {job})
    BY NextKeepsRows DEF Next
  <2> QED BY <1>0, <1>1, <2>1, OtherRowKept
<1>3. JobOn(d, p)' = JobOn(d, p)
  BY <1>1 DEF JobOn, CurrentDest, CurrentPath
<1>4. ASSUME UNCHANGED primary[p], Announced(d, p) => Announced(d, p)'
      PROVE  PairOwed(d, p)'
  BY <1>1, <1>2, <1>3, <1>4 DEF PairOwed, CopyCurrent
<1>5. ASSUME FinalizeRename(q) \/ BeginSidecar(q) \/ EndSidecar(q)
      PROVE  PairOwed(d, p)'
  <2>1. CASE p = q
    <3>1. Announced(d, p)'
      BY <1>5, <2>1
         DEF FinalizeRename, BeginSidecar, EndSidecar, Announced, TypeOK
    <3> QED BY <3>1 DEF PairOwed
  <2>2. CASE p # q
    <3>1. primary'[p] = primary[p] /\ fin'[p] = fin[p] /\ owing'[p] = owing[p]
      BY <1>5, <2>2 DEF FinalizeRename, BeginSidecar, EndSidecar, TypeOK
    <3> QED BY <1>4, <3>1 DEF Announced
  <2> QED BY <2>1, <2>2
<1>6. ASSUME NEW e \in Destinations, EnqueueSegment(q, e)
      PROVE  PairOwed(d, p)'
  <2>1. CASE p = q /\ d = e
    <3>1. /\ next_id \in DOMAIN queue'
          /\ queue'[next_id].dest = d /\ queue'[next_id].path = p
      BY <1>6, <2>1 DEF EnqueueSegment, Enqueue
    <3>2. next_id \notin DOMAIN queue /\ next_id # 0
      BY DEF TypeOK, QueueTypeOK
    <3>3. job' # next_id
      BY <1>1, <3>2, CurrentJobType
    <3> QED BY <3>1, <3>3 DEF PairOwed, OtherRow
  <2>2. CASE ~ (p = q /\ d = e)
    <3>1. fin[q] = "enqueue" /\ UNCHANGED primary
      BY <1>6 DEF EnqueueSegment
    <3>2. d \in owing[p] => d \in owing'[p]
      BY <1>6, <2>2 DEF EnqueueSegment, TypeOK
    <3>3. fin[p] \in {"renamed", "writing"} => fin'[p] = fin[p]
      BY <1>6, <3>1 DEF EnqueueSegment, TypeOK
    <3> QED BY <1>4, <3>1, <3>2, <3>3 DEF Announced
  <2> QED BY <2>1, <2>2
<1> QED BY <1>5, <1>6 DEF Publish

\* Every step keeps the invariant, if only copies fail.
LEMMA NextCurrentInv ==
  ASSUME CurrentInv, [Next]_vars, Faults \subseteq {"copy"}
  PROVE  CurrentInv'
<1> USE DEF publishVars, runVars, queueVars
<1>0. /\ TypeOK /\ ClaimedCopyFresh /\ up
      /\ \A p \in Paths : fin[p] # "enqueue" => owing[p] = {}
  BY DEF CurrentInv
<1>1. TypeOK' /\ ClaimedCopyFresh'
  BY <1>0, NextTypeOK, NextClaimedCopyFresh
<1>2. /\ ~ Crash /\ ~ Restart /\ ~ MarkError
      /\ \A p \in Paths : ~ FinalizeFails(p) /\ ~ EnqueueFails(p)
  BY <1>0 DEF Crash, Restart, MarkError, FinalizeFails, EnqueueFails
<1>3. up' /\ destinations' = destinations
  BY <1>0, <1>2
     DEF Next, Publish, RunOnce, FinalizeRename, BeginSidecar, EndSidecar,
         EnqueueSegment, ClaimReady, NextJob,
         OpenSegment, PrepareFails, CopySegment, OpenManifest, CopyManifest,
         CopyFails, JobSucceeds, JobFails, RetryFailed, BackoffElapses, vars
<1>4. AsyncReplicas' = AsyncReplicas /\ AsyncReplicas \subseteq Destinations
  BY <1>0, <1>3, ConfigsAssumption DEF AsyncReplicas, TypeOK
<1>5. CASE \E q \in Paths : Publish(q)
  <2>1. PICK q \in Paths : Publish(q)
    BY <1>5
  <2>2. ASSUME NEW p \in Paths, fin'[p] # "enqueue" PROVE owing'[p] = {}
    <3>1. CASE p # q
      <4>1. /\ fin' = fin \/ \E f : fin' = [fin EXCEPT ![q] = f]
            /\ owing' = owing \/ \E o : owing' = [owing EXCEPT ![q] = o]
        BY <1>2, <2>1
           DEF Publish, FinalizeRename, BeginSidecar, EndSidecar,
               EnqueueSegment
      <4>2. fin'[p] = fin[p] /\ owing'[p] = owing[p]
        BY <1>0, <3>1, <4>1 DEF TypeOK
      <4> QED BY <1>0, <2>2, <4>2
    <3>2. CASE p = q
      <4>1. CASE FinalizeRename(q)
        BY <1>0, <2>2, <3>2, <4>1 DEF FinalizeRename, TypeOK
      <4>2. CASE BeginSidecar(q)
        BY <1>0, <2>2, <3>2, <4>2 DEF BeginSidecar, TypeOK
      <4>3. CASE EndSidecar(q)
        BY <1>0, <2>2, <3>2, <4>3 DEF EndSidecar, TypeOK
      <4>4. CASE \E d \in Destinations : EnqueueSegment(q, d)
        BY <1>0, <2>2, <3>2, <4>4 DEF EnqueueSegment, TypeOK
      <4> QED BY <1>2, <2>1, <4>1, <4>2, <4>3, <4>4 DEF Publish
    <3> QED BY <3>1, <3>2
  <2>3. \A p \in Paths : \A d \in AsyncReplicas : PairOwed(d, p)'
    BY <1>0, <1>2, <2>1, PublishPairOwed DEF CurrentInv
  <2> QED BY <1>1, <1>3, <1>4, <2>2, <2>3 DEF CurrentInv
<1>6. CASE RunOnce
  <2>1. UNCHANGED <<fin, owing>>
    BY <1>6 DEF RunOnce, ClaimReady, NextJob, OpenSegment, PrepareFails,
                CopySegment, OpenManifest, CopyManifest, CopyFails,
                JobSucceeds, JobFails, MarkError
  <2>2. \A p \in Paths : \A d \in AsyncReplicas : PairOwed(d, p)'
    BY <1>0, <1>2, <1>4, <1>6, RunOncePairOwed DEF CurrentInv
  <2> QED BY <1>0, <1>1, <1>3, <1>4, <2>1, <2>2 DEF CurrentInv
<1>7. CASE RetryFailed \/ (\E i \in DOMAIN queue : BackoffElapses(i))
             \/ UNCHANGED vars
  <2>1. UNCHANGED <<primary, fin, owing, claimed, job, stage, source, replica>>
    BY <1>7 DEF RetryFailed, BackoffElapses, vars
  <2>2. 0 \notin DOMAIN queue /\ RowsKept(DOMAIN queue \ {job})
    BY <1>0, NextKeepsRows DEF TypeOK, QueueTypeOK
  <2>3. ASSUME NEW p \in Paths, NEW d \in AsyncReplicas PROVE PairOwed(d, p)'
    <3>1. PairOwed(d, p)
      BY DEF CurrentInv
    <3>2. OtherRow(d, p) => OtherRow(d, p)'
      BY <2>1, <2>2, OtherRowKept
    <3>3. JobOn(d, p)' = JobOn(d, p) /\ Announced(d, p)' = Announced(d, p)
      BY <2>1 DEF JobOn, CurrentDest, CurrentPath, Announced
    <3> QED BY <2>1, <3>1, <3>2, <3>3 DEF PairOwed, CopyCurrent
  <2> QED BY <1>0, <1>1, <1>3, <1>4, <2>1, <2>3 DEF CurrentInv
<1> QED BY <1>2, <1>5, <1>6, <1>7 DEF Next

\* If nothing fails but copies, a segment whose finalization is over and that
\* has no job left is at every replica the archive's pair of segment and
\* manifest, for any number of finalizations, replicas and retries
\* (writer.rs:134, replicator.rs:120-239).
THEOREM ReplicasAreCurrent ==
  ASSUME Faults \subseteq {"copy"}
  PROVE  Spec => []ReplicaCurrent
<1>1. Init => CurrentInv
  <2> SUFFICES ASSUME Init PROVE CurrentInv
    OBVIOUS
  <2>1. \A p \in Paths, d \in Destinations : PairOwed(d, p)
    BY DEF Init, PairOwed, JobOn
  <2>2. AsyncReplicas \subseteq Destinations
    BY InitTypeOK, ConfigsAssumption DEF AsyncReplicas, TypeOK
  <2>3. up /\ \A p \in Paths : owing[p] = {}
    BY DEF Init
  <2> QED BY <2>1, <2>2, <2>3, InitTypeOK, InitClaimedCopyFresh DEF CurrentInv
<1>2. CurrentInv /\ [Next]_vars => CurrentInv'
  BY NextCurrentInv
<1>3. CurrentInv => ReplicaCurrent
  <2> SUFFICES ASSUME CurrentInv, NEW p \in Paths, NEW d \in AsyncReplicas,
                      fin[p] = "idle", ~ HasRow(d, p)
               PROVE  replica[d][p] = primary[p]
    BY DEF ReplicaCurrent
  <2>1. PairOwed(d, p) /\ owing[p] = {}
    BY DEF CurrentInv
  <2>2. ~ OtherRow(d, p)
    BY DEF OtherRow, HasRow
  <2>3. ~ JobOn(d, p)
    BY CurrentJobType DEF CurrentInv, JobOn, HasRow
  <2> QED BY <2>1, <2>2, <2>3 DEF PairOwed, CopyCurrent, Announced
<1> QED BY <1>1, <1>2, <1>3, PTL DEF Spec
=============================================================================
