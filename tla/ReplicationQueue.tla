-------------------------- MODULE ReplicationQueue --------------------------
(***************************************************************************)
(* The table `replication_queue` that src/archive/queue.rs keeps in        *)
(* SQLite, and the statements the daemon runs on it.  Every statement (and *)
(* the one transaction of claim_ready) commits atomically, so each is one  *)
(* operator over the two variables below.                                  *)
(*                                                                         *)
(* `next_retry_ts <= now` is the only question ever asked of the retry     *)
(* time, so a row carries the answer, `due`, instead of the two times.     *)
(* last_error and the created/updated columns are written and never read.  *)
(***************************************************************************)
EXTENDS Naturals, FiniteSets

CONSTANTS
  Paths,          \* the segments of the archive, by final path
  Destinations,   \* destination keys
  ClaimLimit,     \* the 32 of claim_ready(32)
  U32Max          \* largest u32, where `attempts` saturates

ASSUME ClaimLimitAssumption == ClaimLimit \in Nat \ {0}
ASSUME U32MaxAssumption == U32Max \in Nat \ {0}

VARIABLES
  queue,          \* row id -> row, for the ids present in the table
  next_id         \* next AUTOINCREMENT value

queueVars == <<queue, next_id>>

Status == {"pending", "in_progress", "failed"}

\* What claim_ready returns of a row, and what the replicator keeps in memory.
ReplicationJob == [path : Paths, dest : Destinations,
                   attempts : 0..U32Max, max_retries : 0..U32Max]

Row == [path : Paths, dest : Destinations,
        attempts : 0..U32Max, max_retries : 0..U32Max,
        due : BOOLEAN, status : Status]

QueueTypeOK ==
  /\ next_id \in Nat \ {0}
  /\ DOMAIN queue \subseteq 1..(next_id - 1)
  /\ queue \in [DOMAIN queue -> Row]

QueueInit ==
  /\ queue = [i \in {} |-> i]
  /\ next_id = 1

-----------------------------------------------------------------------------
(* The statements.                                                         *)

Enqueue(p, d, max_retries) ==
  /\ queue' = [i \in DOMAIN queue \union {next_id} |->
                 IF i = next_id
                 THEN [path |-> p, dest |-> d, attempts |-> 0,
                       max_retries |-> max_retries,
                       due |-> TRUE, status |-> "pending"]
                 ELSE queue[i]]
  /\ next_id' = next_id + 1

\* WHERE status = 'pending' AND next_retry_ts <= ?
Ready == {i \in DOMAIN queue : queue[i].status = "pending" /\ queue[i].due}

\* ORDER BY id ASC LIMIT ?
ReadyBatch ==
  {i \in Ready : Cardinality({j \in Ready : j < i}) < ClaimLimit}

JobOf(i) == [path |-> queue[i].path, dest |-> queue[i].dest,
             attempts |-> queue[i].attempts,
             max_retries |-> queue[i].max_retries]

MarkInProgress(batch) ==
  /\ queue' = [i \in DOMAIN queue |->
                 IF i \in batch
                 THEN [queue[i] EXCEPT !.status = "in_progress"]
                 ELSE queue[i]]
  /\ UNCHANGED next_id

\* Seeded fault: DELETE by segment and destination instead of by id.
MarkSuccessByPath(id) ==
  /\ queue' = [i \in {j \in DOMAIN queue : \/ queue[j].path # queue[id].path
                                           \/ queue[j].dest # queue[id].dest}
                 |-> queue[i]]
  /\ UNCHANGED next_id

MarkSuccess(id) ==
  /\ queue' = [i \in DOMAIN queue \ {id} |-> queue[i]]
  /\ UNCHANGED next_id

\* Seeded fault: `attempts + 1` leaves the range of u32.
PlainSucc(n) == n + 1

SaturatingSucc(n) == IF n = U32Max THEN n ELSE n + 1

\* Seeded fault: the budget is one attempt short.
ExhaustedEarly(job) ==
  job.max_retries > 0 /\ SaturatingSucc(job.attempts) + 1 >= job.max_retries

Exhausted(job) ==
  job.max_retries > 0 /\ SaturatingSucc(job.attempts) >= job.max_retries

\* The UPDATE takes `attempts` from the in-memory job, not from the row.
MarkFailed(id, job) ==
  /\ queue' = [i \in DOMAIN queue |->
                 IF i # id THEN queue[i]
                 ELSE [queue[i] EXCEPT
                         !.attempts = SaturatingSucc(job.attempts),
                         !.status = IF Exhausted(job) THEN "failed"
                                    ELSE "pending",
                         !.due = IF Exhausted(job) THEN queue[i].due
                                 ELSE FALSE]]
  /\ UNCHANGED next_id

FailedCount == Cardinality({i \in DOMAIN queue : queue[i].status = "failed"})

\* Seeded fault: WHERE status = 'failed' forgotten.
RetryAllRows ==
  /\ queue' = [i \in DOMAIN queue |->
                 [queue[i] EXCEPT !.status = "pending", !.due = TRUE]]
  /\ UNCHANGED next_id

\* `attempts` keeps its value: a retried job has one more attempt, not a new
\* budget of max_retries.
RetryFailedRows ==
  /\ queue' = [i \in DOMAIN queue |->
                 IF queue[i].status = "failed"
                 THEN [queue[i] EXCEPT !.status = "pending", !.due = TRUE]
                 ELSE queue[i]]
  /\ UNCHANGED next_id

\* Time passes: the backoff of a row that waits for a retry is over.
BackoffOver(id) ==
  /\ id \in DOMAIN queue
  /\ queue[id].status = "pending"
  /\ ~ queue[id].due
  /\ queue' = [queue EXCEPT ![id].due = TRUE]
  /\ UNCHANGED next_id
=============================================================================
