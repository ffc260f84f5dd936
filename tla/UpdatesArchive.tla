--------------------------- MODULE UpdatesArchive ---------------------------
(***************************************************************************)
(* The updates stream of ArchiveService (src/archive/mod.rs): concurrent   *)
(* callers of ingest_update and ingest_peer_state, the scheduler's tick    *)
(* and the operator's rollover share one SegmentWriter behind the          *)
(* updates_writer lock.  What happens under the lock is one step; between  *)
(* two acquisitions everything may happen.                                 *)
(*                                                                         *)
(* Time is the number of the rotation interval (aligned_epoch divided by   *)
(* updates_interval_secs).  A segment's content is the set of records in   *)
(* it.                                                                     *)
(***************************************************************************)
EXTENDS Naturals, FiniteSets

CONSTANTS
  Callers,        \* calls of ingest_update / ingest_peer_state, one record each
  MaxBucket,      \* bound on the clock, in rotation intervals
  IntervalSecs,   \* updates_interval_secs
  Delayed,        \* the clock may advance between reading it and the lock
  Rollovers,      \* whether `archive rollover` is issued
  MaxFaults       \* bound on crashes and failing file and database operations

Buckets == 0..MaxBucket

ASSUME MaxBucketAssumption == MaxBucket \in Nat
\* ArchiveConfig::validate.
ASSUME IntervalAssumption ==
  IntervalSecs \in Nat \ {0} /\ 3600 % IntervalSecs = 0
ASSUME UpdatesFlags ==
  /\ {Delayed, Rollovers} \subseteq BOOLEAN
  /\ MaxFaults \in Nat

\* aligned_epoch: the interval starts at a multiple of its length.
StartOf(b) == b * IntervalSecs
\* segment_paths: in every layout a file name carries date, hour and minute.
PathOf(b) == StartOf(b) \div 60
Paths == {PathOf(b) : b \in Buckets}

NoWriter == [open |-> FALSE, start |-> 0, recs |-> {}]
\* Seeded fault: the segment is named after the end of its interval.
NewWriterAtEnd(b) == [open |-> TRUE, start |-> b + 1, recs |-> {}]

NewWriter(b) == [open |-> TRUE, start |-> b, recs |-> {}]

VARIABLES
  up,             \* the daemon runs
  now,            \* the current interval
  writer,         \* Option<SegmentWriter>: interval and records so far
  archive,        \* path -> records of the finalized segment
  pc,             \* caller -> where its call stands
  ts,             \* caller -> interval of its record's timestamp
  tick, tick_now, \* the scheduler, and the time it read
  roll, roll_now, \* the rollover command, and the time it read
  faults,         \* failures and crashes so far
  disturbed       \* history: a rollover was issued, or a time was late

vars == <<up, now, writer, archive, pc, ts, tick, tick_now, roll, roll_now,
          faults, disturbed>>

TypeOK ==
  /\ up \in BOOLEAN
  /\ now \in Buckets
  /\ writer \in [open : BOOLEAN, start : Buckets, recs : SUBSET Callers]
  /\ archive \in [Paths -> SUBSET Callers]
  /\ pc \in [Callers -> {"idle", "called", "ensured", "acked", "error",
                         "not initialized"}]
  /\ ts \in [Callers -> Buckets]
  /\ tick \in {"idle", "read"} /\ tick_now \in Buckets
  /\ roll \in {"idle", "read", "taken"} /\ roll_now \in Buckets
  /\ faults \in 0..MaxFaults
  /\ disturbed \in BOOLEAN

\* ArchiveService::new opens the writer of the current interval.
Init ==
  /\ up = TRUE
  /\ now = 0
  /\ writer = NewWriter(0)
  /\ archive = [p \in Paths |-> {}]
  /\ pc = [c \in Callers |-> "idle"]
  /\ ts = [c \in Callers |-> 0]
  /\ tick = "idle" /\ tick_now = 0
  /\ roll = "idle" /\ roll_now = 0
  /\ faults = 0
  /\ disturbed = FALSE

-----------------------------------------------------------------------------
(* The critical sections.                                                  *)

\* SegmentWriter::finalize: the rename replaces what the path held before.
Finalized ==
  IF writer.open
  THEN [archive EXCEPT ![PathOf(writer.start)] = writer.recs]
  ELSE archive

\* Seeded faults: the comparison of intervals is forgotten, or always true.
NeedsRotateNever(b) == ~ writer.open
NeedsRotateAlways(b) == TRUE

NeedsRotate(b) == ~ writer.open \/ writer.start # b

\* Seeded fault: the old writer is replaced without being finalized.
EnsureDropsOld(b) ==
  IF NeedsRotate(b)
  THEN UNCHANGED archive /\ writer' = NewWriter(b)
  ELSE UNCHANGED <<archive, writer>>

\* Seeded fault: the new segment starts with the records of the old one.
EnsureCopiesOld(b) ==
  IF NeedsRotate(b)
  THEN archive' = Finalized /\ writer' = [NewWriter(b) EXCEPT !.recs = writer.recs]
  ELSE UNCHANGED <<archive, writer>>

\* Seeded fault: a rotation leaves the opening to the next caller.
EnsureLeavesNone(b) ==
  IF NeedsRotate(b)
  THEN /\ archive' = Finalized
       /\ writer' = IF writer.open THEN NoWriter ELSE NewWriter(b)
  ELSE UNCHANGED <<archive, writer>>

\* ensure_updates_writer(b) succeeds.
EnsureUpdatesWriter(b) ==
  IF NeedsRotate(b)
  THEN archive' = Finalized /\ writer' = NewWriter(b)
  ELSE UNCHANGED <<archive, writer>>

\* It fails: the old writer was taken out of the Option first, so it is gone,
\* whether finalize failed before its rename or after it, the enqueueing
\* failed, or the new file could not be created.
EnsureFails(b) ==
  /\ NeedsRotate(b)
  /\ faults < MaxFaults
  /\ faults' = faults + 1
  /\ archive' \in {archive, Finalized}
  /\ writer' = NoWriter

-----------------------------------------------------------------------------
(* ingest_update and ingest_peer_state.                                    *)

\* The caller stamps its record and calls.
Call(c) ==
  /\ up /\ pc[c] = "idle"
  /\ pc' = [pc EXCEPT ![c] = "called"]
  /\ ts' = [ts EXCEPT ![c] = now]
  /\ UNCHANGED <<up, now, writer, archive, tick, tick_now, roll, roll_now,
                 faults, disturbed>>

IngestEnsure(c) ==
  /\ up /\ pc[c] = "called"
  /\ \/ /\ EnsureUpdatesWriter(ts[c])
        /\ pc' = [pc EXCEPT ![c] = "ensured"]
        /\ UNCHANGED faults
     \/ EnsureFails(ts[c]) /\ pc' = [pc EXCEPT ![c] = "error"]
  /\ UNCHANGED <<up, now, ts, tick, tick_now, roll, roll_now, disturbed>>

\* The second lock: the writer is whatever the lock holds now.
IngestWrite(c) ==
  /\ up /\ pc[c] = "ensured"
  /\ \/ /\ writer.open
        /\ writer' = [writer EXCEPT !.recs = @ \union {c}]
        /\ pc' = [pc EXCEPT ![c] = "acked"]
     \/ /\ ~ writer.open
        /\ pc' = [pc EXCEPT ![c] = "not initialized"]
        /\ UNCHANGED writer
  /\ UNCHANGED <<up, now, archive, ts, tick, tick_now, roll, roll_now, faults,
                 disturbed>>

\* The record does not encode, or the compressor cannot write.
IngestFails(c) ==
  /\ up /\ pc[c] = "ensured"
  /\ faults < MaxFaults
  /\ faults' = faults + 1
  /\ pc' = [pc EXCEPT ![c] = "error"]
  /\ UNCHANGED <<up, now, writer, archive, ts, tick, tick_now, roll, roll_now,
                 disturbed>>

-----------------------------------------------------------------------------
(* The scheduler's tick, as far as the updates stream is concerned.        *)

\* Seeded fault: the time is read once, before the loop.
TickReadsOnce ==
  /\ up /\ tick = "idle"
  /\ tick' = "read"
  /\ UNCHANGED <<up, now, writer, archive, pc, ts, tick_now, roll, roll_now,
                 faults, disturbed>>

TickReadsClock ==
  /\ up /\ tick = "idle"
  /\ tick' = "read" /\ tick_now' = now
  /\ UNCHANGED <<up, now, writer, archive, pc, ts, roll, roll_now, faults,
                 disturbed>>

TickEnsures ==
  /\ up /\ tick = "read"
  /\ \/ EnsureUpdatesWriter(tick_now) /\ UNCHANGED faults
     \/ EnsureFails(tick_now)
  /\ tick' = "idle"
  /\ UNCHANGED <<up, now, pc, ts, tick_now, roll, roll_now, disturbed>>

-----------------------------------------------------------------------------
(* rollover(Updates): rotate_updates(now).                                 *)

RolloverReadsClock ==
  /\ up /\ Rollovers /\ roll = "idle"
  /\ roll' = "read" /\ roll_now' = now
  /\ disturbed' = TRUE
  /\ UNCHANGED <<up, now, writer, archive, pc, ts, tick, tick_now, faults>>

\* The first critical section finalizes and leaves None.
RolloverTakes ==
  /\ up /\ roll = "read"
  /\ writer' = NoWriter
  /\ \/ archive' = Finalized /\ roll' = "taken" /\ UNCHANGED faults
     \/ /\ writer.open /\ faults < MaxFaults
        /\ faults' = faults + 1
        /\ archive' \in {archive, Finalized}
        /\ roll' = "idle"
  /\ UNCHANGED <<up, now, pc, ts, tick, tick_now, roll_now, disturbed>>

RolloverEnsures ==
  /\ up /\ roll = "taken"
  /\ \/ EnsureUpdatesWriter(roll_now) /\ UNCHANGED faults
     \/ EnsureFails(roll_now)
  /\ roll' = "idle"
  /\ UNCHANGED <<up, now, pc, ts, tick, tick_now, roll_now, disturbed>>

-----------------------------------------------------------------------------
(* Clock, crash, restart.                                                  *)

\* Someone has read the clock and not yet taken the lock.
Sampled == tick = "read" \/ roll # "idle" \/ \E c \in Callers : pc[c] = "called"

ClockAdvances ==
  /\ now < MaxBucket
  /\ Delayed \/ ~ Sampled
  /\ now' = now + 1
  /\ disturbed' = (disturbed \/ Sampled)
  /\ UNCHANGED <<up, writer, archive, pc, ts, tick, tick_now, roll, roll_now,
                 faults>>

\* The open segment is in a temporary file that nothing picks up again; a
\* shutdown does not finalize it either.  Calls in progress never return.
Crash ==
  /\ up
  /\ faults < MaxFaults
  /\ faults' = faults + 1
  /\ up' = FALSE
  /\ writer' = NoWriter
  /\ pc' = [c \in Callers |-> IF pc[c] \in {"called", "ensured"} THEN "error"
                              ELSE pc[c]]
  /\ tick' = "idle" /\ roll' = "idle"
  /\ UNCHANGED <<now, archive, ts, tick_now, roll_now, disturbed>>

Restart ==
  /\ ~ up
  /\ up' = TRUE
  /\ writer' = NewWriter(now)
  /\ UNCHANGED <<now, archive, pc, ts, tick, tick_now, roll, roll_now, faults,
                 disturbed>>

-----------------------------------------------------------------------------
Ingest(c) == Call(c) \/ IngestEnsure(c) \/ IngestWrite(c) \/ IngestFails(c)
Scheduler == TickReadsClock \/ TickEnsures
Rollover == RolloverReadsClock \/ RolloverTakes \/ RolloverEnsures

Next ==
  \/ \E c \in Callers : Ingest(c)
  \/ Scheduler
  \/ Rollover
  \/ ClockAdvances
  \/ Crash
  \/ Restart

Spec == Init /\ [][Next]_vars

\* The scheduler loops for ever, and a command or call that was accepted is
\* carried on by its task; tokio's lock is fair.
FairSpec ==
  /\ Spec
  /\ WF_vars(Scheduler)
  /\ WF_vars(RolloverTakes) /\ WF_vars(RolloverEnsures)
  /\ \A c \in Callers : WF_vars(IngestEnsure(c)) /\ WF_vars(IngestWrite(c))

-----------------------------------------------------------------------------
(* Properties.                                                             *)

\* A record that a finalized segment of the archive holds stays there: no
\* later finalization replaces the segment by one without it, through failures,
\* crashes and restarts within the interval, unless an operator's rollover or
\* a time read before the last rotation has opened its interval again.
FinalizedKept ==
  [][disturbed' \/ \A p \in Paths : archive[p] \subseteq archive'[p]]_vars

InOpen(c) == writer.open /\ c \in writer.recs
Stored == {c \in Callers : InOpen(c) \/ \E p \in Paths : c \in archive[p]}

\* As long as nothing failed and the daemon did not go down, a record whose
\* ingest call returned Ok is in the open segment or in a finalized one.
AckedRetained ==
  faults = 0 => \A c \in Callers : pc[c] = "acked" => c \in Stored

\* The same while no rollover was issued and no time was late.
AckedRetainedInTime == disturbed \/ AckedRetained

\* Whatever happened, no record is in two segments.
WrittenOnce ==
  \A c \in Callers, p \in Paths :
    c \in archive[p] => ~InOpen(c) /\ \A q \in Paths \ {p} : c \notin archive[q]

\* Between ensure_updates_writer and the write another task may rotate, so a
\* record may be in a later segment than its timestamp says; unless a time was
\* late, it is never in an earlier one.
NotBeforeItsTime ==
  disturbed \/
    \A c \in Callers :
      /\ InOpen(c) => writer.start >= ts[c]
      /\ \A p \in Paths : c \in archive[p] =>
           \E b \in Buckets : b >= ts[c] /\ PathOf(b) = p

\* No ingest call is refused for want of a writer ("updates writer not
\* initialized") unless an operation failed or a rollover came between.
NeverUninitialized ==
  (\E c \in Callers : pc[c] = "not initialized") => faults > 0 \/ disturbed

\* Whatever failed or was late, the writer of the current interval is open
\* again and again while the daemon runs.
CatchesUp == []<>(~ up \/ (writer.open /\ writer.start = now))
=============================================================================
