------------------------ MODULE UpdatesArchiveProofs ------------------------
(***************************************************************************)
(* Proofs about UpdatesArchive, for any number of records and intervals,   *)
(* any rotation interval, and any faults.  What depends on a segment's     *)
(* path being its own is proved for intervals of a minute or more: shorter *)
(* ones share file names, which ArchiveConfig::validate does not refuse.   *)
(*                                                                         *)
(* The argument: as long as no rollover is issued and no time is late,     *)
(* whoever takes the lock has the current interval, so the open segment is *)
(* never of a later interval, and when it is finalized its own interval is *)
(* over and no segment of it or of a later one has been written before     *)
(* (InTime, NotRewritten).                                                 *)
(***************************************************************************)
EXTENDS UpdatesArchive, TLAPS

\* A record is in a segment only after its call was acknowledged.
WrittenAcked ==
  \A c \in Callers :
    InOpen(c) \/ (\E p \in Paths : c \in archive[p]) => pc[c] = "acked"

\* Times that were read and are still to be used, and the open segment's, seen
\* from the clock.
InTime ==
  /\ \A c \in Callers : ts[c] <= now
  /\ ~ disturbed =>
       /\ roll = "idle"
       /\ tick = "read" => tick_now = now
       /\ \A c \in Callers : pc[c] = "called" => ts[c] = now
       /\ writer.open => writer.start <= now
       /\ \A c \in Callers :
            pc[c] = "ensured" /\ writer.open => writer.start >= ts[c]

\* While nothing fails and nobody rolls over, there is a writer.
WriterThere == ~ disturbed /\ faults = 0 => up /\ writer.open

\* The segment of an interval that is not over, and that of the open writer,
\* have not been published before.
NotRewritten ==
  ~ disturbed =>
    /\ writer.open => archive[PathOf(writer.start)] = {}
    /\ \A b \in Buckets : b >= now => archive[PathOf(b)] = {}

UpdatesInv ==
  /\ TypeOK /\ WrittenAcked /\ WrittenOnce /\ InTime /\ WriterThere
  /\ NotBeforeItsTime /\ NeverUninitialized

KeptInv == UpdatesInv /\ NotRewritten /\ AckedRetainedInTime

-----------------------------------------------------------------------------
(* Paths and critical sections.                                            *)

LEMMA PathInPaths == \A b \in Buckets : PathOf(b) \in Paths
BY DEF Paths

\* Intervals of a minute or more have files of their own.
LEMMA PathIsOwn ==
  ASSUME IntervalSecs >= 60, NEW a \in Buckets, NEW b \in Buckets, a < b
  PROVE  PathOf(a) # PathOf(b)
<1>1. a \in Nat /\ b \in Nat /\ IntervalSecs \in Nat
  BY MaxBucketAssumption, IntervalAssumption DEF Buckets
<1>2. PICK d \in Nat : b = a + 1 + d
  <2>1. b - a - 1 \in Nat /\ b = a + 1 + (b - a - 1)
    BY <1>1
  <2> QED
    BY <2>1
<1>3. StartOf(b) = StartOf(a) + IntervalSecs + d * IntervalSecs
  BY <1>1, <1>2 DEF StartOf
<1>4. /\ StartOf(a) \in Nat /\ StartOf(b) \in Nat /\ d * IntervalSecs \in Nat
  BY <1>1, <1>2 DEF StartOf
<1>5. StartOf(b) >= StartOf(a) + 60
  BY <1>1, <1>3, <1>4
<1>6. \A x, y \in Nat : y >= x + 60 => x \div 60 # y \div 60
  OBVIOUS
<1> QED
  BY <1>4, <1>5, <1>6 DEF PathOf

\* What finalize leaves in the archive.
LEMMA FinalizedContent ==
  ASSUME TypeOK
  PROVE  /\ Finalized \in [Paths -> SUBSET Callers]
         /\ \A p \in Paths :
              Finalized[p] = IF writer.open /\ p = PathOf(writer.start)
                               THEN writer.recs ELSE archive[p]
BY PathInPaths DEF Finalized, TypeOK

WriterType == [open : BOOLEAN, start : Buckets, recs : SUBSET Callers]

LEMMA NewWriterFacts ==
  ASSUME NEW b \in Buckets
  PROVE  /\ NewWriter(b) \in WriterType /\ NewWriter(b).open
         /\ NewWriter(b).start = b /\ NewWriter(b).recs = {}
BY DEF NewWriter, WriterType

LEMMA NoWriterFacts == NoWriter \in WriterType /\ ~ NoWriter.open /\ NoWriter.recs = {}
BY MaxBucketAssumption DEF NoWriter, WriterType, Buckets

LEMMA AppendFacts ==
  ASSUME NEW w \in WriterType, NEW c \in Callers
  PROVE  /\ [w EXCEPT !.recs = @ \union {c}] \in WriterType
         /\ [w EXCEPT !.recs = @ \union {c}].open = w.open
         /\ [w EXCEPT !.recs = @ \union {c}].start = w.start
         /\ [w EXCEPT !.recs = @ \union {c}].recs = w.recs \union {c}
BY DEF WriterType

LEMMA OneMoreFault ==
  ASSUME NEW n \in 0..MaxFaults, n < MaxFaults
  PROVE  n + 1 \in 0..MaxFaults
<1>1. MaxFaults \in Nat
  BY UpdatesFlags
<1> QED
  BY <1>1

\* The numbers among the variables.
LEMMA Numbers ==
  ASSUME TypeOK
  PROVE  /\ now \in Nat /\ writer.start \in Nat /\ faults \in Nat
         /\ \A c \in Callers : ts[c] \in Nat
         /\ writer \in WriterType
<1>1. \A b \in Buckets : b \in Nat
  BY MaxBucketAssumption DEF Buckets
<1>2. /\ now \in Buckets /\ writer \in WriterType /\ ts \in [Callers -> Buckets]
      /\ faults \in 0..MaxFaults
  BY DEF TypeOK, WriterType
<1>3. writer.start \in Buckets
  BY <1>2 DEF WriterType
<1>4. faults \in Nat
  BY <1>2
<1> QED
  BY <1>1, <1>2, <1>3, <1>4

LEMMA NextBucket ==
  ASSUME NEW b \in Buckets, b < MaxBucket
  PROVE  b + 1 \in Buckets
BY MaxBucketAssumption DEF Buckets

\* A critical section of ensure_updates_writer for interval b leaves the
\* writer, rotates to b, or fails and leaves none.
EnsureStep(b) ==
  \/ UNCHANGED <<archive, writer, faults>> /\ writer.open /\ writer.start = b
  \/ /\ archive' = Finalized /\ writer' = NewWriter(b) /\ UNCHANGED faults
     /\ writer.open => writer.start # b
  \/ /\ archive' \in {archive, Finalized} /\ writer' = NoWriter
     /\ writer.open => writer.start # b
     /\ faults' = faults + 1 /\ faults < MaxFaults

LEMMA EnsureIsStep ==
  ASSUME NEW b,
         \/ EnsureUpdatesWriter(b) /\ UNCHANGED faults
         \/ EnsureFails(b)
  PROVE  EnsureStep(b)
BY DEF EnsureUpdatesWriter, EnsureFails, NeedsRotate, EnsureStep

LEMMA EnsureTypes ==
  ASSUME TypeOK, NEW b \in Buckets, EnsureStep(b)
  PROVE  /\ archive' \in [Paths -> SUBSET Callers] /\ writer' \in WriterType
         /\ faults' \in 0..MaxFaults
<1>1. archive' \in [Paths -> SUBSET Callers]
  BY FinalizedContent DEF EnsureStep, TypeOK
<1>2. writer' \in WriterType
  BY NewWriterFacts, NoWriterFacts DEF EnsureStep, TypeOK, WriterType
<1>3. faults' \in 0..MaxFaults
  BY OneMoreFault DEF EnsureStep, TypeOK
<1> QED
  BY <1>1, <1>2, <1>3

-----------------------------------------------------------------------------
(* The types.                                                              *)

LEMMA NextTypeOK ==
  ASSUME TypeOK, [Next]_vars
  PROVE  TypeOK'
<1> USE DEF TypeOK
<1>1. ASSUME NEW c \in Callers, Call(c)
      PROVE  TypeOK'
  BY <1>1 DEF Call
<1>2. ASSUME NEW c \in Callers, IngestEnsure(c)
      PROVE  TypeOK'
  <2>1. EnsureStep(ts[c])
    BY <1>2, EnsureIsStep DEF IngestEnsure
  <2> QED
    BY <1>2, <2>1, EnsureTypes DEF IngestEnsure, WriterType
<1>3. ASSUME NEW c \in Callers, IngestWrite(c)
      PROVE  TypeOK'
  <2>1. writer' \in WriterType
    BY <1>3, AppendFacts DEF IngestWrite, WriterType
  <2> QED
    BY <1>3, <2>1 DEF IngestWrite, WriterType
<1>4. ASSUME NEW c \in Callers, IngestFails(c)
      PROVE  TypeOK'
  BY <1>4, OneMoreFault DEF IngestFails
<1>5. CASE TickReadsClock
  BY <1>5 DEF TickReadsClock
<1>6. CASE TickEnsures
  <2>1. EnsureStep(tick_now)
    BY <1>6, EnsureIsStep DEF TickEnsures
  <2> QED
    BY <1>6, <2>1, EnsureTypes DEF TickEnsures, WriterType
<1>7. CASE RolloverReadsClock
  BY <1>7 DEF RolloverReadsClock
<1>8. CASE RolloverTakes
  <2>1. archive' \in [Paths -> SUBSET Callers] /\ writer' \in WriterType
    BY <1>8, FinalizedContent, NoWriterFacts DEF RolloverTakes
  <2>2. faults' \in 0..MaxFaults
    BY <1>8, OneMoreFault DEF RolloverTakes
  <2> QED
    BY <1>8, <2>1, <2>2 DEF RolloverTakes, WriterType
<1>9. CASE RolloverEnsures
  <2>1. EnsureStep(roll_now)
    BY <1>9, EnsureIsStep DEF RolloverEnsures
  <2> QED
    BY <1>9, <2>1, EnsureTypes DEF RolloverEnsures, WriterType
<1>10. CASE ClockAdvances
  <2>1. now' \in Buckets
    BY <1>10, NextBucket DEF ClockAdvances
  <2>2. disturbed' \in BOOLEAN
    BY <1>10 DEF ClockAdvances, Sampled
  <2> QED
    BY <1>10, <2>1, <2>2 DEF ClockAdvances
<1>11. CASE Crash
  <2>1. writer' \in WriterType /\ faults' \in 0..MaxFaults
    BY <1>11, NoWriterFacts, OneMoreFault DEF Crash
  <2> QED
    BY <1>11, <2>1 DEF Crash, WriterType
<1>12. CASE Restart
  BY <1>12, NewWriterFacts DEF Restart, WriterType
<1>13. CASE UNCHANGED vars
  BY <1>13 DEF vars
<1> QED
  BY <1>1, <1>2, <1>3, <1>4, <1>5, <1>6, <1>7, <1>8, <1>9, <1>10, <1>11,
     <1>12, <1>13 DEF Next, Ingest, Scheduler, Rollover

-----------------------------------------------------------------------------
(* Where a record is.                                                      *)

\* What a step may do to the segments: nothing, append one record to the open
\* segment, or replace the open one by an empty one or none, having published
\* it or not.
Appends(c) ==
  /\ writer.open /\ pc[c] = "ensured" /\ pc' = [pc EXCEPT ![c] = "acked"]
  /\ UNCHANGED archive /\ writer' = [writer EXCEPT !.recs = @ \union {c}]

Replaces == archive' \in {archive, Finalized} /\ writer'.recs = {}

LEMMA SegmentEffects ==
  ASSUME TypeOK, [Next]_vars
  PROVE  /\ \/ UNCHANGED <<archive, writer>>
            \/ \E c \in Callers : Appends(c)
            \/ Replaces
         /\ \A c \in Callers : pc[c] = "acked" => pc'[c] = "acked"
<1>0. \A b \in Buckets : EnsureStep(b) => UNCHANGED <<archive, writer>> \/ Replaces
  BY NewWriterFacts, NoWriterFacts DEF EnsureStep, Replaces
<1> USE DEF TypeOK
<1>1. ASSUME NEW c \in Callers, Call(c) \/ IngestFails(c)
      PROVE  /\ UNCHANGED <<archive, writer>>
             /\ \A e \in Callers : pc[e] = "acked" => pc'[e] = "acked"
  BY <1>1 DEF Call, IngestFails
<1>2. ASSUME NEW c \in Callers, IngestEnsure(c)
      PROVE  /\ UNCHANGED <<archive, writer>> \/ Replaces
             /\ \A e \in Callers : pc[e] = "acked" => pc'[e] = "acked"
  <2>1. EnsureStep(ts[c])
    BY <1>2, EnsureIsStep DEF IngestEnsure
  <2> QED
    BY <1>0, <1>2, <2>1 DEF IngestEnsure
<1>3. ASSUME NEW c \in Callers, IngestWrite(c)
      PROVE  /\ UNCHANGED <<archive, writer>> \/ Appends(c)
             /\ \A e \in Callers : pc[e] = "acked" => pc'[e] = "acked"
  BY <1>3 DEF IngestWrite, Appends
<1>4. CASE TickEnsures
  <2>1. EnsureStep(tick_now) /\ UNCHANGED pc
    BY <1>4, EnsureIsStep DEF TickEnsures
  <2> QED
    BY <1>0, <2>1
<1>5. CASE RolloverEnsures
  <2>1. EnsureStep(roll_now) /\ UNCHANGED pc
    BY <1>5, EnsureIsStep DEF RolloverEnsures
  <2> QED
    BY <1>0, <2>1
<1>6. CASE RolloverTakes
  BY <1>6, NoWriterFacts DEF RolloverTakes, Replaces
<1>7. CASE Crash
  BY <1>7, NoWriterFacts DEF Crash, Replaces
<1>8. CASE Restart
  BY <1>8, NewWriterFacts DEF Restart, Replaces
<1>9. CASE TickReadsClock \/ RolloverReadsClock \/ ClockAdvances \/ UNCHANGED vars
  BY <1>9 DEF TickReadsClock, RolloverReadsClock, ClockAdvances, vars
<1> QED
  BY <1>1, <1>2, <1>3, <1>4, <1>5, <1>6, <1>7, <1>8, <1>9
     DEF Next, Ingest, Scheduler, Rollover

LEMMA NextWritten ==
  ASSUME TypeOK, WrittenAcked, WrittenOnce, [Next]_vars
  PROVE  WrittenAcked' /\ WrittenOnce'
<1>0. \A c \in Callers : pc[c] = "acked" => pc'[c] = "acked"
  BY SegmentEffects
<1>1. CASE UNCHANGED <<archive, writer>>
  BY <1>0, <1>1 DEF WrittenAcked, WrittenOnce, InOpen
<1>2. ASSUME NEW c \in Callers, Appends(c)
      PROVE  WrittenAcked' /\ WrittenOnce'
  <2>1. /\ archive' = archive /\ writer'.open = writer.open
        /\ writer'.recs = writer.recs \union {c}
        /\ pc'[c] = "acked" /\ pc[c] = "ensured"
    BY <1>2 DEF Appends, TypeOK
  <2>2. \A p \in Paths : c \notin archive[p]
    BY <2>1 DEF WrittenAcked
  <2> QED
    BY <1>0, <2>1, <2>2 DEF WrittenAcked, WrittenOnce, InOpen
<1>3. CASE Replaces
  <2>1. writer'.recs = {}
    BY <1>3 DEF Replaces
  <2>2. \A c \in Callers, p \in Paths :
          c \in archive'[p] =>
            \/ c \in archive[p]
            \/ archive' = Finalized /\ InOpen(c) /\ p = PathOf(writer.start)
    BY <1>3, FinalizedContent DEF Replaces, InOpen
  <2>3. WrittenAcked'
    BY <1>0, <2>1, <2>2 DEF WrittenAcked, InOpen
  <2>4. WrittenOnce'
    BY <2>1, <2>2 DEF WrittenOnce, InOpen
  <2> QED
    BY <2>3, <2>4
<1> QED
  BY <1>1, <1>2, <1>3, SegmentEffects

-----------------------------------------------------------------------------
(* Times.                                                                  *)

\* A rollover under way means that one was issued.
LEMMA NoRollover ==
  ASSUME InTime, RolloverReadsClock \/ RolloverTakes \/ RolloverEnsures
  PROVE  disturbed'
<1>1. CASE RolloverReadsClock
  BY <1>1 DEF RolloverReadsClock
<1>2. CASE RolloverTakes \/ RolloverEnsures
  <2>1. disturbed
    BY <1>2 DEF RolloverTakes, RolloverEnsures, InTime
  <2> QED
    BY <1>2, <2>1 DEF RolloverTakes, RolloverEnsures
<1> QED
  BY <1>1, <1>2

\* What happened before stays known.
LEMMA DisturbedStays ==
  ASSUME [Next]_vars
  PROVE  disturbed => disturbed'
BY DEF Next, Ingest, Scheduler, Rollover, Call, IngestEnsure, IngestWrite,
       IngestFails, TickReadsClock, TickEnsures, RolloverReadsClock,
       RolloverTakes, RolloverEnsures, ClockAdvances, Crash, Restart, vars

\* In an undisturbed step of ensure_updates_writer the interval is the current
\* one, which is the writer's, if there is one then, and no earlier than any
\* record's.
LEMMA EnsureInTime ==
  ASSUME TypeOK, InTime, ~ disturbed, EnsureStep(now)
  PROVE  /\ writer'.open => writer'.start = now
         /\ writer.open => writer.start <= now
         /\ archive' = Finalized \/ archive' = archive
         /\ archive' # archive => ~ writer.open \/ writer.start < now
<1>1. now \in Nat /\ writer.start \in Nat /\ now \in Buckets
  BY Numbers DEF TypeOK
<1>2. writer.open => writer.start <= now
  BY DEF InTime
<1>3. writer'.open => writer'.start = now
  BY <1>1, NewWriterFacts, NoWriterFacts DEF EnsureStep
<1>4. archive' # archive => ~ writer.open \/ writer.start # now
  BY DEF EnsureStep
<1> QED
  BY <1>1, <1>2, <1>3, <1>4 DEF EnsureStep

\* A write is to the segment that is open, and leaves it open.
LEMMA WriteKeepsOpen ==
  ASSUME TypeOK, NEW c \in Callers, IngestWrite(c)
  PROVE  writer'.open = writer.open /\ writer'.start = writer.start
<1>1. writer \in WriterType
  BY Numbers
<1>2. \/ writer' = [writer EXCEPT !.recs = @ \union {c}]
      \/ writer' = writer
  BY DEF IngestWrite
<1> QED
  BY <1>1, <1>2, AppendFacts

LEMMA NextInTime ==
  ASSUME TypeOK, InTime, [Next]_vars
  PROVE  InTime'
<1>0. /\ now \in Nat /\ writer.start \in Nat
      /\ \A c \in Callers : ts[c] \in Nat /\ ts[c] <= now
  BY Numbers DEF InTime
<1>1. ASSUME NEW c \in Callers, Call(c)
      PROVE  InTime'
  <2>1. /\ \A e \in Callers : /\ ts'[e] = IF e = c THEN now ELSE ts[e]
                              /\ pc'[e] = IF e = c THEN "called" ELSE pc[e]
        /\ UNCHANGED <<now, writer, roll, tick, tick_now, disturbed>>
    BY <1>1 DEF Call, TypeOK
  <2> QED
    BY <1>0, <2>1 DEF InTime
<1>2. ASSUME NEW c \in Callers, IngestEnsure(c)
      PROVE  InTime'
  <2>1. EnsureStep(ts[c]) /\ pc[c] = "called"
    BY <1>2, EnsureIsStep DEF IngestEnsure
  <2>2. /\ UNCHANGED <<now, ts, roll, tick, tick_now, disturbed>>
        /\ \A e \in Callers : e # c => pc'[e] = pc[e]
        /\ pc'[c] \in {"ensured", "error"}
    BY <1>2 DEF IngestEnsure, TypeOK
  <2>3. ~ disturbed /\ writer'.open => writer'.start = now
    BY <2>1, EnsureInTime DEF InTime
  <2> QED
    BY <1>0, <2>2, <2>3 DEF InTime
<1>3. ASSUME NEW c \in Callers, IngestWrite(c)
      PROVE  InTime'
  <2>1. /\ UNCHANGED <<now, ts, roll, tick, tick_now, disturbed>>
        /\ \A e \in Callers : e # c => pc'[e] = pc[e]
        /\ pc'[c] \in {"acked", "not initialized"}
    BY <1>3 DEF IngestWrite, TypeOK
  <2>2. writer'.open = writer.open /\ writer'.start = writer.start
    BY <1>3, WriteKeepsOpen
  <2> QED
    BY <1>0, <2>1, <2>2 DEF InTime
<1>4. ASSUME NEW c \in Callers, IngestFails(c)
      PROVE  InTime'
  <2>1. /\ UNCHANGED <<now, ts, roll, tick, tick_now, disturbed, writer>>
        /\ \A e \in Callers : e # c => pc'[e] = pc[e]
        /\ pc'[c] = "error"
    BY <1>4 DEF IngestFails, TypeOK
  <2> QED
    BY <2>1 DEF InTime
<1>5. CASE TickReadsClock
  BY <1>5 DEF TickReadsClock, InTime
<1>6. CASE TickEnsures
  <2>1. EnsureStep(tick_now) /\ tick = "read"
    BY <1>6, EnsureIsStep DEF TickEnsures
  <2>2. UNCHANGED <<now, ts, pc, roll, disturbed>> /\ tick' = "idle"
    BY <1>6 DEF TickEnsures
  <2>3. ~ disturbed /\ writer'.open => writer'.start = now
    BY <2>1, EnsureInTime DEF InTime
  <2> QED
    BY <1>0, <2>2, <2>3 DEF InTime
<1>7. CASE Rollover
  <2>1. disturbed' /\ UNCHANGED <<now, ts>>
    BY <1>7, NoRollover
       DEF Rollover, RolloverReadsClock, RolloverTakes, RolloverEnsures
  <2> QED
    BY <2>1 DEF InTime
<1>8. CASE ClockAdvances
  <2>1. /\ now' = now + 1 /\ UNCHANGED <<ts, pc, roll, tick, writer>>
        /\ ~ disturbed' => ~ disturbed /\ ~ Sampled
    BY <1>8 DEF ClockAdvances
  <2> QED
    BY <1>0, <2>1 DEF InTime, Sampled
<1>9. CASE Crash
  <2>1. /\ UNCHANGED <<now, ts, disturbed>> /\ tick' = "idle" /\ roll' = "idle"
        /\ ~ writer'.open
        /\ \A c \in Callers : pc'[c] \notin {"called", "ensured"}
    BY <1>9, NoWriterFacts DEF Crash, TypeOK
  <2> QED
    BY <2>1 DEF InTime
<1>10. CASE Restart
  <2>1. /\ UNCHANGED <<now, ts, pc, tick, tick_now, roll, disturbed>>
        /\ writer'.open /\ writer'.start = now
    BY <1>10, NewWriterFacts DEF Restart, TypeOK
  <2> QED
    BY <1>0, <2>1 DEF InTime
<1>11. CASE UNCHANGED vars
  BY <1>11 DEF vars, InTime
<1> QED
  BY <1>1, <1>2, <1>3, <1>4, <1>5, <1>6, <1>7, <1>8, <1>9, <1>10, <1>11
     DEF Next, Ingest, Scheduler

\* The writer is missing only after a failure or a rollover.
LEMMA NextWriterThere ==
  ASSUME TypeOK, InTime, WriterThere, NeverUninitialized, [Next]_vars
  PROVE  WriterThere' /\ NeverUninitialized'
<1>0. faults \in Nat
  BY Numbers
<1>1. ASSUME NEW b \in Buckets, EnsureStep(b), UNCHANGED <<up, disturbed>>,
             \A e \in Callers : pc'[e] = "not initialized" => pc[e] = "not initialized"
      PROVE  WriterThere' /\ NeverUninitialized'
  <2>1. CASE faults' = faults /\ writer'.open
    BY <1>1, <2>1 DEF WriterThere, NeverUninitialized
  <2>2. CASE faults' = faults + 1
    <3>1. faults' # 0 /\ faults' > 0
      BY <1>0, <2>2
    <3> QED
      BY <3>1 DEF WriterThere, NeverUninitialized
  <2> QED
    BY <1>1, <2>1, <2>2, NewWriterFacts DEF EnsureStep
<1>2. ASSUME NEW c \in Callers, IngestEnsure(c)
      PROVE  WriterThere' /\ NeverUninitialized'
  <2>1. EnsureStep(ts[c]) /\ UNCHANGED <<up, disturbed>> /\ ts[c] \in Buckets
    BY <1>2, EnsureIsStep DEF IngestEnsure, TypeOK
  <2>2. \A e \in Callers : pc'[e] = "not initialized" => pc[e] = "not initialized"
    BY <1>2 DEF IngestEnsure, TypeOK
  <2> QED
    BY <1>1, <2>1, <2>2
<1>3. CASE TickEnsures
  <2>1. /\ EnsureStep(tick_now) /\ UNCHANGED <<up, disturbed, pc>>
        /\ tick_now \in Buckets
    BY <1>3, EnsureIsStep DEF TickEnsures, TypeOK
  <2> QED
    BY <1>1, <2>1
<1>4. ASSUME NEW c \in Callers, IngestWrite(c)
      PROVE  WriterThere' /\ NeverUninitialized'
  <2>1. UNCHANGED <<up, faults, disturbed>> /\ writer'.open = writer.open
    BY <1>4, WriteKeepsOpen DEF IngestWrite
  <2>2. \A e \in Callers : pc'[e] = "not initialized" =>
          pc[e] = "not initialized" \/ ~ writer.open
    BY <1>4 DEF IngestWrite, TypeOK
  <2>3. faults > 0 <=> faults # 0
    BY <1>0
  <2> QED
    BY <2>1, <2>2, <2>3 DEF WriterThere, NeverUninitialized
<1>5. ASSUME NEW c \in Callers, Call(c)
      PROVE  WriterThere' /\ NeverUninitialized'
  <2>1. /\ UNCHANGED <<up, faults, disturbed, writer>>
        /\ \A e \in Callers : pc'[e] = "not initialized" => pc[e] = "not initialized"
    BY <1>5 DEF Call, TypeOK
  <2> QED
    BY <2>1 DEF WriterThere, NeverUninitialized
<1>6. CASE Crash \/ (\E c \in Callers : IngestFails(c))
  <2>1. faults' = faults + 1
    BY <1>6 DEF Crash, IngestFails
  <2>2. faults' # 0 /\ faults' > 0
    BY <1>0, <2>1
  <2> QED
    BY <2>2 DEF WriterThere, NeverUninitialized
<1>7. CASE Rollover
  <2>1. disturbed'
    BY <1>7, NoRollover DEF Rollover
  <2> QED
    BY <2>1 DEF WriterThere, NeverUninitialized
<1>8. CASE ClockAdvances \/ TickReadsClock \/ UNCHANGED vars
  <2>1. /\ UNCHANGED <<up, faults, writer, pc>>
        /\ ~ disturbed' => ~ disturbed
    <3>1. CASE ClockAdvances
      BY <3>1 DEF ClockAdvances
    <3>2. CASE TickReadsClock \/ UNCHANGED vars
      BY <3>2 DEF TickReadsClock, vars
    <3> QED
      BY <1>8, <3>1, <3>2
  <2> QED
    BY <2>1 DEF WriterThere, NeverUninitialized
<1>9. CASE Restart
  <2>1. UNCHANGED <<faults, disturbed, pc>> /\ up' = TRUE /\ writer'.open
    BY <1>9, NewWriterFacts DEF Restart, TypeOK
  <2> QED
    BY <2>1 DEF WriterThere, NeverUninitialized
<1> QED
  BY <1>2, <1>3, <1>4, <1>5, <1>6, <1>7, <1>8, <1>9
     DEF Next, Ingest, Scheduler

\* A record is stamped when its call begins, and not again.
LEMMA StampKept ==
  ASSUME TypeOK, [Next]_vars, NEW c \in Callers, pc[c] = "acked"
  PROVE  ts'[c] = ts[c]
<1>1. CASE \E e \in Callers : Call(e)
  BY <1>1 DEF Call, TypeOK
<1>2. CASE UNCHANGED ts
  BY <1>2
<1> QED
  BY <1>1, <1>2
     DEF Next, Ingest, Scheduler, Rollover, IngestEnsure, IngestWrite,
         IngestFails, TickReadsClock, TickEnsures, RolloverReadsClock,
         RolloverTakes, RolloverEnsures, ClockAdvances, Crash, Restart, vars

LEMMA NextNotBefore ==
  ASSUME TypeOK, InTime, WrittenAcked, NotBeforeItsTime, [Next]_vars
  PROVE  NotBeforeItsTime'
<1> SUFFICES ASSUME ~ disturbed'
             PROVE  \A c \in Callers :
                      /\ InOpen(c)' => writer'.start >= ts'[c]
                      /\ \A p \in Paths : c \in archive'[p] =>
                           \E b \in Buckets : b >= ts'[c] /\ PathOf(b) = p
  BY DEF NotBeforeItsTime
<1> TAKE c \in Callers
<1>0. ~ disturbed
  BY DisturbedStays
<1>1. InOpen(c) \/ (\E p \in Paths : c \in archive[p]) => ts'[c] = ts[c]
  BY StampKept DEF WrittenAcked
<1>2. /\ InOpen(c) => writer.start >= ts[c]
      /\ \A p \in Paths : c \in archive[p] =>
           \E b \in Buckets : b >= ts[c] /\ PathOf(b) = p
  BY <1>0 DEF NotBeforeItsTime
<1>3. writer \in WriterType /\ writer.start \in Buckets
  BY Numbers DEF WriterType
<1>4. CASE UNCHANGED <<archive, writer>>
  BY <1>1, <1>2, <1>4 DEF InOpen
<1>5. ASSUME NEW e \in Callers, Appends(e)
      PROVE  /\ InOpen(c)' => writer'.start >= ts'[c]
             /\ \A p \in Paths : c \in archive'[p] =>
                  \E b \in Buckets : b >= ts'[c] /\ PathOf(b) = p
  <2>1. /\ archive' = archive /\ writer.open /\ writer'.start = writer.start
        /\ writer'.recs = writer.recs \union {e}
    BY <1>3, <1>5, AppendFacts DEF Appends
  <2>2. InOpen(c)' => InOpen(c) \/ c = e
    BY <2>1 DEF InOpen
  <2>3. c = e => writer.start >= ts[c] /\ pc[c] = "ensured"
    BY <1>0, <1>5 DEF InTime, Appends
  <2>4. c = e => ts'[c] = ts[c]
    <3>1. c = e => pc'[c] = "acked" /\ pc[c] = "ensured"
      BY <1>5 DEF Appends, TypeOK
    <3>2. c = e => ~ \E d \in Callers : Call(d)
      BY <3>1 DEF Call, TypeOK
    <3> QED
      BY <3>2
         DEF Next, Ingest, Scheduler, Rollover, IngestEnsure, IngestWrite,
             IngestFails, TickReadsClock, TickEnsures, RolloverReadsClock,
             RolloverTakes, RolloverEnsures, ClockAdvances, Crash, Restart,
             vars
  <2> QED
    BY <1>1, <1>2, <2>1, <2>2, <2>3, <2>4
<1>6. CASE Replaces
  <2>1. ~ InOpen(c)'
    BY <1>6 DEF Replaces, InOpen
  <2>2. \A p \in Paths : c \in archive'[p] =>
          c \in archive[p] \/ (InOpen(c) /\ p = PathOf(writer.start))
    BY <1>6, FinalizedContent DEF Replaces, InOpen
  <2> QED
    BY <1>1, <1>2, <1>3, <2>1, <2>2
<1> QED
  BY <1>4, <1>5, <1>6, SegmentEffects

-----------------------------------------------------------------------------
(* Segments that are not rewritten.                                        *)

\* An undisturbed step leaves the archive as it is, the writer being as it was
\* or of the current interval, or publishes a segment whose interval is over.
LEMMA UndisturbedStep ==
  ASSUME TypeOK, InTime, ~ disturbed', [Next]_vars
  PROVE  \/ /\ archive' = archive /\ (now' = now \/ now' = now + 1)
            /\ \/ writer'.open = writer.open /\ writer'.start = writer.start
               \/ now' = now /\ (writer'.open => writer'.start = now)
         \/ /\ archive' = Finalized /\ now' = now
            /\ writer.open /\ writer.start < now
            /\ writer'.open => writer'.start = now
<1>0. ~ disturbed
  BY DisturbedStays
<1>1. ASSUME EnsureStep(now), now' = now
      PROVE  \/ archive' = archive /\ (writer'.open => writer'.start = now)
             \/ /\ archive' = Finalized
                /\ writer.open /\ writer.start < now
                /\ writer'.open => writer'.start = now
  <2>1. /\ writer'.open => writer'.start = now
        /\ archive' = Finalized \/ archive' = archive
        /\ archive' # archive => ~ writer.open \/ writer.start < now
    BY <1>0, <1>1, EnsureInTime
  <2>2. ~ writer.open => Finalized = archive
    BY DEF Finalized
  <2> QED
    BY <2>1, <2>2
<1>2. ASSUME NEW c \in Callers, IngestEnsure(c)
      PROVE  EnsureStep(now) /\ now' = now
  <2>1. EnsureStep(ts[c]) /\ ts[c] = now
    BY <1>0, <1>2, EnsureIsStep DEF IngestEnsure, InTime
  <2> QED
    BY <1>2, <2>1 DEF IngestEnsure
<1>3. ASSUME TickEnsures
      PROVE  EnsureStep(now) /\ now' = now
  <2>1. EnsureStep(tick_now) /\ tick_now = now
    BY <1>0, <1>3, EnsureIsStep DEF TickEnsures, InTime
  <2> QED
    BY <1>3, <2>1 DEF TickEnsures
<1>4. ASSUME NEW c \in Callers, IngestWrite(c)
      PROVE  /\ archive' = archive /\ now' = now
             /\ writer'.open = writer.open /\ writer'.start = writer.start
  BY <1>4, WriteKeepsOpen DEF IngestWrite
<1>5. ASSUME NEW c \in Callers, Call(c) \/ IngestFails(c)
      PROVE  UNCHANGED <<archive, now, writer>>
  BY <1>5 DEF Call, IngestFails
<1>6. ASSUME ClockAdvances \/ TickReadsClock \/ UNCHANGED vars
      PROVE  UNCHANGED <<archive, writer>> /\ (now' = now \/ now' = now + 1)
  BY <1>6 DEF ClockAdvances, TickReadsClock, vars
<1>7. ASSUME Crash \/ Restart
      PROVE  UNCHANGED <<archive, now>> /\ (writer'.open => writer'.start = now)
  BY <1>7, NoWriterFacts, NewWriterFacts DEF Crash, Restart, TypeOK
<1>8. ~ Rollover
  BY NoRollover DEF Rollover
<1> QED
  BY <1>1, <1>2, <1>3, <1>4, <1>5, <1>6, <1>7, <1>8
     DEF Next, Ingest, Scheduler

\* So no published segment loses a record, and what was not published before
\* is not now.
LEMMA NextNotRewritten ==
  ASSUME IntervalSecs >= 60, TypeOK, InTime, NotRewritten, ~ disturbed',
         [Next]_vars
  PROVE  /\ NotRewritten'
         /\ \A p \in Paths : archive[p] \subseteq archive'[p]
<1>0. ~ disturbed
  BY DisturbedStays
<1>1. /\ now \in Nat /\ writer.start \in Nat /\ writer.start \in Buckets
      /\ now \in Buckets /\ now' \in Buckets /\ writer'.start \in Buckets
  BY NextTypeOK, Numbers DEF TypeOK
<1>2. /\ writer.open => archive[PathOf(writer.start)] = {}
      /\ \A b \in Buckets : b >= now => archive[PathOf(b)] = {}
  BY <1>0 DEF NotRewritten
<1>3. \A b \in Buckets : b \in Nat
  BY MaxBucketAssumption DEF Buckets
<1>4. CASE /\ archive' = archive /\ (now' = now \/ now' = now + 1)
           /\ \/ writer'.open = writer.open /\ writer'.start = writer.start
              \/ now' = now /\ (writer'.open => writer'.start = now)
  <2>1. \A b \in Buckets : b >= now' => b >= now
    BY <1>1, <1>3, <1>4
  <2>2. now >= now
    BY <1>1
  <2> QED
    BY <1>1, <1>2, <1>4, <2>1, <2>2 DEF NotRewritten
<1>5. CASE /\ archive' = Finalized /\ now' = now
           /\ writer.open /\ writer.start < now
           /\ writer'.open => writer'.start = now
  <2>1. \A p \in Paths : archive'[p] = IF p = PathOf(writer.start)
                                         THEN writer.recs ELSE archive[p]
    BY <1>5, FinalizedContent
  <2>2. \A b \in Buckets : b >= now => PathOf(b) # PathOf(writer.start)
    <3> SUFFICES ASSUME NEW b \in Buckets, b >= now
                 PROVE  PathOf(b) # PathOf(writer.start)
      OBVIOUS
    <3>1. writer.start < b
      BY <1>1, <1>3, <1>5
    <3> QED
      BY <1>1, <3>1, PathIsOwn
  <2>3. \A b \in Buckets : b >= now => archive'[PathOf(b)] = {}
    BY <1>2, <2>1, <2>2, PathInPaths
  <2>4. \A p \in Paths : archive[p] \subseteq archive'[p]
    BY <1>2, <1>5, <2>1
  <2>5. now >= now
    BY <1>1
  <2> QED
    BY <1>1, <1>5, <2>3, <2>4, <2>5 DEF NotRewritten
<1> QED
  BY <1>4, <1>5, UndisturbedStep

LEMMA NextRetained ==
  ASSUME IntervalSecs >= 60, TypeOK, InTime, WriterThere, NotRewritten,
         AckedRetainedInTime, [Next]_vars
  PROVE  AckedRetainedInTime'
<1> SUFFICES ASSUME ~ disturbed', faults' = 0, NEW c \in Callers,
                    pc'[c] = "acked"
             PROVE  InOpen(c)' \/ \E p \in Paths : c \in archive'[p]
  BY DEF AckedRetainedInTime, AckedRetained, Stored
<1>0. ~ disturbed /\ faults \in Nat /\ (TypeOK)'
  BY DisturbedStays, Numbers, NextTypeOK
<1>1. \A p \in Paths : archive[p] \subseteq archive'[p]
  BY NextNotRewritten
<1>2. \A b : EnsureStep(b) =>
        \/ UNCHANGED <<archive, writer>>
        \/ archive' = Finalized
  BY <1>0 DEF EnsureStep
<1>3. ASSUME faults = 0, pc[c] = "acked",
             UNCHANGED <<archive, writer>> \/ archive' = Finalized
      PROVE  InOpen(c)' \/ \E p \in Paths : c \in archive'[p]
  <2>1. InOpen(c) \/ \E p \in Paths : c \in archive[p]
    BY <1>0, <1>3 DEF AckedRetainedInTime, AckedRetained, Stored
  <2>2. CASE \E p \in Paths : c \in archive[p]
    BY <1>1, <2>2
  <2>3. CASE InOpen(c) /\ UNCHANGED <<archive, writer>>
    BY <2>3 DEF InOpen
  <2>4. CASE InOpen(c) /\ archive' = Finalized
    <3>1. PathOf(writer.start) \in Paths
      BY PathInPaths DEF TypeOK
    <3>2. c \in archive'[PathOf(writer.start)]
      BY <2>4, <3>1, FinalizedContent DEF InOpen
    <3> QED
      BY <3>1, <3>2
  <2> QED
    BY <1>3, <2>1, <2>2, <2>3, <2>4
<1>4. ASSUME NEW e \in Callers, IngestEnsure(e)
      PROVE  InOpen(c)' \/ \E p \in Paths : c \in archive'[p]
  <2>1. EnsureStep(ts[e]) /\ pc[c] = "acked"
    BY <1>4, EnsureIsStep DEF IngestEnsure, TypeOK
  <2>2. faults = 0
    BY <1>0, <2>1 DEF EnsureStep
  <2> QED
    BY <1>2, <1>3, <2>1, <2>2
<1>5. CASE TickEnsures
  <2>1. EnsureStep(tick_now) /\ pc[c] = "acked"
    BY <1>5, EnsureIsStep DEF TickEnsures
  <2>2. faults = 0
    BY <1>0, <2>1 DEF EnsureStep
  <2> QED
    BY <1>2, <1>3, <2>1, <2>2
<1>6. ASSUME NEW e \in Callers, IngestWrite(e)
      PROVE  InOpen(c)' \/ \E p \in Paths : c \in archive'[p]
  <2>1. faults = 0 /\ writer.open /\ archive' = archive /\ writer \in WriterType
    BY <1>0, <1>6, Numbers DEF IngestWrite, WriterThere
  <2>2. /\ writer'.open = writer.open /\ writer'.recs = writer.recs \union {e}
        /\ pc[c] = "acked" \/ c = e
    BY <1>6, <2>1, AppendFacts DEF IngestWrite, TypeOK
  <2>3. pc[c] = "acked" => InOpen(c) \/ \E p \in Paths : c \in archive[p]
    BY <1>0, <2>1 DEF AckedRetainedInTime, AckedRetained, Stored
  <2> QED
    BY <2>1, <2>2, <2>3 DEF InOpen
<1>7. ASSUME NEW e \in Callers, Call(e)
      PROVE  InOpen(c)' \/ \E p \in Paths : c \in archive'[p]
  <2>1. faults = 0 /\ pc[c] = "acked" /\ UNCHANGED <<archive, writer>>
    BY <1>7 DEF Call, TypeOK
  <2> QED
    BY <1>3, <2>1
<1>8. CASE ClockAdvances \/ TickReadsClock \/ UNCHANGED vars
  <2>1. faults = 0 /\ pc[c] = "acked" /\ UNCHANGED <<archive, writer>>
    BY <1>8 DEF ClockAdvances, TickReadsClock, vars
  <2> QED
    BY <1>3, <2>1
<1>9. ~ Crash /\ ~ \E e \in Callers : IngestFails(e)
  BY <1>0 DEF Crash, IngestFails
<1>10. ~ Restart
  BY <1>0 DEF Restart, WriterThere
<1>11. ~ Rollover
  BY NoRollover DEF Rollover
<1> QED
  BY <1>4, <1>5, <1>6, <1>7, <1>8, <1>9, <1>10, <1>11
     DEF Next, Ingest, Scheduler

-----------------------------------------------------------------------------
(* The theorems.                                                           *)

LEMMA InitUpdates ==
  ASSUME Init
  PROVE  KeptInv
<1>1. 0 \in Buckets /\ writer = NewWriter(0)
  BY MaxBucketAssumption DEF Init, Buckets
<1>2. /\ writer \in WriterType /\ writer.open /\ writer.start = 0
      /\ writer.recs = {}
  BY <1>1, NewWriterFacts
<1>3. \A p \in Paths : archive[p] = {}
  BY DEF Init
<1>4. TypeOK
  <2>1. faults \in 0..MaxFaults
    BY UpdatesFlags DEF Init
  <2> QED
    BY <1>1, <1>2, <2>1 DEF Init, TypeOK, WriterType
<1>5. WrittenAcked /\ WrittenOnce /\ NotBeforeItsTime
  BY <1>2, <1>3 DEF WrittenAcked, WrittenOnce, NotBeforeItsTime, InOpen
<1>6. InTime /\ WriterThere
  BY <1>2 DEF Init, InTime, WriterThere
<1>7. NeverUninitialized /\ AckedRetainedInTime
  BY DEF Init, NeverUninitialized, AckedRetainedInTime, AckedRetained
<1>8. NotRewritten
  BY <1>1, <1>2, <1>3, PathInPaths DEF NotRewritten
<1> QED
  BY <1>4, <1>5, <1>6, <1>7, <1>8 DEF KeptInv, UpdatesInv

LEMMA UpdatesInvariant == Spec => []UpdatesInv
<1>1. Init => UpdatesInv
  BY InitUpdates DEF KeptInv
<1>2. UpdatesInv /\ [Next]_vars => UpdatesInv'
  BY NextTypeOK, NextWritten, NextInTime, NextWriterThere, NextNotBefore
     DEF UpdatesInv
<1> QED
  BY <1>1, <1>2, PTL DEF Spec

\* Every variable of the updates stream keeps its type.
THEOREM UpdatesTypeCorrect == Spec => []TypeOK
BY UpdatesInvariant, PTL DEF UpdatesInv

\* No record is ever in two segments, nor in a finalized one and in the open
\* one: through rotations, rollovers, late times, failures and crashes
\* (ensure_updates_writer takes the writer out of the Option before it is
\* finalized).
THEOREM RecordsWrittenOnce == Spec => []WrittenOnce
BY UpdatesInvariant, PTL DEF UpdatesInv

\* Unless a rollover was issued or a time was late, no record is in a segment
\* of an interval before its timestamp's (the two acquisitions of the lock in
\* ingest_update).
THEOREM RecordsNotBeforeTheirTime == Spec => []NotBeforeItsTime
BY UpdatesInvariant, PTL DEF UpdatesInv

\* "updates writer not initialized" is not seen unless an operation failed or
\* a rollover was issued.
THEOREM WriterIsInitialized == Spec => []NeverUninitialized
BY UpdatesInvariant, PTL DEF UpdatesInv

LEMMA KeptInvariant ==
  ASSUME IntervalSecs >= 60
  PROVE  Spec => []KeptInv
<1>1. Init => KeptInv
  BY InitUpdates
<1>2. KeptInv /\ [Next]_vars => KeptInv'
  <2> SUFFICES ASSUME KeptInv, [Next]_vars PROVE KeptInv'
    OBVIOUS
  <2>1. UpdatesInv'
    BY NextTypeOK, NextWritten, NextInTime, NextWriterThere, NextNotBefore
       DEF KeptInv, UpdatesInv
  <2>2. NotRewritten'
    <3>1. disturbed' => NotRewritten'
      BY DEF NotRewritten
    <3> QED
      BY <3>1, NextNotRewritten DEF KeptInv, UpdatesInv
  <2>3. AckedRetainedInTime'
    BY NextRetained DEF KeptInv, UpdatesInv
  <2> QED
    BY <2>1, <2>2, <2>3 DEF KeptInv
<1> QED
  BY <1>1, <1>2, PTL DEF Spec

\* With a rotation interval of a minute or more, a record whose ingest call
\* returned Ok stays in the open segment or in a finalized one, as long as
\* nothing fails, no rollover is issued and no time is late.
THEOREM AckedRecordsRetained ==
  ASSUME IntervalSecs >= 60
  PROVE  Spec => []AckedRetainedInTime
BY KeptInvariant, PTL DEF KeptInv

\* With such an interval, no finalization takes a record out of a published
\* segment, through any failures, crashes and restarts (finalize's rename).
THEOREM FinalizedRecordsKept ==
  ASSUME IntervalSecs >= 60
  PROVE  Spec => FinalizedKept
<1> DEFINE Keeps == disturbed' \/ \A p \in Paths : archive[p] \subseteq archive'[p]
<1>1. KeptInv /\ [Next]_vars => Keeps
  BY NextNotRewritten DEF KeptInv, UpdatesInv
<1>2. Spec => []KeptInv
  BY KeptInvariant
<1> QED
  BY <1>1, <1>2, PTL DEF Spec, FinalizedKept
=============================================================================
