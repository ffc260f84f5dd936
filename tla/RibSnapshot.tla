---------------------------- MODULE RibSnapshot -----------------------------
(***************************************************************************)
(* ArchiveService::snapshot_now for one RIB interval: the scheduler's tick *)
(* and the control commands `archive snapshot` and `archive rollover ribs` *)
(* all write the same temporary file and rename it to the same path, and   *)
(* no lock is common to them (the scheduler holds last_rib_bucket, the     *)
(* commands hold nothing).                                                 *)
(*                                                                         *)
(* Files are inodes: a task that opened the temporary file keeps writing   *)
(* to its inode wherever a rename has moved it.  A snapshot's bytes reach  *)
(* the file in two parts, when the encoder spills and when it finishes;    *)
(* content[i][k] names the task whose bytes part k of inode i holds, or    *)
(* NoTask for bytes that are missing.                                      *)
(***************************************************************************)
EXTENDS Naturals, FiniteSets

CONSTANTS
  Scheduler,      \* the task that runs tick
  Operators,      \* control commands, one snapshot each
  NoTask,
  MaxCrashes,     \* bound on the crashes of the daemon
  MaxFaults       \* bound on failing file and database operations

Tasks == Operators \union {Scheduler}

ASSUME TasksAssumption == Scheduler \notin Operators /\ NoTask \notin Tasks
ASSUME SnapshotBounds == MaxCrashes \in Nat /\ MaxFaults \in Nat

VARIABLES
  pc,             \* task -> where its snapshot_now stands
  fd,             \* task -> inode of its open file
  content,        \* inode -> part -> task
  tmp,            \* inode the temporary path names, 0 if there is no such file
  final,          \* inode the final path names, 0 if there is no such file
  hash,           \* task -> content its manifest describes
  manifest,       \* content the sidecar on disk describes
  ribs_last,      \* task whose segment ribs_last holds, NoTask for None
  last_rib,       \* last_rib_bucket is the current interval
  crashes, faults,
  overlap         \* history: two snapshots have been under way together

vars == <<pc, fd, content, tmp, final, hash, manifest, ribs_last, last_rib,
          crashes, faults, overlap>>

Part == {1, 2}
Nothing == [k \in Part |-> NoTask]
Whole(c) == c[1] = c[2] /\ c[1] # NoTask
Inodes == DOMAIN content

TypeOK ==
  /\ pc \in [Tasks -> {"idle", "create", "build", "finish", "rename", "hash",
                       "sidecar", "enqueue", "last", "done"}]
  /\ fd \in [Tasks -> Nat]
  /\ content \in [Inodes -> [Part -> Tasks \union {NoTask}]]
  /\ {tmp, final} \subseteq Inodes \union {0}
  /\ hash \in [Tasks -> [Part -> Tasks \union {NoTask}]]
  /\ manifest \in [Part -> Tasks \union {NoTask}]
  /\ ribs_last \in Tasks \union {NoTask}
  /\ last_rib \in BOOLEAN
  /\ crashes \in 0..MaxCrashes /\ faults \in 0..MaxFaults
  /\ overlap \in BOOLEAN

Init ==
  /\ pc = [t \in Tasks |-> "idle"]
  /\ fd = [t \in Tasks |-> 0]
  /\ content = [i \in {} |-> Nothing]
  /\ tmp = 0 /\ final = 0
  /\ hash = [t \in Tasks |-> Nothing]
  /\ manifest = Nothing
  /\ ribs_last = NoTask
  /\ last_rib = FALSE
  /\ crashes = 0 /\ faults = 0
  /\ overlap = FALSE

Goto(t, from, to) == pc[t] = from /\ pc' = [pc EXCEPT ![t] = to]
Busy == {t \in Tasks : pc[t] \notin {"idle", "done"}}

-----------------------------------------------------------------------------
(* tick and the control commands.                                          *)

\* tick: a snapshot for the interval has not succeeded yet.
TickStarts ==
  /\ ~ last_rib
  /\ Goto(Scheduler, "idle", "create")
  /\ overlap' = (overlap \/ Busy # {})
  /\ UNCHANGED <<fd, content, tmp, final, hash, manifest, ribs_last, last_rib,
                 crashes, faults>>

CommandStarts(t) ==
  /\ Goto(t, "idle", "create")
  /\ overlap' = (overlap \/ Busy # {})
  /\ UNCHANGED <<fd, content, tmp, final, hash, manifest, ribs_last, last_rib,
                 crashes, faults>>

-----------------------------------------------------------------------------
(* snapshot_now.                                                           *)

NewInode == Cardinality(Inodes) + 1

\* Seeded fault: the temporary file is opened without being created.
OpenTmp(t) ==
  /\ Goto(t, "create", "build")
  /\ tmp' = IF tmp = 0 THEN NewInode ELSE tmp
  /\ fd' = [fd EXCEPT ![t] = IF tmp = 0 THEN NewInode ELSE tmp]
  /\ UNCHANGED <<content, final, hash, manifest, ribs_last, last_rib,
                 crashes, faults, overlap>>

\* SegmentWriter::new: File::create makes the file or truncates the one there.
CreateTmp(t) ==
  /\ Goto(t, "create", "build")
  /\ LET i == IF tmp = 0 THEN NewInode ELSE tmp
     IN /\ tmp' = i
        /\ fd' = [fd EXCEPT ![t] = i]
        /\ content' = [j \in Inodes \union {i} |->
                         IF j = i THEN Nothing ELSE content[j]]
  /\ UNCHANGED <<final, hash, manifest, ribs_last, last_rib, crashes, faults,
                 overlap>>

WritePart(t, k) == content' = [content EXCEPT ![fd[t]][k] = t]

\* build_table_dump_v2 and the write_record loop.
WriteRecords(t) ==
  /\ Goto(t, "build", "finish")
  /\ WritePart(t, 1)
  /\ UNCHANGED <<fd, tmp, final, hash, manifest, ribs_last, last_rib,
                 crashes, faults, overlap>>

\* Seeded fault: the encoder is dropped without being finished.
FinishWithoutFlush(t) ==
  /\ Goto(t, "finish", "rename")
  /\ UNCHANGED <<fd, content, tmp, final, hash, manifest, ribs_last,
                 last_rib, crashes, faults, overlap>>

\* finalize: the encoder finishes and the file is closed.
FinishEncoder(t) ==
  /\ Goto(t, "finish", "rename")
  /\ WritePart(t, 2)
  /\ UNCHANGED <<fd, tmp, final, hash, manifest, ribs_last, last_rib,
                 crashes, faults, overlap>>

\* fs::rename moves whatever file the temporary path names.
Rename(t) ==
  /\ tmp # 0
  /\ Goto(t, "rename", "hash")
  /\ final' = tmp /\ tmp' = 0
  /\ UNCHANGED <<fd, content, hash, manifest, ribs_last, last_rib, crashes,
                 faults, overlap>>

\* Seeded fault: an error ends the scheduler's loop.
ReturnStops(t) == pc' = [pc EXCEPT ![t] = "done"]

\* A task whose snapshot_now returned an error: a command is over, the
\* scheduler tries again at its next tick.
Return(t) == pc' = [pc EXCEPT ![t] = IF t = Scheduler THEN "idle" ELSE "done"]

\* Another task has moved the file away.
RenameFails(t) ==
  /\ pc[t] = "rename" /\ tmp = 0
  /\ Return(t)
  /\ UNCHANGED <<fd, content, tmp, final, hash, manifest, ribs_last,
                 last_rib, crashes, faults, overlap>>

\* SegmentManifest::build reads the file under the final path.
BuildManifest(t) ==
  /\ Goto(t, "hash", "sidecar")
  /\ hash' = [hash EXCEPT ![t] = content[final]]
  /\ UNCHANGED <<fd, content, tmp, final, manifest, ribs_last, last_rib,
                 crashes, faults, overlap>>

\* Seeded fault: a sidecar that exists is left alone.
WriteSidecarOnce(t) ==
  /\ Goto(t, "sidecar", "enqueue")
  /\ manifest' = IF manifest = Nothing THEN hash[t] ELSE manifest
  /\ UNCHANGED <<fd, content, tmp, final, hash, ribs_last, last_rib, crashes,
                 faults, overlap>>

WriteSidecar(t) ==
  /\ Goto(t, "sidecar", "enqueue")
  /\ manifest' = hash[t]
  /\ UNCHANGED <<fd, content, tmp, final, hash, ribs_last, last_rib, crashes,
                 faults, overlap>>

\* enqueue_segment; Replicator models what follows.
EnqueueRib(t) ==
  /\ Goto(t, "enqueue", "last")
  /\ UNCHANGED <<fd, content, tmp, final, hash, manifest, ribs_last,
                 last_rib, crashes, faults, overlap>>

\* ribs_last, and in tick last_rib_bucket.
SetLast(t) ==
  /\ pc[t] = "last"
  /\ Return(t)
  /\ ribs_last' = t
  /\ last_rib' = (last_rib \/ t = Scheduler)
  /\ UNCHANGED <<fd, content, tmp, final, hash, manifest, crashes, faults,
                 overlap>>

\* Seeded fault: ribs_last is set before the outcome is known.
SnapshotFailsSetsLast(t) ==
  /\ faults < MaxFaults
  /\ pc[t] \in {"create", "build", "finish", "rename", "hash", "sidecar",
                "enqueue"}
  /\ faults' = faults + 1
  /\ Return(t)
  /\ ribs_last' = t
  /\ UNCHANGED <<fd, content, tmp, final, hash, manifest, last_rib, crashes,
                 overlap>>

\* A route that does not encode, or a failing file or database operation.
SnapshotFails(t) ==
  /\ faults < MaxFaults
  /\ pc[t] \in {"create", "build", "finish", "rename", "hash", "sidecar",
                "enqueue"}
  /\ faults' = faults + 1
  /\ Return(t)
  /\ UNCHANGED <<fd, content, tmp, final, hash, manifest, ribs_last,
                 last_rib, crashes, overlap>>

\* A crash loses what is in memory; cleanup_tmp_root at the restart looks at
\* the top directory only, so the temporary file stays.
CrashAndRestart ==
  /\ crashes < MaxCrashes
  /\ crashes' = crashes + 1
  /\ pc' = [t \in Tasks |-> IF t = Scheduler \/ pc[t] = "idle" THEN "idle"
                            ELSE "done"]
  /\ ribs_last' = NoTask
  /\ last_rib' = FALSE
  /\ UNCHANGED <<fd, content, tmp, final, hash, manifest, faults, overlap>>

-----------------------------------------------------------------------------
Step(t) ==
  \/ CreateTmp(t) \/ WriteRecords(t) \/ FinishEncoder(t)
  \/ Rename(t) \/ RenameFails(t) \/ BuildManifest(t) \/ WriteSidecar(t)
  \/ EnqueueRib(t) \/ SetLast(t)

Next ==
  \/ TickStarts
  \/ \E t \in Operators : CommandStarts(t)
  \/ \E t \in Tasks : Step(t) \/ SnapshotFails(t)
  \/ CrashAndRestart

Spec == Init /\ [][Next]_vars

\* Each task is polled; the ticker fires every five seconds.
FairSpec ==
  Spec /\ WF_vars(TickStarts) /\ \A t \in Tasks : WF_vars(Step(t))

-----------------------------------------------------------------------------
(* Properties.                                                             *)

\* Unless two snapshots of the interval were under way together, the file
\* under the final path is one whole snapshot, at any moment and after any
\* crash or failure: it is renamed there only when finished, and a temporary
\* file left behind by a crash is truncated first.
FinalIsWhole == ~ overlap /\ final # 0 => Whole(content[final])

\* When no snapshot is under way and every finalize got as far as its
\* sidecar, the manifest beside the file describes the file.
ManifestMatches ==
  (Busy = {} /\ crashes = 0 /\ faults = 0 /\ final # 0) =>
    manifest = content[final]

\* Snapshots that come one after the other leave file and manifest in
\* agreement.
ManifestMatchesInTurn == ~ overlap => ManifestMatches

\* ribs_last, which `archive status` reports, is a snapshot that was
\* published: the file is there, and unless snapshots overlapped the task
\* described a whole one.
LastIsPublished ==
  ribs_last # NoTask => final # 0 /\ (overlap \/ Whole(hash[ribs_last]))

\* Commands, failures and crashes that disturb the scheduler's snapshot only
\* delay it: the interval gets its snapshot.
SchedulerSucceeds == <>[]last_rib
=============================================================================
