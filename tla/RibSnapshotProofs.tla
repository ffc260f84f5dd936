------------------------- MODULE RibSnapshotProofs --------------------------
(***************************************************************************)
(* Proofs about RibSnapshot: the types, and the three invariants about the *)
(* published snapshot, for every set of control commands and any number of *)
(* crashes and failures.                                                   *)
(*                                                                         *)
(* Files are numbered in the order they are created, so a new file is none *)
(* of those there are (InodesNumbered).  The rest follows one snapshot     *)
(* through snapshot_now: which file it has open and what that file holds   *)
(* at each stage (InTurn), as long as it is the only one under way.        *)
(***************************************************************************)
EXTENDS RibSnapshot, FiniteSetTheorems, TLAPS

Contents == [Part -> Tasks \union {NoTask}]

\* The files that were ever created are numbered from 1.
InodesNumbered ==
  Cardinality(Inodes) \in Nat /\ Inodes = 1..Cardinality(Inodes)

\* The file a task writes to exists, and no file is under both paths.
FilesThere ==
  /\ \A t \in Tasks : pc[t] \in {"build", "finish"} => fd[t] \in Inodes
  /\ tmp # 0 => tmp # final
  /\ \A t \in Tasks :
       pc[t] \in {"hash", "sidecar", "enqueue", "last"} => final # 0

\* While snapshots come one after the other, at most one is under way, the
\* temporary path names the file it has open, and the file holds what it has
\* written so far.
InTurn ==
  ~ overlap =>
    /\ \A s, t \in Busy : s = t
    /\ \A t \in Tasks :
         /\ pc[t] \in {"build", "finish", "rename"} => tmp # 0
         /\ pc[t] \in {"build", "finish"} => fd[t] = tmp
         /\ pc[t] \in {"finish", "rename"} => content[tmp][1] = t
         /\ pc[t] = "rename" => content[tmp][2] = t
         /\ pc[t] \in {"sidecar", "enqueue", "last"} => Whole(hash[t])
         /\ pc[t] = "sidecar" => hash[t] = content[final]

\* The sidecar lags behind the file only between the rename and the write of
\* the sidecar.
ManifestFollows ==
  ~ overlap /\ crashes = 0 /\ faults = 0 /\ final # 0 =>
    \/ \E t \in Tasks : pc[t] \in {"hash", "sidecar"}
    \/ manifest = content[final]

SnapshotInv ==
  /\ TypeOK /\ InodesNumbered /\ FilesThere
  /\ InTurn /\ FinalIsWhole /\ ManifestFollows /\ LastIsPublished

-----------------------------------------------------------------------------
(* The types.                                                              *)

\* The inode of a file that CreateTmp makes is a new one.
LEMMA NewInodeIsNew ==
  ASSUME InodesNumbered
  PROVE  /\ NewInode \in Nat \ {0} /\ NewInode \notin Inodes
         /\ Inodes \union {NewInode} = 1..NewInode
         /\ Cardinality(1..NewInode) = NewInode
<1> DEFINE c == Cardinality(Inodes)
<1>1. c \in Nat /\ Inodes = 1..c
  BY DEF InodesNumbered
<1> HIDE DEF c
<1>2. NewInode = c + 1
  BY DEF NewInode, c
<1>3. Cardinality(1..(c + 1)) = c + 1
  BY <1>1, FS_Interval
<1> QED
  BY <1>1, <1>2, <1>3

\* What CreateTmp does to the file the temporary path then names.
LEMMA CreateTmpFile ==
  ASSUME TypeOK, InodesNumbered, NEW t \in Tasks, CreateTmp(t)
  PROVE  /\ tmp' \in Nat \ {0} /\ tmp' \in Inodes'
         /\ fd' = [fd EXCEPT ![t] = tmp']
         /\ Inodes' = Inodes \union {tmp'}
         /\ content'[tmp'] = Nothing
         /\ \A j \in Inodes : j # tmp' => content'[j] = content[j]
         /\ tmp = 0 => tmp' \notin Inodes
         /\ tmp # 0 => tmp' = tmp
         /\ content' \in [Inodes' -> Contents]
         /\ InodesNumbered'
<1> PICK i : /\ i = IF tmp = 0 THEN NewInode ELSE tmp
             /\ tmp' = i /\ fd' = [fd EXCEPT ![t] = i]
             /\ content' = [j \in Inodes \union {i} |->
                              IF j = i THEN Nothing ELSE content[j]]
  BY DEF CreateTmp
<1>1. i \in Nat \ {0}
  BY NewInodeIsNew DEF TypeOK, InodesNumbered
<1>2. Inodes' = Inodes \union {i}
  BY DEF Inodes
<1>3. InodesNumbered'
  <2>1. CASE tmp = 0
    BY <1>2, <2>1, NewInodeIsNew DEF InodesNumbered
  <2>2. CASE tmp # 0
    <3>1. Inodes' = Inodes
      BY <1>2, <2>2 DEF TypeOK
    <3> QED
      BY <3>1 DEF InodesNumbered
  <2> QED
    BY <2>1, <2>2
<1>4. content' \in [Inodes' -> Contents]
  BY <1>2 DEF TypeOK, Contents, Nothing
<1>5. tmp = 0 => tmp' \notin Inodes
  BY NewInodeIsNew
<1> QED
  BY <1>1, <1>2, <1>3, <1>4, <1>5

\* What writing a part does to the files.
LEMMA WritePartFile ==
  ASSUME TypeOK, NEW t \in Tasks, NEW k \in Part, fd[t] \in Inodes,
         WritePart(t, k)
  PROVE  /\ Inodes' = Inodes /\ content' \in [Inodes' -> Contents]
         /\ content'[fd[t]] = [content[fd[t]] EXCEPT ![k] = t]
         /\ \A j \in Inodes : j # fd[t] => content'[j] = content[j]
<1>1. content \in [Inodes -> Contents]
  BY DEF TypeOK, Contents
<1>2. content' = [content EXCEPT ![fd[t]] = [content[fd[t]] EXCEPT ![k] = t]]
  BY DEF WritePart
<1>3. [content[fd[t]] EXCEPT ![k] = t] \in Contents
  BY <1>1 DEF Contents
<1>4. Inodes' = Inodes
  BY <1>1, <1>2 DEF Inodes
<1> QED
  BY <1>1, <1>2, <1>3, <1>4

-----------------------------------------------------------------------------
(* One step of a task or of the daemon.                                    *)

\* A task that writes, and is alone, does not write to the published file.
LEMMA FinalKept ==
  ASSUME TypeOK, FilesThere, InTurn, NEW t \in Tasks,
         WriteRecords(t) \/ FinishEncoder(t), ~ overlap, final # 0
  PROVE  content'[final] = content[final]
<1>1. pc[t] \in {"build", "finish"}
  BY DEF WriteRecords, FinishEncoder, Goto
<1>2. fd[t] \in Inodes /\ fd[t] # final
  BY <1>1 DEF FilesThere, InTurn
<1>3. WritePart(t, 1) \/ WritePart(t, 2)
  BY DEF WriteRecords, FinishEncoder
<1>4. \A j \in Inodes : j # fd[t] => content'[j] = content[j]
  BY <1>2, <1>3, WritePartFile DEF Part
<1> QED
  BY <1>2, <1>4 DEF TypeOK

\* Files stay numbered and everything keeps its type.
LEMMA NextTypes ==
  ASSUME TypeOK, InodesNumbered, FilesThere, [Next]_vars
  PROVE  TypeOK' /\ InodesNumbered'
<1> USE DEF Goto, Return
<1>1. CASE TickStarts
  BY <1>1 DEF TickStarts, TypeOK, Inodes, InodesNumbered, Tasks
<1>2. CASE \E t \in Operators : CommandStarts(t)
  BY <1>2 DEF CommandStarts, TypeOK, Inodes, InodesNumbered, Tasks
<1>3. ASSUME NEW t \in Tasks, CreateTmp(t)
      PROVE  TypeOK' /\ InodesNumbered'
  <2>1. InodesNumbered'
    BY <1>3, CreateTmpFile
  <2>2. final \in Inodes' \union {0} /\ tmp' \in Inodes' \union {0}
    BY <1>3, CreateTmpFile DEF TypeOK, CreateTmp
  <2>3. fd' \in [Tasks -> Nat]
    BY <1>3, CreateTmpFile DEF TypeOK
  <2>4. content' \in [Inodes' -> Contents]
    BY <1>3, CreateTmpFile
  <2> QED
    BY <1>3, <2>1, <2>2, <2>3, <2>4 DEF CreateTmp, TypeOK, Contents
<1>4. ASSUME NEW t \in Tasks, WriteRecords(t)
      PROVE  TypeOK' /\ InodesNumbered'
  <2>1. /\ Inodes' = Inodes /\ content' \in [Inodes' -> Contents]
    BY <1>4, WritePartFile DEF WriteRecords, FilesThere, Part
  <2> QED
    BY <1>4, <2>1 DEF WriteRecords, TypeOK, InodesNumbered, Contents
<1>5. ASSUME NEW t \in Tasks, FinishEncoder(t)
      PROVE  TypeOK' /\ InodesNumbered'
  <2>1. /\ Inodes' = Inodes /\ content' \in [Inodes' -> Contents]
    BY <1>5, WritePartFile DEF FinishEncoder, FilesThere, Part
  <2> QED
    BY <1>5, <2>1 DEF FinishEncoder, TypeOK, InodesNumbered, Contents
<1>6. ASSUME NEW t \in Tasks, Rename(t)
      PROVE  TypeOK' /\ InodesNumbered'
  BY <1>6 DEF Rename, TypeOK, Inodes, InodesNumbered, Tasks
<1>7. ASSUME NEW t \in Tasks, RenameFails(t)
      PROVE  TypeOK' /\ InodesNumbered'
  BY <1>7 DEF RenameFails, TypeOK, Inodes, InodesNumbered, Tasks
<1>8. ASSUME NEW t \in Tasks, BuildManifest(t)
      PROVE  TypeOK' /\ InodesNumbered'
  <2>1. final \in Inodes
    BY <1>8 DEF BuildManifest, FilesThere, TypeOK
  <2>2. content[final] \in [Part -> Tasks \union {NoTask}]
    BY <2>1 DEF TypeOK
  <2>3. Inodes' = Inodes
    BY <1>8 DEF BuildManifest, Inodes
  <2> QED
    BY <1>8, <2>2, <2>3 DEF BuildManifest, TypeOK, InodesNumbered
<1>9. ASSUME NEW t \in Tasks, WriteSidecar(t)
      PROVE  TypeOK' /\ InodesNumbered'
  BY <1>9 DEF WriteSidecar, TypeOK, Inodes, InodesNumbered, Tasks
<1>10. ASSUME NEW t \in Tasks, EnqueueRib(t)
      PROVE  TypeOK' /\ InodesNumbered'
  BY <1>10 DEF EnqueueRib, TypeOK, Inodes, InodesNumbered, Tasks
<1>11. ASSUME NEW t \in Tasks, SetLast(t)
      PROVE  TypeOK' /\ InodesNumbered'
  BY <1>11 DEF SetLast, TypeOK, Inodes, InodesNumbered, Tasks
<1>12. ASSUME NEW t \in Tasks, SnapshotFails(t)
      PROVE  TypeOK' /\ InodesNumbered'
  BY <1>12, SnapshotBounds DEF SnapshotFails, TypeOK, Inodes, InodesNumbered
<1>13. CASE CrashAndRestart
  <2>1. pc' \in [Tasks -> {"idle", "done"}] /\ crashes' \in 0..MaxCrashes
    BY <1>13, SnapshotBounds DEF CrashAndRestart, TypeOK
  <2>2. Inodes' = Inodes
    BY <1>13 DEF CrashAndRestart, Inodes
  <2> QED
    BY <1>13, <2>1, <2>2 DEF CrashAndRestart, TypeOK, InodesNumbered
<1>14. CASE UNCHANGED vars
  BY <1>14 DEF vars, TypeOK, Inodes, InodesNumbered, Tasks
<1> QED
  BY <1>1, <1>2, <1>3, <1>4, <1>5, <1>6, <1>7, <1>8, <1>9, <1>10, <1>11,
     <1>12, <1>13, <1>14
     DEF Next, Step

\* The files stay where the tasks expect them.
LEMMA NextFilesThere ==
  ASSUME TypeOK, InodesNumbered, FilesThere, [Next]_vars
  PROVE  FilesThere'
<1> USE DEF Goto, Return, Inodes
<1>1. CASE TickStarts
  BY <1>1 DEF TickStarts, FilesThere, TypeOK, Tasks
<1>2. CASE \E t \in Operators : CommandStarts(t)
  BY <1>2 DEF CommandStarts, FilesThere, TypeOK, Tasks
<1>3. ASSUME NEW t \in Tasks, CreateTmp(t)
      PROVE  FilesThere'
  <2>1. tmp' # final /\ (\A j \in Inodes : j \in Inodes')
    BY <1>3, CreateTmpFile DEF TypeOK, FilesThere
  <2> QED
    BY <1>3, <2>1, CreateTmpFile DEF CreateTmp, TypeOK, FilesThere
<1>4. ASSUME NEW t \in Tasks, WriteRecords(t)
      PROVE  FilesThere'
  BY <1>4, WritePartFile DEF WriteRecords, FilesThere, TypeOK, Part
<1>5. ASSUME NEW t \in Tasks, FinishEncoder(t)
      PROVE  FilesThere'
  BY <1>5, WritePartFile DEF FinishEncoder, FilesThere, TypeOK, Part
<1>6. ASSUME NEW t \in Tasks, Rename(t)
      PROVE  FilesThere'
  BY <1>6 DEF Rename, FilesThere, TypeOK, Tasks
<1>7. ASSUME NEW t \in Tasks, RenameFails(t)
      PROVE  FilesThere'
  BY <1>7 DEF RenameFails, FilesThere, TypeOK, Tasks
<1>8. ASSUME NEW t \in Tasks, BuildManifest(t)
      PROVE  FilesThere'
  BY <1>8 DEF BuildManifest, FilesThere, TypeOK, Tasks
<1>9. ASSUME NEW t \in Tasks, WriteSidecar(t)
      PROVE  FilesThere'
  BY <1>9 DEF WriteSidecar, FilesThere, TypeOK, Tasks
<1>10. ASSUME NEW t \in Tasks, EnqueueRib(t)
      PROVE  FilesThere'
  BY <1>10 DEF EnqueueRib, FilesThere, TypeOK, Tasks
<1>11. ASSUME NEW t \in Tasks, SetLast(t)
      PROVE  FilesThere'
  BY <1>11 DEF SetLast, FilesThere, TypeOK, Tasks
<1>12. ASSUME NEW t \in Tasks, SnapshotFails(t)
      PROVE  FilesThere'
  BY <1>12 DEF SnapshotFails, FilesThere, TypeOK, Tasks
<1>13. CASE CrashAndRestart
  BY <1>13 DEF CrashAndRestart, FilesThere, TypeOK, Tasks
<1>14. CASE UNCHANGED vars
  BY <1>14 DEF vars, FilesThere, TypeOK, Tasks
<1> QED
  BY <1>1, <1>2, <1>3, <1>4, <1>5, <1>6, <1>7, <1>8, <1>9, <1>10, <1>11,
     <1>12, <1>13, <1>14
     DEF Next, Step

\* A snapshot that is alone writes to the file under the temporary path.
LEMMA NextInTurn ==
  ASSUME TypeOK, InodesNumbered, FilesThere, InTurn, FinalIsWhole, [Next]_vars
  PROVE  InTurn'
<1> USE DEF Goto, Return, Busy
<1>1. CASE TickStarts
  BY <1>1, TasksAssumption DEF TickStarts, InTurn, TypeOK, Tasks
<1>2. CASE \E t \in Operators : CommandStarts(t)
  <2>1. PICK t \in Tasks : CommandStarts(t)
    BY <1>2 DEF Tasks
  <2>2. ~ overlap' =>
          /\ ~ overlap
          /\ \A s \in Tasks : IF s = t THEN pc'[s] = "create"
                               ELSE pc'[s] \in {"idle", "done"}
    BY <2>1 DEF CommandStarts, TypeOK
  <2> QED
    BY <2>1, <2>2 DEF CommandStarts, TypeOK, InTurn
<1>3. ASSUME NEW t \in Tasks, CreateTmp(t)
      PROVE  InTurn'
  <2>1. tmp' # 0 /\ fd'[t] = tmp'
    BY <1>3, CreateTmpFile DEF TypeOK
  <2>2. ~ overlap => \A s \in Tasks : s # t => pc'[s] \in {"idle", "done"}
    BY <1>3 DEF CreateTmp, InTurn, TypeOK
  <2> QED
    BY <1>3, <2>1, <2>2 DEF CreateTmp, TypeOK, InTurn
<1>4. ASSUME NEW t \in Tasks, WriteRecords(t)
      PROVE  InTurn'
  <2>1. ~ overlap => content'[tmp] = [content[tmp] EXCEPT ![1] = t]
    BY <1>4, WritePartFile DEF WriteRecords, FilesThere, InTurn, Part
  <2>2. ~ overlap => content'[tmp][1] = t
    BY <1>4, <2>1 DEF WriteRecords, FilesThere, InTurn, TypeOK, Part
  <2> QED
    BY <1>4, <2>2 DEF WriteRecords, TypeOK, InTurn
<1>5. ASSUME NEW t \in Tasks, FinishEncoder(t)
      PROVE  InTurn'
  <2>1. ~ overlap => content'[tmp] = [content[tmp] EXCEPT ![2] = t]
    BY <1>5, WritePartFile DEF FinishEncoder, FilesThere, InTurn, Part
  <2>2. ~ overlap => content'[tmp][1] = t /\ content'[tmp][2] = t
    BY <1>5, <2>1 DEF FinishEncoder, FilesThere, InTurn, TypeOK, Part
  <2> QED
    BY <1>5, <2>2 DEF FinishEncoder, TypeOK, InTurn
<1>6. ASSUME NEW t \in Tasks, Rename(t)
      PROVE  InTurn'
  BY <1>6, TasksAssumption DEF Rename, InTurn, TypeOK, Tasks
<1>7. ASSUME NEW t \in Tasks, RenameFails(t)
      PROVE  InTurn'
  BY <1>7, TasksAssumption DEF RenameFails, InTurn, TypeOK, Tasks
<1>8. ASSUME NEW t \in Tasks, BuildManifest(t)
      PROVE  InTurn'
  <2>1. ~ overlap => Whole(content[final])
    BY <1>8 DEF BuildManifest, FilesThere, FinalIsWhole
  <2>2. hash'[t] = content[final]
    BY <1>8 DEF BuildManifest, TypeOK
  <2>3. ~ overlap => Whole(hash'[t])
    BY <2>1, <2>2
  <2> QED
    BY <1>8, <2>2, <2>3 DEF BuildManifest, TypeOK, InTurn
<1>9. ASSUME NEW t \in Tasks, WriteSidecar(t)
      PROVE  InTurn'
  BY <1>9, TasksAssumption DEF WriteSidecar, InTurn, TypeOK, Tasks
<1>10. ASSUME NEW t \in Tasks, EnqueueRib(t)
      PROVE  InTurn'
  BY <1>10, TasksAssumption DEF EnqueueRib, InTurn, TypeOK, Tasks
<1>11. ASSUME NEW t \in Tasks, SetLast(t)
      PROVE  InTurn'
  BY <1>11, TasksAssumption DEF SetLast, InTurn, TypeOK, Tasks
<1>12. ASSUME NEW t \in Tasks, SnapshotFails(t)
      PROVE  InTurn'
  BY <1>12, TasksAssumption DEF SnapshotFails, InTurn, TypeOK, Tasks
<1>13. CASE CrashAndRestart
  BY <1>13, TasksAssumption DEF CrashAndRestart, InTurn, TypeOK, Tasks
<1>14. CASE UNCHANGED vars
  BY <1>14, TasksAssumption DEF vars, InTurn, TypeOK, Tasks
<1> QED
  BY <1>1, <1>2, <1>3, <1>4, <1>5, <1>6, <1>7, <1>8, <1>9, <1>10, <1>11,
     <1>12, <1>13, <1>14
     DEF Next, Step

\* What is renamed is whole, and nobody writes to it afterwards.
LEMMA NextFinalIsWhole ==
  ASSUME TypeOK, InodesNumbered, FilesThere, InTurn, FinalIsWhole, [Next]_vars
  PROVE  FinalIsWhole'
<1> USE DEF Goto, Return
<1>1. CASE TickStarts
  BY <1>1, TasksAssumption DEF TickStarts, FinalIsWhole, Whole, InTurn, Tasks
<1>2. CASE \E t \in Operators : CommandStarts(t)
  BY <1>2, TasksAssumption
     DEF CommandStarts, FinalIsWhole, Whole, InTurn, Tasks
<1>3. ASSUME NEW t \in Tasks, CreateTmp(t)
      PROVE  FinalIsWhole'
  <2>1. final # 0 => content'[final] = content[final]
    BY <1>3, CreateTmpFile DEF TypeOK, FilesThere
  <2> QED
    BY <1>3, <2>1 DEF CreateTmp, FinalIsWhole, Whole
<1>4. ASSUME NEW t \in Tasks, WriteRecords(t)
      PROVE  FinalIsWhole'
  <2>1. ~ overlap /\ final # 0 => content'[final] = content[final]
    BY <1>4, FinalKept
  <2> QED
    BY <1>4, <2>1 DEF WriteRecords, FinalIsWhole, Whole
<1>5. ASSUME NEW t \in Tasks, FinishEncoder(t)
      PROVE  FinalIsWhole'
  <2>1. ~ overlap /\ final # 0 => content'[final] = content[final]
    BY <1>5, FinalKept
  <2> QED
    BY <1>5, <2>1 DEF FinishEncoder, FinalIsWhole, Whole
<1>6. ASSUME NEW t \in Tasks, Rename(t)
      PROVE  FinalIsWhole'
  BY <1>6, TasksAssumption DEF Rename, FinalIsWhole, Whole, InTurn, Tasks
<1>7. ASSUME NEW t \in Tasks, RenameFails(t)
      PROVE  FinalIsWhole'
  BY <1>7, TasksAssumption DEF RenameFails, FinalIsWhole, Whole, InTurn, Tasks
<1>8. ASSUME NEW t \in Tasks, BuildManifest(t)
      PROVE  FinalIsWhole'
  BY <1>8, TasksAssumption
     DEF BuildManifest, FinalIsWhole, Whole, InTurn, Tasks
<1>9. ASSUME NEW t \in Tasks, WriteSidecar(t)
      PROVE  FinalIsWhole'
  BY <1>9, TasksAssumption
     DEF WriteSidecar, FinalIsWhole, Whole, InTurn, Tasks
<1>10. ASSUME NEW t \in Tasks, EnqueueRib(t)
      PROVE  FinalIsWhole'
  BY <1>10, TasksAssumption DEF EnqueueRib, FinalIsWhole, Whole, InTurn, Tasks
<1>11. ASSUME NEW t \in Tasks, SetLast(t)
      PROVE  FinalIsWhole'
  BY <1>11, TasksAssumption DEF SetLast, FinalIsWhole, Whole, InTurn, Tasks
<1>12. ASSUME NEW t \in Tasks, SnapshotFails(t)
      PROVE  FinalIsWhole'
  BY <1>12, TasksAssumption
     DEF SnapshotFails, FinalIsWhole, Whole, InTurn, Tasks
<1>13. CASE CrashAndRestart
  BY <1>13, TasksAssumption
     DEF CrashAndRestart, FinalIsWhole, Whole, InTurn, Tasks
<1>14. CASE UNCHANGED vars
  BY <1>14, TasksAssumption DEF vars, FinalIsWhole, Whole, InTurn, Tasks
<1> QED
  BY <1>1, <1>2, <1>3, <1>4, <1>5, <1>6, <1>7, <1>8, <1>9, <1>10, <1>11,
     <1>12, <1>13, <1>14
     DEF Next, Step

\* Snapshots in turn each bring the sidecar up to date.
LEMMA NextManifestFollows ==
  ASSUME TypeOK, InodesNumbered, FilesThere, InTurn, ManifestFollows,
         [Next]_vars
  PROVE  ManifestFollows'
<1> USE DEF Goto, Return
<1>1. CASE TickStarts
  BY <1>1, TasksAssumption, SnapshotBounds
     DEF TickStarts, ManifestFollows, TypeOK, InTurn, Busy, Tasks
<1>2. CASE \E t \in Operators : CommandStarts(t)
  BY <1>2, TasksAssumption, SnapshotBounds
     DEF CommandStarts, ManifestFollows, TypeOK, InTurn, Busy, Tasks
<1>3. ASSUME NEW t \in Tasks, CreateTmp(t)
      PROVE  ManifestFollows'
  <2>1. final # 0 => content'[final] = content[final]
    BY <1>3, CreateTmpFile DEF TypeOK, FilesThere
  <2> QED
    BY <1>3, <2>1 DEF CreateTmp, ManifestFollows, TypeOK
<1>4. ASSUME NEW t \in Tasks, WriteRecords(t)
      PROVE  ManifestFollows'
  <2>1. ~ overlap /\ final # 0 => content'[final] = content[final]
    BY <1>4, FinalKept
  <2> QED
    BY <1>4, <2>1 DEF WriteRecords, ManifestFollows, TypeOK
<1>5. ASSUME NEW t \in Tasks, FinishEncoder(t)
      PROVE  ManifestFollows'
  <2>1. ~ overlap /\ final # 0 => content'[final] = content[final]
    BY <1>5, FinalKept
  <2> QED
    BY <1>5, <2>1 DEF FinishEncoder, ManifestFollows, TypeOK
<1>6. ASSUME NEW t \in Tasks, Rename(t)
      PROVE  ManifestFollows'
  BY <1>6, TasksAssumption, SnapshotBounds
     DEF Rename, ManifestFollows, TypeOK, InTurn, Busy, Tasks
<1>7. ASSUME NEW t \in Tasks, RenameFails(t)
      PROVE  ManifestFollows'
  BY <1>7, TasksAssumption, SnapshotBounds
     DEF RenameFails, ManifestFollows, TypeOK, InTurn, Busy, Tasks
<1>8. ASSUME NEW t \in Tasks, BuildManifest(t)
      PROVE  ManifestFollows'
  BY <1>8, TasksAssumption, SnapshotBounds
     DEF BuildManifest, ManifestFollows, TypeOK, InTurn, Busy, Tasks
<1>9. ASSUME NEW t \in Tasks, WriteSidecar(t)
      PROVE  ManifestFollows'
  BY <1>9, TasksAssumption, SnapshotBounds
     DEF WriteSidecar, ManifestFollows, TypeOK, InTurn, Busy, Tasks
<1>10. ASSUME NEW t \in Tasks, EnqueueRib(t)
      PROVE  ManifestFollows'
  BY <1>10, TasksAssumption, SnapshotBounds
     DEF EnqueueRib, ManifestFollows, TypeOK, InTurn, Busy, Tasks
<1>11. ASSUME NEW t \in Tasks, SetLast(t)
      PROVE  ManifestFollows'
  BY <1>11, TasksAssumption, SnapshotBounds
     DEF SetLast, ManifestFollows, TypeOK, InTurn, Busy, Tasks
<1>12. ASSUME NEW t \in Tasks, SnapshotFails(t)
      PROVE  ManifestFollows'
  BY <1>12, TasksAssumption, SnapshotBounds
     DEF SnapshotFails, ManifestFollows, TypeOK, InTurn, Busy, Tasks
<1>13. CASE CrashAndRestart
  BY <1>13, TasksAssumption, SnapshotBounds
     DEF CrashAndRestart, ManifestFollows, TypeOK, InTurn, Busy, Tasks
<1>14. CASE UNCHANGED vars
  BY <1>14, TasksAssumption, SnapshotBounds
     DEF vars, ManifestFollows, TypeOK, InTurn, Busy, Tasks
<1> QED
  BY <1>1, <1>2, <1>3, <1>4, <1>5, <1>6, <1>7, <1>8, <1>9, <1>10, <1>11,
     <1>12, <1>13, <1>14
     DEF Next, Step

\* ribs_last names a snapshot that got to the end.
LEMMA NextLastIsPublished ==
  ASSUME TypeOK, InodesNumbered, FilesThere, InTurn, FinalIsWhole,
         LastIsPublished, [Next]_vars
  PROVE  LastIsPublished'
<1> USE DEF Goto, Return
<1>1. CASE TickStarts
  BY <1>1, TasksAssumption
     DEF TickStarts, LastIsPublished, TypeOK, InTurn, FilesThere, Tasks
<1>2. CASE \E t \in Operators : CommandStarts(t)
  BY <1>2, TasksAssumption
     DEF CommandStarts, LastIsPublished, TypeOK, InTurn, FilesThere, Tasks
<1>3. ASSUME NEW t \in Tasks, CreateTmp(t)
      PROVE  LastIsPublished'
  BY <1>3, TasksAssumption
     DEF CreateTmp, LastIsPublished, TypeOK, InTurn, FilesThere, Tasks
<1>4. ASSUME NEW t \in Tasks, WriteRecords(t)
      PROVE  LastIsPublished'
  BY <1>4, TasksAssumption
     DEF WriteRecords, LastIsPublished, TypeOK, InTurn, FilesThere, Tasks
<1>5. ASSUME NEW t \in Tasks, FinishEncoder(t)
      PROVE  LastIsPublished'
  BY <1>5, TasksAssumption
     DEF FinishEncoder, LastIsPublished, TypeOK, InTurn, FilesThere, Tasks
<1>6. ASSUME NEW t \in Tasks, Rename(t)
      PROVE  LastIsPublished'
  BY <1>6, TasksAssumption
     DEF Rename, LastIsPublished, TypeOK, InTurn, FilesThere, Tasks
<1>7. ASSUME NEW t \in Tasks, RenameFails(t)
      PROVE  LastIsPublished'
  BY <1>7, TasksAssumption
     DEF RenameFails, LastIsPublished, TypeOK, InTurn, FilesThere, Tasks
<1>8. ASSUME NEW t \in Tasks, BuildManifest(t)
      PROVE  LastIsPublished'
  <2>1. final # 0 /\ (overlap \/ Whole(content[final]))
    BY <1>8 DEF BuildManifest, FilesThere, FinalIsWhole
  <2>2. \A s \in Tasks : hash'[s] = IF s = t THEN content[final] ELSE hash[s]
    BY <1>8 DEF BuildManifest, TypeOK
  <2> QED
    BY <1>8, <2>1, <2>2 DEF BuildManifest, TypeOK, LastIsPublished
<1>9. ASSUME NEW t \in Tasks, WriteSidecar(t)
      PROVE  LastIsPublished'
  BY <1>9, TasksAssumption
     DEF WriteSidecar, LastIsPublished, TypeOK, InTurn, FilesThere, Tasks
<1>10. ASSUME NEW t \in Tasks, EnqueueRib(t)
      PROVE  LastIsPublished'
  BY <1>10, TasksAssumption
     DEF EnqueueRib, LastIsPublished, TypeOK, InTurn, FilesThere, Tasks
<1>11. ASSUME NEW t \in Tasks, SetLast(t)
      PROVE  LastIsPublished'
  BY <1>11, TasksAssumption
     DEF SetLast, LastIsPublished, TypeOK, InTurn, FilesThere, Tasks
<1>12. ASSUME NEW t \in Tasks, SnapshotFails(t)
      PROVE  LastIsPublished'
  BY <1>12, TasksAssumption
     DEF SnapshotFails, LastIsPublished, TypeOK, InTurn, FilesThere, Tasks
<1>13. CASE CrashAndRestart
  BY <1>13, TasksAssumption
     DEF CrashAndRestart, LastIsPublished, TypeOK, InTurn, FilesThere, Tasks
<1>14. CASE UNCHANGED vars
  BY <1>14, TasksAssumption
     DEF vars, LastIsPublished, TypeOK, InTurn, FilesThere, Tasks
<1> QED
  BY <1>1, <1>2, <1>3, <1>4, <1>5, <1>6, <1>7, <1>8, <1>9, <1>10, <1>11,
     <1>12, <1>13, <1>14
     DEF Next, Step

-----------------------------------------------------------------------------
(* The theorems.                                                           *)

LEMMA SnapshotInvariant == Spec => []SnapshotInv
<1>1. Init => SnapshotInv
  <2> SUFFICES ASSUME Init PROVE SnapshotInv
    OBVIOUS
  <2>1. Inodes = {}
    BY DEF Init, Inodes
  <2>2. Inodes = 1..0 /\ Cardinality(Inodes) = 0
    BY <2>1, FS_EmptySet
  <2>3. content \in [Inodes -> [Part -> Tasks \union {NoTask}]]
    <3>1. \A S : [i \in {} |-> Nothing] \in [{} -> S]
      OBVIOUS
    <3> QED
      BY <2>1, <3>1 DEF Init
  <2>4. TypeOK
    <3>1. Nothing \in [Part -> Tasks \union {NoTask}]
      BY DEF Nothing
    <3>2. /\ pc \in [Tasks -> {"idle", "create", "build", "finish", "rename",
                          "hash", "sidecar", "enqueue", "last", "done"}]
          /\ fd \in [Tasks -> Nat]
          /\ hash \in [Tasks -> [Part -> Tasks \union {NoTask}]]
      BY <3>1 DEF Init
    <3>3. /\ manifest \in [Part -> Tasks \union {NoTask}]
          /\ {tmp, final} \subseteq Inodes \union {0}
          /\ ribs_last \in Tasks \union {NoTask}
          /\ last_rib \in BOOLEAN /\ overlap \in BOOLEAN
      BY <3>1 DEF Init
    <3>4. crashes \in 0..MaxCrashes /\ faults \in 0..MaxFaults
      BY SnapshotBounds DEF Init
    <3> QED
      BY <2>3, <3>2, <3>3, <3>4 DEF TypeOK
  <2> QED
    BY <2>2, <2>4, TasksAssumption
       DEF Init, SnapshotInv, InodesNumbered, FilesThere, InTurn,
           FinalIsWhole,
           ManifestFollows, LastIsPublished, Busy
<1>2. SnapshotInv /\ [Next]_vars => SnapshotInv'
  BY NextTypes, NextFilesThere, NextInTurn, NextFinalIsWhole,
     NextManifestFollows, NextLastIsPublished DEF SnapshotInv
<1> QED
  BY <1>1, <1>2, PTL DEF Spec

\* Every variable of snapshot_now's model keeps its type.
THEOREM SnapshotTypeCorrect == Spec => []TypeOK
BY SnapshotInvariant, PTL DEF SnapshotInv

\* The file under the final path is one whole snapshot, unless snapshots of
\* the interval overlapped: after any number of crashes and failures, and for
\* any number of `archive snapshot` commands (snapshot_now's write to a
\* temporary file, finish and rename).
THEOREM SnapshotIsWhole == Spec => []FinalIsWhole
BY SnapshotInvariant, PTL DEF SnapshotInv

\* Snapshots that come one after the other leave file and sidecar in
\* agreement (finalize's rename, SegmentManifest::build and write).
THEOREM SidecarMatches == Spec => []ManifestMatchesInTurn
<1>1. SnapshotInv => ManifestMatchesInTurn
  BY DEF SnapshotInv, ManifestFollows, ManifestMatchesInTurn, ManifestMatches,
         Busy
<1> QED
  BY <1>1, SnapshotInvariant, PTL

\* What `archive status` reports as the last snapshot was published (ribs_last
\* is set only once snapshot_now has got to its end).
THEOREM StatusIsPublished == Spec => []LastIsPublished
BY SnapshotInvariant, PTL DEF SnapshotInv
=============================================================================
