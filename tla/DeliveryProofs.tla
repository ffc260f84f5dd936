--------------------------- MODULE DeliveryProofs ---------------------------
(* Replicator implements Delivery, and keeps retry budgets, for every set   *)
(* of paths and destinations, configurations, budgets and faults.  The      *)
(* invariants both rest on are in ReplicatorProofs.                         *)
EXTENDS ReplicatorProofs

-----------------------------------------------------------------------------
(* The refinement.  Replace is FinalizeRename, Ask is EnqueueSegment, Touch *)
(* is a local OpenSegment or a CopySegment, Settle is the JobSucceeds of    *)
(* the last row of a segment and destination; every other step stutters.   *)

\* The inductive invariant of the queue's promise, as an invariant of Spec.
LEMMA CoverInvariant == Spec => []CoverInv
<1>1. CoverInv /\ [Next]_vars => CoverInv'
  BY NextTypeOK, NextClaimedCopyFresh, NextEnqueuedBound, NextSourceBound,
     NextSegmentOwed DEF CoverInv
<1> QED
  BY <1>1, InitCoverInv, PTL DEF Spec

\* No row comes or goes but by an enqueueing or a success.
LEMMA DomainKept ==
  ASSUME [Next]_vars, ~ JobSucceeds,
         ~ \E p \in Paths, d \in Destinations : EnqueueSegment(p, d)
  PROVE  DOMAIN queue' = DOMAIN queue
<1> USE DEF publishVars, runVars, queueVars
<1>1. CASE ClaimReady
  BY <1>1 DEF ClaimReady, MarkInProgress
<1>2. CASE JobFails
  BY <1>2 DEF JobFails, MarkFailed
<1>3. CASE RetryFailed
  BY <1>3 DEF RetryFailed, RetryFailedRows
<1>4. CASE \E i \in DOMAIN queue : BackoffElapses(i)
  BY <1>4 DEF BackoffElapses, BackoffOver
<1>5. CASE UNCHANGED queue
  BY <1>5
<1> QED
  BY <1>1, <1>2, <1>3, <1>4, <1>5
     DEF Next, Publish, RunOnce, FinalizeRename, BeginSidecar, EndSidecar,
         FinalizeFails, EnqueueFails, NextJob, OpenSegment, PrepareFails,
         CopySegment, OpenManifest, CopyManifest, CopyFails, MarkError, Crash,
         Restart, vars

\* So the other steps leave what is owed as it is.
LEMMA OwedKept ==
  ASSUME TypeOK, [Next]_vars, ~ JobSucceeds,
         ~ \E p \in Paths, d \in Destinations : EnqueueSegment(p, d),
         NEW d \in Destinations, NEW p \in Paths
  PROVE  HasRow(d, p)' = HasRow(d, p)
BY DomainKept, NextKeepsRows DEF RowsKept, HasRow

\* A step that changes none of the four mapped values is a stutter.
LEMMA Stutter ==
  ASSUME \A p \in Paths : primary'[p].seg = primary[p].seg,
         enqueued' = enqueued,
         \A d \in Destinations, p \in Paths :
           /\ HasRow(d, p)' = HasRow(d, p)
           /\ replica'[d][p].seg = replica[d][p].seg
  PROVE  UNCHANGED Contract!vars
BY DEF Contract!vars

\* A rename is a new latest content and nothing else.
LEMMA RenameReplaces ==
  ASSUME TypeOK, [Next]_vars, NEW p \in Paths, FinalizeRename(p)
  PROVE  Contract!Replace(p)
<1>1. ~ JobSucceeds /\ ~ \E q \in Paths, d \in Destinations : EnqueueSegment(q, d)
  BY DEF FinalizeRename, JobSucceeds, EnqueueSegment, publishVars, Pair, TypeOK
<1>2. \A d \in Destinations, q \in Paths : HasRow(d, q)' = HasRow(d, q)
  BY <1>1, OwedKept
<1>3. UNCHANGED <<enqueued, replica>>
  BY DEF FinalizeRename
<1>4. \A q \in Paths : primary'[q].seg = IF q = p THEN primary[q].seg + 1
                                         ELSE primary[q].seg
  BY DEF FinalizeRename, TypeOK, Pair
<1> QED
  BY <1>2, <1>3, <1>4 DEF Contract!Replace

\* An enqueueing asks for the content that is latest.
LEMMA EnqueueAsks ==
  ASSUME TypeOK, [Next]_vars, NEW p \in Paths, NEW d \in Destinations,
         EnqueueSegment(p, d)
  PROVE  Contract!Ask(d, p)
<1>1. UNCHANGED <<primary, replica>>
  BY DEF EnqueueSegment
<1>2. enqueued' = [enqueued EXCEPT ![d][p] = primary[p].seg]
  BY DEF EnqueueSegment
<1>3. \A e \in Destinations, q \in Paths :
        HasRow(e, q)' = (HasRow(e, q) \/ (e = d /\ q = p))
  <2>1. next_id \notin DOMAIN queue
    BY DEF TypeOK, QueueTypeOK
  <2> QED
    BY <2>1 DEF EnqueueSegment, Enqueue, HasRow
<1>4. ASSUME NEW e \in Destinations, NEW q \in Paths
      PROVE  /\ e = d /\ q = p => HasRow(e, q)' = TRUE
             /\ ~(e = d /\ q = p) => HasRow(e, q)' = HasRow(e, q)
  BY <1>3 DEF HasRow
<1>5. [e \in Destinations |-> [q \in Paths |-> HasRow(e, q)]]'
        = [[e \in Destinations |-> [q \in Paths |-> HasRow(e, q)]]
             EXCEPT ![d][p] = TRUE]
  BY <1>4
<1> QED
  BY <1>1, <1>2, <1>5 DEF Contract!Ask

\* A step that changes one segment of the copies.
LEMMA SegmentsDiffer ==
  ASSUME NEW d \in Destinations, NEW p \in Paths,
         \A e \in Destinations, q \in Paths :
           ~(e = d /\ q = p) => replica'[e][q].seg = replica[e][q].seg
  PROVE  [e \in Destinations |-> [q \in Paths |-> replica[e][q].seg]]'
           = [[e \in Destinations |-> [q \in Paths |-> replica[e][q].seg]]
                EXCEPT ![d][p] = replica'[d][p].seg]
BY ZenonT(60)

\* What a copy of content v at d is for Delivery.
LEMMA CopyTouchesOne ==
  ASSUME NEW d \in Destinations, NEW p \in Paths, HasRow(d, p),
         NEW v \in 0..primary[p].seg,
         UNCHANGED <<primary, enqueued>>,
         replica'[d][p].seg = v,
         \A e \in Destinations, q \in Paths :
           /\ HasRow(e, q)' = HasRow(e, q)
           /\ ~(e = d /\ q = p) => replica'[e][q].seg = replica[e][q].seg
  PROVE  Contract!Touch(d, p)
<1>1. [e \in Destinations |-> [q \in Paths |-> replica[e][q].seg]]'
        = [[e \in Destinations |-> [q \in Paths |-> replica[e][q].seg]]
             EXCEPT ![d][p] = replica'[d][p].seg]
  BY SegmentsDiffer
<1>2. [e \in Destinations |-> [q \in Paths |-> HasRow(e, q)]][d][p]
  OBVIOUS
<1>3. UNCHANGED [e \in Destinations |-> [q \in Paths |-> HasRow(e, q)]]
  OBVIOUS
<1>4. UNCHANGED [q \in Paths |-> primary[q].seg]
  OBVIOUS
<1>5. replica'[d][p].seg \in 0..[q \in Paths |-> primary[q].seg][p]
  OBVIOUS
<1> QED
  BY <1>1, <1>2, <1>3, <1>4, <1>5 DEF Contract!Touch

\* A step of the replicator that writes content v to the segment of d.
LEMMA WriteTouches ==
  ASSUME TypeOK, NEW d \in Destinations, NEW p \in Paths, HasRow(d, p),
         NEW v \in 0..primary[p].seg,
         replica' = [replica EXCEPT ![d][p].seg = v],
         UNCHANGED <<queue, primary, enqueued>>
  PROVE  Contract!Touch(d, p)
<1>1. ASSUME NEW e \in Destinations, NEW q \in Paths
      PROVE  /\ HasRow(e, q)' = HasRow(e, q)
             /\ e = d /\ q = p => replica'[e][q].seg = v
             /\ ~(e = d /\ q = p) => replica'[e][q].seg = replica[e][q].seg
  <2>1. replica[e][q] \in Pair
    BY DEF TypeOK
  <2> QED
    BY <2>1 DEF HasRow, TypeOK, Pair
<1> QED
  BY <1>1, CopyTouchesOne

\* The row of the current job is there while it is copied.
LEMMA CurrentHasRow ==
  ASSUME TypeOK, ClaimedCopyFresh, job # 0
  PROVE  /\ CurrentDest \in Destinations /\ CurrentPath \in Paths
         /\ HasRow(CurrentDest, CurrentPath)
BY CurrentJobType DEF HasRow

\* fs::copy truncates an owed copy; a put leaves everything alone.
LEMMA OpenTouches ==
  ASSUME CoverInv, [Next]_vars, OpenSegment
  PROVE  \/ UNCHANGED Contract!vars
         \/ \E d \in Destinations, p \in Paths : Contract!Touch(d, p)
<1>1. /\ job # 0 /\ UNCHANGED <<queue, primary, enqueued>>
      /\ TypeOK /\ ClaimedCopyFresh
  BY DEF OpenSegment, InJob, queueVars, publishVars, CoverInv
<1>2. CASE CurrentDest \in Local
  <2>1. replica' = [replica EXCEPT ![CurrentDest][CurrentPath].seg = 0]
    BY <1>2 DEF OpenSegment, Torn
  <2>2. 0 \in 0..primary[CurrentPath].seg
    BY <1>1, CurrentHasRow, MaxVersionAssumption DEF TypeOK, Pair, Version
  <2> QED
    BY <1>1, <2>1, <2>2, CurrentHasRow, WriteTouches
<1>3. CASE CurrentDest \notin Local
  BY <1>1, <1>3, Stutter DEF OpenSegment, HasRow
<1> QED
  BY <1>2, <1>3

\* A finished copy is a content the archive has or had.
LEMMA CopyTouches ==
  ASSUME CoverInv, [Next]_vars, CopySegment
  PROVE  \E d \in Destinations, p \in Paths : Contract!Touch(d, p)
<1>1. /\ job # 0 /\ stage = "segment" /\ UNCHANGED <<queue, primary, enqueued>>
      /\ TypeOK /\ ClaimedCopyFresh /\ SourceBound
  BY DEF CopySegment, InJob, queueVars, publishVars, CoverInv
<1>2. PICK v \in {source, primary[CurrentPath].seg, Torn} :
        replica' = [replica EXCEPT ![CurrentDest][CurrentPath].seg = v]
  BY DEF CopySegment, ReadsOfSegment
<1>3. /\ primary[CurrentPath].seg \in Nat /\ source \in Nat
      /\ source <= primary[CurrentPath].seg
  BY <1>1, CurrentHasRow, MaxVersionAssumption
     DEF TypeOK, Pair, Version, SourceBound
<1>4. v \in 0..primary[CurrentPath].seg
  BY <1>2, <1>3 DEF Torn
<1> QED
  BY <1>1, <1>2, <1>4, CurrentHasRow, WriteTouches

\* A success that deletes the last row settles what is owed.
LEMMA SuccessSettles ==
  ASSUME CoverInv, [Next]_vars, JobSucceeds
  PROVE  \/ UNCHANGED Contract!vars
         \/ \E d \in Destinations, p \in Paths : Contract!Settle(d, p)
<1>1. /\ job # 0 /\ stage = "ok" /\ UNCHANGED <<primary, replica, enqueued>>
      /\ queue' = [i \in DOMAIN queue \ {job} |-> queue[i]]
      /\ TypeOK /\ ClaimedCopyFresh
  BY DEF JobSucceeds, MarkSuccess, InJob, publishVars, CoverInv
<1>2. PICK d \in Destinations, p \in Paths :
        /\ d = CurrentDest /\ p = CurrentPath /\ HasRow(d, p)
        /\ queue[job].dest = d /\ queue[job].path = p
  BY <1>1, CurrentHasRow, CurrentJobType
<1>3. \A e \in Destinations, q \in Paths :
        ~(e = d /\ q = p) => HasRow(e, q)' = HasRow(e, q)
  BY <1>1, <1>2 DEF HasRow
<1>4. HasRow(d, p)' = OtherRow(d, p)
  BY <1>1 DEF HasRow, OtherRow
<1>5. CASE OtherRow(d, p)
  <2>1. HasRow(d, p)' = HasRow(d, p)
    BY <1>2, <1>4, <1>5 DEF HasRow, OtherRow
  <2> QED
    BY <1>1, <1>3, <2>1, Stutter
<1>6. CASE ~ OtherRow(d, p)
  <2>1. replica[d][p].seg >= enqueued[d][p] \/ Superseded(d, p)
    BY <1>1, <1>2, <1>6 DEF CoverInv, SegmentOwed, Copying
  <2>2. HasRow(d, p)' = FALSE
    BY <1>4, <1>6 DEF HasRow, OtherRow
  <2>3. [e \in Destinations |-> [q \in Paths |-> HasRow(e, q)]]'
          = [[e \in Destinations |-> [q \in Paths |-> HasRow(e, q)]]
               EXCEPT ![d][p] = FALSE]
    BY <1>2, <1>3, <2>2, ZenonT(60)
  <2>4. \/ [e \in Destinations |-> [q \in Paths |-> replica[e][q].seg]][d][p]
             >= enqueued[d][p]
        \/ /\ d \in Destinations \ Local
           /\ [q \in Paths |-> primary[q].seg][p] > enqueued[d][p]
    BY <1>2, <2>1 DEF Superseded
  <2>5. [e \in Destinations |-> [q \in Paths |-> HasRow(e, q)]][d][p]
    BY <1>2
  <2>6. Contract!Settle(d, p)
    BY <1>1, <2>3, <2>4, <2>5 DEF Contract!Settle
  <2> QED
    BY <1>2, <2>6
<1> QED
  BY <1>5, <1>6

\* No other step changes what Delivery speaks of.
LEMMA OthersStutter ==
  ASSUME TypeOK, [Next]_vars, ~ OpenSegment, ~ CopySegment, ~ JobSucceeds,
         ~ \E p \in Paths : FinalizeRename(p),
         ~ \E p \in Paths, d \in Destinations : EnqueueSegment(p, d)
  PROVE  UNCHANGED Contract!vars
<1> USE DEF publishVars, runVars, queueVars
<1>1. \A d \in Destinations, p \in Paths : HasRow(d, p)' = HasRow(d, p)
  BY OwedKept
<1>2. ASSUME NEW q \in Paths, BeginSidecar(q) \/ EndSidecar(q)
      PROVE  \A p \in Paths : primary'[p].seg = primary[p].seg
  <2> SUFFICES ASSUME NEW p \in Paths PROVE primary'[p].seg = primary[p].seg
    OBVIOUS
  <2>1. \A v : [primary EXCEPT ![q].manifest = v][p].seg = primary[p].seg
    BY DEF TypeOK, Pair
  <2> QED
    BY <1>2, <2>1 DEF BeginSidecar, EndSidecar
<1>3. \A p \in Paths : primary'[p].seg = primary[p].seg
  BY <1>2 DEF Next, Publish, RunOnce, FinalizeFails, EnqueueFails, ClaimReady,
              NextJob, PrepareFails, OpenManifest, CopyManifest, CopyFails,
              JobFails, MarkError, RetryFailed, BackoffElapses, Crash, Restart,
              vars
<1>4. CASE OpenManifest \/ CopyManifest
  <2>1. ASSUME NEW d \in Destinations, NEW p \in Paths
        PROVE  replica'[d][p].seg = replica[d][p].seg
    <3>1. \A v : [replica EXCEPT ![CurrentDest][CurrentPath].manifest = v]
                    [d][p].seg = replica[d][p].seg
      BY DEF TypeOK, Pair
    <3> QED
      BY <1>4, <3>1 DEF OpenManifest, CopyManifest
  <2>2. enqueued' = enqueued
    BY <1>4 DEF OpenManifest, CopyManifest
  <2> QED
    BY <1>1, <1>3, <2>1, <2>2, Stutter
<1>5. CASE UNCHANGED <<replica, enqueued>>
  BY <1>1, <1>3, <1>5, Stutter
<1> QED
  BY <1>4, <1>5
     DEF Next, Publish, RunOnce, BeginSidecar, EndSidecar, FinalizeFails,
         EnqueueFails, ClaimReady, NextJob, PrepareFails, CopyFails, JobFails,
         MarkError, RetryFailed, BackoffElapses, Crash, Restart, vars

\* Nothing is wanted, owed or copied when the daemon first starts.
LEMMA InitDelivery == Init => Contract!Init
BY DEF Init, QueueInit, Torn, Contract!Init, HasRow

\* Queue, batches and copies implement Delivery, whatever fails or crashes.
THEOREM ReplicatorImplementsDelivery == Spec => ImplementsDelivery
<1>1. CoverInv /\ [Next]_vars => [Contract!Next]_(Contract!vars)
  <2> SUFFICES ASSUME CoverInv, [Next]_vars
               PROVE  Contract!Next \/ UNCHANGED Contract!vars
    OBVIOUS
  <2>0. TypeOK
    BY DEF CoverInv
  <2>1. CASE \E p \in Paths : FinalizeRename(p)
    BY <2>0, <2>1, RenameReplaces DEF Contract!Next
  <2>2. CASE \E p \in Paths, d \in Destinations : EnqueueSegment(p, d)
    BY <2>0, <2>2, EnqueueAsks DEF Contract!Next
  <2>3. CASE OpenSegment
    BY <2>3, OpenTouches DEF Contract!Next
  <2>4. CASE CopySegment
    BY <2>4, CopyTouches DEF Contract!Next
  <2>5. CASE JobSucceeds
    BY <2>5, SuccessSettles DEF Contract!Next
  <2> QED
    BY <2>0, <2>1, <2>2, <2>3, <2>4, <2>5, OthersStutter
<1> QED
  BY <1>1, InitDelivery, CoverInvariant, PTL
     DEF Spec, ImplementsDelivery, Contract!Spec

-----------------------------------------------------------------------------
(* Retry budgets.                                                          *)

\* What a step may do to a row that stays.
BudgetStep ==
  \A i \in DOMAIN queue :
    i \in DOMAIN queue' =>
      /\ queue'[i].attempts >= queue[i].attempts
      /\ queue'[i].status = "failed" =>
           queue[i].max_retries > 0
             /\ queue'[i].attempts >= queue[i].max_retries

\* A row was given up because its budget was used up: the strengthening that
\* covers the steps that leave such a row alone.
FailedIsExhausted ==
  \A i \in DOMAIN queue :
    queue[i].status = "failed" =>
      queue[i].max_retries > 0 /\ queue[i].attempts >= queue[i].max_retries

\* A row that a step does not make failed keeps its attempts and its budget.
RowMild(i) ==
  /\ queue'[i].attempts = queue[i].attempts
  /\ queue'[i].max_retries = queue[i].max_retries
  /\ queue'[i].status = "failed" => queue[i].status = "failed"

\* Rows that are left alone or taken up again keep their budgets.
LEMMA MildBudget ==
  ASSUME TypeOK, FailedIsExhausted, NEW i \in DOMAIN queue, RowMild(i)
  PROVE  /\ queue'[i].attempts >= queue[i].attempts
         /\ queue'[i].status = "failed" =>
              /\ queue[i].max_retries > 0 /\ queue'[i].max_retries > 0
              /\ queue'[i].attempts >= queue[i].max_retries
              /\ queue'[i].attempts >= queue'[i].max_retries
<1>1. queue[i] \in Row
  BY DEF TypeOK, QueueTypeOK
<1>2. queue[i].attempts \in Nat /\ queue[i].max_retries \in Nat
  BY <1>1, U32MaxAssumption DEF Row
<1> QED
  BY <1>2 DEF RowMild, FailedIsExhausted

\* Every step but a failure is mild to the rows that stay.
LEMMA MildSteps ==
  ASSUME TypeOK, [Next]_vars, ~ JobFails, NEW i \in DOMAIN queue,
         i \in DOMAIN queue'
  PROVE  RowMild(i)
<1> USE DEF publishVars, runVars, queueVars
<1>0. queue[i] \in Row
  BY DEF TypeOK, QueueTypeOK
<1>1. CASE \E p \in Paths, d \in Destinations : EnqueueSegment(p, d)
  <2>1. next_id \notin DOMAIN queue
    BY DEF TypeOK, QueueTypeOK
  <2> QED
    BY <1>1, <2>1 DEF EnqueueSegment, Enqueue, RowMild
<1>2. CASE ClaimReady
  BY <1>0, <1>2 DEF ClaimReady, MarkInProgress, RowMild, Row
<1>3. CASE JobSucceeds
  BY <1>3 DEF JobSucceeds, MarkSuccess, RowMild
<1>4. CASE RetryFailed
  BY <1>0, <1>4 DEF RetryFailed, RetryFailedRows, RowMild, Row
<1>5. CASE \E j \in DOMAIN queue : BackoffElapses(j)
  <2>1. PICK j \in DOMAIN queue : BackoffElapses(j)
    BY <1>5
  <2>2. queue' = [queue EXCEPT ![j].due = TRUE]
    BY <2>1 DEF BackoffElapses, BackoffOver
  <2>3. queue'[i] = queue[i] \/ queue'[i] = [queue[i] EXCEPT !.due = TRUE]
    BY <2>2
  <2> QED
    BY <1>0, <2>3 DEF RowMild, Row
<1>6. CASE UNCHANGED queue
  BY <1>6 DEF RowMild
<1> QED
  BY <1>1, <1>2, <1>3, <1>4, <1>5, <1>6
     DEF Next, Publish, RunOnce, FinalizeRename, BeginSidecar, EndSidecar,
         FinalizeFails, EnqueueFails, NextJob, OpenSegment, PrepareFails,
         CopySegment, OpenManifest, CopyManifest, CopyFails, MarkError, Crash,
         Restart, vars

\* A failure gives its row up only if the budget is used up: the copy it is
\* computed from is fresh.
LEMMA FailureBudget ==
  ASSUME TypeOK, ClaimedCopyFresh, FailedIsExhausted, JobFails,
         NEW i \in DOMAIN queue
  PROVE  /\ queue'[i].attempts >= queue[i].attempts
         /\ queue'[i].status = "failed" =>
              /\ queue[i].max_retries > 0 /\ queue'[i].max_retries > 0
              /\ queue'[i].attempts >= queue[i].max_retries
              /\ queue'[i].attempts >= queue'[i].max_retries
<1>1. CASE i # job
  BY <1>1, MildBudget DEF JobFails, MarkFailed, RowMild
<1>2. CASE i = job
  <2>1. /\ queue[i] \in Row /\ job \in DOMAIN claimed
        /\ claimed[job].attempts = queue[i].attempts
        /\ claimed[job].max_retries = queue[i].max_retries
    BY <1>2 DEF JobFails, InJob, ClaimedCopyFresh, JobOf, TypeOK, QueueTypeOK
  <2>2. /\ queue[i].attempts \in 0..U32Max /\ queue[i].max_retries \in 0..U32Max
        /\ SaturatingSucc(queue[i].attempts) >= queue[i].attempts
    BY <2>1, SaturatingSuccType DEF Row
  <2>3. /\ queue'[i].attempts = SaturatingSucc(queue[i].attempts)
        /\ queue'[i].max_retries = queue[i].max_retries
        /\ queue'[i].status = "failed" => Exhausted(claimed[job])
    BY <1>2, <2>1 DEF JobFails, MarkFailed, Row
  <2> QED
    BY <2>1, <2>2, <2>3 DEF Exhausted
<1> QED
  BY <1>1, <1>2

\* A new row is pending.
LEMMA NewRowPending ==
  ASSUME TypeOK, [Next]_vars, NEW i \in DOMAIN queue', i \notin DOMAIN queue
  PROVE  queue'[i].status = "pending"
<1>1. \E p \in Paths, d \in Destinations : EnqueueSegment(p, d)
  <2>1. CASE JobSucceeds
    BY <2>1 DEF JobSucceeds, MarkSuccess
  <2> QED
    BY <2>1, DomainKept
<1> QED
  BY <1>1 DEF EnqueueSegment, Enqueue

\* A job is given up only by a failure that used up a finite budget, and no
\* failure, retry command or restart gives a job attempts back.
THEOREM BudgetsAreKept == Spec => RetryBudgetKept
<1>1. Init => FailedIsExhausted
  BY DEF Init, QueueInit, FailedIsExhausted
<1>2. TypeOK /\ ClaimedCopyFresh /\ FailedIsExhausted /\ [Next]_vars
        => BudgetStep /\ FailedIsExhausted'
  <2> SUFFICES ASSUME TypeOK, ClaimedCopyFresh, FailedIsExhausted, [Next]_vars
               PROVE  BudgetStep /\ FailedIsExhausted'
    OBVIOUS
  <2>1. ASSUME NEW i \in DOMAIN queue, i \in DOMAIN queue'
        PROVE  /\ queue'[i].attempts >= queue[i].attempts
               /\ queue'[i].status = "failed" =>
                    /\ queue[i].max_retries > 0 /\ queue'[i].max_retries > 0
                    /\ queue'[i].attempts >= queue[i].max_retries
                    /\ queue'[i].attempts >= queue'[i].max_retries
    BY <2>1, FailureBudget, MildSteps, MildBudget
  <2> QED
    BY <2>1, NewRowPending DEF BudgetStep, FailedIsExhausted
<1>3. BudgetStep => [BudgetStep]_vars
  OBVIOUS
<1> QED
  BY <1>1, <1>2, TypeCorrect, ClaimsAreFresh, PTL
     DEF Spec, RetryBudgetKept, BudgetStep
=============================================================================
