---------------------------- MODULE RenderProofs ----------------------------
(***************************************************************************)
(* Proofs about the render queue and the render daemons, for any number of *)
(* jobs, daemons, names and attempts and any lease length.                 *)
(*                                                                         *)
(* The queue first.  What one row may look like (RowOK) is inductive by    *)
(* itself: every UPDATE of the queue is one of a few row functions, so     *)
(* each of these is shown to keep RowOK and every action reduces to them.  *)
(* Every step of a daemon is a step of the queue, so what is shown of the  *)
(* queue then holds under the daemons too.                                 *)
(***************************************************************************)
EXTENDS RenderWorker, TLAPS

RowOK(r) ==
    /\ r \in Row
    /\ r.attempt <= MaxAttempts
    /\ r.state = "queued" => r.attempt < MaxAttempts
    /\ r.state \in Terminal \/ r.receipt \in Terminal => r.receipt = r.state
    /\ r.state = "absent" => r = NoRow
    /\ r.state # "absent" => r.content \in Contents
    /\ r.state = "succeeded" => ~r.cancelRequested

\* The strengthening of TypeOK that is inductive.
IInv ==
    /\ TypeOK
    /\ \A j \in Jobs : RowOK(row[j])

-----------------------------------------------------------------------------
(* Facts about the constants, and: the row functions keep RowOK.           *)

LEMMA Zeros == 0 \in TtlRange /\ 0 \in AgeRange /\ LeaseTicks \in TtlRange
BY QueueAssumption DEF TtlRange, AgeRange
LEMMA Constants == MaxAttempts \in Nat /\ MaxAttempts > 0 /\ WorkerId \in [Workers -> WorkerIds]
BY QueueAssumption
LEMMA QueuedRowOK ==
    ASSUME NEW c \in Contents
    PROVE  RowOK(QueuedRow(c))
BY Zeros, Constants DEF RowOK, Row, QueuedRow, Status, Terminal

LEMMA FinishedOK ==
    ASSUME NEW r, RowOK(r), r.state # "absent", NEW s \in Terminal,
           s = "succeeded" => ~r.cancelRequested
    PROVE  RowOK(Finished(r, s))
<1>0. r \in Row /\ r.content \in Contents /\ r.attempt <= MaxAttempts
  BY DEF RowOK
<1>1. Finished(r, s) \in Row
  BY <1>0, Zeros DEF Finished, Row, Status
<1>2. /\ Finished(r, s).state = s
      /\ Finished(r, s).receipt = s
      /\ Finished(r, s).attempt = r.attempt
      /\ Finished(r, s).content = r.content
      /\ Finished(r, s).cancelRequested = r.cancelRequested
  BY <1>0 DEF Finished, Row
<1>3. s # "absent" /\ s # "queued"
  BY DEF Terminal
<1>4. QED
  BY <1>0, <1>1, <1>2, <1>3 DEF RowOK

LEMMA RequeuedOK ==
    ASSUME NEW r, RowOK(r), r.state = "running", r.attempt < MaxAttempts
    PROVE  RowOK(Requeued(r))
BY Zeros, Constants DEF RowOK, Row, Requeued, Status, Terminal
LEMMA RecoveredOK ==
    ASSUME NEW r, RowOK(r)
    PROVE  RowOK(Recovered(r))
<1>1. CASE r.state = "running" /\ r.ttl < 0 /\ r.attempt >= MaxAttempts
  BY <1>1, FinishedOK DEF Recovered, Terminal
<1>2. CASE r.state = "running" /\ r.ttl < 0 /\ ~(r.attempt >= MaxAttempts)
  <2>1. r.attempt < MaxAttempts
    BY <1>2, Constants DEF RowOK, Row
  <2>2. QED
    BY <1>2, <2>1, RequeuedOK DEF Recovered
<1>3. CASE ~(r.state = "running" /\ r.ttl < 0)
  BY <1>3 DEF Recovered
<1>4. QED
  BY <1>1, <1>2, <1>3

LEMMA NoRowOK == RowOK(NoRow)
BY Zeros, Constants DEF RowOK, Row, NoRow, Status, Terminal

LEMMA StartedOK ==
    ASSUME NEW r, RowOK(r), r.state = "queued", NEW w \in Workers
    PROVE  RowOK(Started(r, w))
<1>0. r \in Row /\ r.attempt < MaxAttempts /\ r.content \in Contents
  BY DEF RowOK
<1>1. WorkerId[w] \in WorkerIds /\ r.attempt + 1 \in Nat /\ r.attempt + 1 <= MaxAttempts
  BY <1>0, Constants DEF Row
<1>2. Started(r, w) \in Row
  BY <1>0, <1>1, Zeros DEF Started, Row, Status
<1>3. /\ Started(r, w).state = "running"
      /\ Started(r, w).receipt = "running"
      /\ Started(r, w).attempt = r.attempt + 1
      /\ Started(r, w).content = r.content
  BY <1>0 DEF Started, Row
<1>4. QED
  BY <1>0, <1>1, <1>2, <1>3 DEF RowOK, Terminal

LEMMA AgedOK ==
    ASSUME NEW r, RowOK(r)
    PROVE  RowOK(Aged(r))
<1>0. r \in Row BY DEF RowOK
<1>a. r.ttl \in TtlRange /\ r.ttl >= 0 => r.ttl - 1 \in TtlRange
  BY QueueAssumption DEF TtlRange
<1>b. r.age \in AgeRange /\ r.age < RetentionTicks => r.age + 1 \in AgeRange
  BY QueueAssumption DEF AgeRange
<1>1. Aged(r) \in Row
  BY <1>0, <1>a, <1>b DEF Aged, Row
<1>2. /\ Aged(r).state = r.state /\ Aged(r).attempt = r.attempt /\ Aged(r).receipt = r.receipt
      /\ Aged(r).content = r.content
      /\ Aged(r).cancelRequested = r.cancelRequested
  BY <1>0 DEF Aged, Row
<1>3. r.state = "absent" => Aged(r) = r
  BY <1>0 DEF Aged, Row, Terminal
<1>4. QED
  BY <1>1, <1>2, <1>3 DEF RowOK
-----------------------------------------------------------------------------
(* Updates of the table.                                                   *)

LEMMA RowUpdated ==
    ASSUME IInv, NEW j \in Jobs, NEW r, RowOK(r), row' = [row EXCEPT ![j] = r]
    PROVE  /\ row' \in [Jobs -> Row]
           /\ \A k \in Jobs : RowOK(row'[k])
BY DEF IInv, TypeOK, RowOK

\* A worker that owns its job holds a lease that names one.
LEMMA OwnedRow ==
    ASSUME IInv, NEW w \in Workers, Owned(w)
    PROVE  /\ lease[w] \in Lease
           /\ lease[w].job \in Jobs
           /\ RowOK(row[lease[w].job])
           /\ row[lease[w].job].state = "running"
           /\ row[lease[w].job].attempt = lease[w].attempt
BY DEF IInv, TypeOK, Owned, Lease

-----------------------------------------------------------------------------
(* The actions that write the table keep it well formed.                   *)

LEMMA InsertRowStep ==
    ASSUME IInv, NEW r \in Requests, InsertRow(r)
    PROVE  IInv'
<1>1. r.job \in Jobs /\ r.content \in Contents
  BY QueueAssumption DEF Request
<1>2. CASE r.job \in Present
  BY <1>2 DEF InsertRow, IInv, TypeOK, Timing
<1>3. CASE r.job \notin Present
  <2>1. row' = [row EXCEPT ![r.job] = QueuedRow(r.content)]
    BY <1>3 DEF InsertRow
  <2>2. row' \in [Jobs -> Row] /\ \A k \in Jobs : RowOK(row'[k])
    BY <1>1, <2>1, QueuedRowOK, RowUpdated
  <2>3. older' \in SUBSET (Timed \X Timed)
    BY <1>1, <1>3 DEF InsertRow, IInv, TypeOK, Renamed, Timed
  <2>4. raced' \in SUBSET Jobs /\ overlapped' \in SUBSET Requests /\ pending' \in SUBSET Requests
    BY <1>1, <1>3 DEF InsertRow, IInv, TypeOK
  <2>5. QED
    BY <2>2, <2>3, <2>4 DEF InsertRow, IInv, TypeOK
<1>4. QED
  BY <1>2, <1>3

\* The row cancel writes.
Asked(r) ==
    [(IF r.state = "running" THEN r ELSE Finished(r, "cancelled"))
        EXCEPT !.cancelRequested = TRUE]

LEMMA AskedOK ==
    ASSUME NEW r, RowOK(r), r.state \in {"queued", "running"}
    PROVE  RowOK(Asked(r))
<1>1. CASE r.state = "running"
  <2>1. Asked(r) = [r EXCEPT !.cancelRequested = TRUE]
    BY <1>1 DEF Asked
  <2>2. QED
    BY <1>1, <2>1 DEF RowOK, Row
<1>2. CASE r.state = "queued"
  <2>1. Asked(r) = [Finished(r, "cancelled") EXCEPT !.cancelRequested = TRUE]
    BY <1>2 DEF Asked
  <2>2. RowOK(Finished(r, "cancelled")) /\ Finished(r, "cancelled").state = "cancelled"
    BY FinishedOK DEF Terminal, Finished, RowOK, Row
  <2>3. QED
    BY <2>1, <2>2 DEF RowOK, Row
<1>3. QED
  BY <1>1, <1>2

LEMMA CancelStep ==
    ASSUME IInv, NEW j \in Jobs, Cancel(j)
    PROVE  IInv'
<1>1. row' = [row EXCEPT ![j] = Asked(row[j])]
  BY DEF Cancel, Asked
<1>2. RowOK(Asked(row[j]))
  BY AskedOK DEF Cancel, IInv
<1>3. row' \in [Jobs -> Row] /\ \A k \in Jobs : RowOK(row'[k])
  BY <1>1, <1>2, RowUpdated
<1>4. QED
  BY <1>3 DEF Cancel, storeVars, IInv, TypeOK

LEMMA ClaimStep ==
    ASSUME IInv, NEW w \in Workers, Claim(w)
    PROVE  IInv'
<1> DEFINE table == [j \in Jobs |-> Recovered(row[j])]
<1>1. /\ table \in [Jobs -> Row]
      /\ \A j \in Jobs : RowOK(table[j])
  BY RecoveredOK DEF IInv, RowOK
<1>2. CASE row' = table /\ UNCHANGED lease
  BY <1>1, <1>2 DEF Claim, storeVars, IInv, TypeOK
<1>3. ASSUME NEW j \in Jobs, table[j].state = "queued",
             row' = [table EXCEPT ![j] = Finished(@, "cancelled")], UNCHANGED lease
      PROVE  IInv'
  <2>1. RowOK(Finished(table[j], "cancelled"))
    BY <1>1, <1>3, FinishedOK DEF Terminal
  <2>2. row' \in [Jobs -> Row] /\ \A k \in Jobs : RowOK(row'[k])
    BY <1>1, <1>3, <2>1 DEF RowOK
  <2>3. QED
    BY <1>3, <2>2 DEF Claim, storeVars, IInv, TypeOK
<1>4. ASSUME NEW j \in Jobs, table[j].state = "queued",
             row' = [table EXCEPT ![j] = Started(@, w)],
             lease' = [lease EXCEPT ![w] =
                          [job |-> j, attempt |-> table[j].attempt + 1]]
      PROVE  IInv'
  <2>1. RowOK(Started(table[j], w))
    BY <1>1, <1>4, StartedOK
  <2>2. row' \in [Jobs -> Row] /\ \A k \in Jobs : RowOK(row'[k])
    BY <1>1, <1>4, <2>1 DEF RowOK
  <2>3. table[j].attempt + 1 \in Nat
    BY <1>1 DEF Row
  <2>4. lease' \in [Workers -> Lease \cup {NoLease}]
    BY <1>4, <2>3 DEF IInv, TypeOK, Lease
  <2>5. QED
    BY <2>2, <2>4 DEF Claim, storeVars, IInv, TypeOK
<1>5. QED
  BY <1>2, <1>3, <1>4 DEF Claim, OldestQueued

LEMMA KeepAliveStep ==
    ASSUME IInv, NEW w \in Workers, KeepAlive(w)
    PROVE  IInv'
<1> DEFINE r == row[lease[w].job]
<1>1. lease[w].job \in Jobs /\ RowOK(r) /\ r.state = "running"
  BY OwnedRow DEF KeepAlive
<1>2. row' = [row EXCEPT ![lease[w].job] = [r EXCEPT !.ttl = LeaseTicks]]
  BY <1>1 DEF KeepAlive, IInv, TypeOK
<1>3. RowOK([r EXCEPT !.ttl = LeaseTicks])
  BY <1>1, Zeros DEF RowOK, Row
<1>4. row' \in [Jobs -> Row] /\ \A k \in Jobs : RowOK(row'[k])
  BY <1>1, <1>2, <1>3, RowUpdated
<1>5. QED
  BY <1>4 DEF KeepAlive, storeVars, IInv, TypeOK

LEMMA CompleteStep ==
    ASSUME IInv, NEW w \in Workers, Complete(w)
    PROVE  IInv'
<1> DEFINE r == row[lease[w].job]
<1>1. lease[w].job \in Jobs /\ RowOK(r) /\ r.state = "running" /\ ~r.cancelRequested
  BY OwnedRow DEF Complete
<1>2. row' = [row EXCEPT ![lease[w].job] = Finished(r, "succeeded")]
  BY DEF Complete
<1>3. RowOK(Finished(r, "succeeded"))
  BY <1>1, FinishedOK DEF Terminal
<1>4. row' \in [Jobs -> Row] /\ \A k \in Jobs : RowOK(row'[k])
  BY <1>1, <1>2, <1>3, RowUpdated
<1>5. QED
  BY <1>4 DEF Complete, storeVars, IInv, TypeOK

\* The row fail writes.
GivenUp(r, w, retryable) ==
    IF retryable /\ lease[w].attempt < MaxAttempts /\ ~r.cancelRequested
    THEN [Requeued(r) EXCEPT !.receipt = "queued"]
    ELSE Finished(r, IF r.cancelRequested THEN "cancelled" ELSE "failed")

LEMMA GivenUpOK ==
    ASSUME IInv, NEW w \in Workers, NEW retryable \in BOOLEAN, Owned(w)
    PROVE  RowOK(GivenUp(row[lease[w].job], w, retryable))
<1> DEFINE r == row[lease[w].job]
<1>1. RowOK(r) /\ r.state = "running" /\ r.attempt = lease[w].attempt
  BY OwnedRow
<1>2. CASE retryable /\ lease[w].attempt < MaxAttempts /\ ~r.cancelRequested
  <2>1. RowOK(Requeued(r)) /\ Requeued(r).state = "queued"
    BY <1>1, <1>2, RequeuedOK DEF Requeued, RowOK, Row
  <2>2. RowOK([Requeued(r) EXCEPT !.receipt = "queued"])
    BY <2>1 DEF RowOK, Row, Status, Terminal
  <2>3. QED
    BY <1>2, <2>2 DEF GivenUp
<1>3. CASE ~(retryable /\ lease[w].attempt < MaxAttempts /\ ~r.cancelRequested)
  BY <1>1, <1>3, FinishedOK DEF GivenUp, Terminal
<1>4. QED
  BY <1>2, <1>3

LEMMA FailStep ==
    ASSUME IInv, NEW w \in Workers, NEW retryable \in BOOLEAN, Fail(w, retryable)
    PROVE  IInv'
<1>1. lease[w].job \in Jobs
  BY OwnedRow DEF Fail
<1>2. row' = [row EXCEPT ![lease[w].job] = GivenUp(row[lease[w].job], w, retryable)]
  BY DEF Fail, GivenUp
<1>3. RowOK(GivenUp(row[lease[w].job], w, retryable))
  BY GivenUpOK DEF Fail
<1>4. row' \in [Jobs -> Row] /\ \A k \in Jobs : RowOK(row'[k])
  BY <1>1, <1>2, <1>3, RowUpdated
<1>5. QED
  BY <1>4 DEF Fail, storeVars, IInv, TypeOK

LEMMA PurgeRowsStep ==
    ASSUME IInv, PurgeRows
    PROVE  IInv'
<1>1. \A j \in Jobs : RowOK(IF j \in Expendable THEN NoRow ELSE row[j])
  BY NoRowOK DEF IInv
<1>2. row' \in [Jobs -> Row] /\ \A k \in Jobs : RowOK(row'[k])
  BY <1>1 DEF PurgeRows, RowOK
<1>3. older' \in SUBSET (Timed \X Timed)
  BY DEF PurgeRows, IInv, TypeOK
<1>4. \A j \in Expendable : row[j].content \in Contents
  BY DEF Expendable, Terminal, IInv, RowOK
<1>5. purging' \in SUBSET Contents
  BY <1>4 DEF PurgeRows, IInv, TypeOK
<1>6. QED
  BY <1>2, <1>3, <1>5 DEF PurgeRows, IInv, TypeOK

LEMMA TickStep ==
    ASSUME IInv, Tick
    PROVE  IInv'
<1>1. \A j \in Jobs : RowOK(Aged(row[j]))
  BY AgedOK DEF IInv
<1>2. row' \in [Jobs -> Row] /\ \A k \in Jobs : RowOK(row'[k])
  BY <1>1 DEF Tick, RowOK
<1>3. QED
  BY <1>2 DEF Tick, storeVars, IInv, TypeOK

-----------------------------------------------------------------------------
(* The inductive invariant.                                                *)

LEMMA InitIInv == Init => IInv
BY NoRowOK DEF Init, IInv, TypeOK, RowOK

LEMMA NextIInv == IInv /\ [Next]_vars => IInv'
<1> SUFFICES ASSUME IInv, [Next]_vars
             PROVE  IInv'
  OBVIOUS
<1>1. ASSUME NEW r \in Requests, PutContent(r)
      PROVE  IInv'
  <2>1. r.content \in Contents
    BY QueueAssumption DEF Request
  <2>2. older' \in SUBSET (Timed \X Timed)
    BY <1>1 DEF PutContent, IInv, TypeOK, Timed, Present
  <2>3. QED
    BY <1>1, <2>1, <2>2 DEF PutContent, IInv, TypeOK
<1>2. ASSUME NEW r \in Requests, SubmitDies(r)
      PROVE  IInv'
  BY <1>2 DEF SubmitDies, IInv, TypeOK, Timing
<1>3. ASSUME NEW w \in Workers, Abandon(w)
      PROVE  IInv'
  BY <1>3 DEF Abandon, storeVars, IInv, TypeOK
<1>4. ASSUME NEW c \in Contents, PurgeLook(c)
      PROVE  IInv'
  BY <1>4 DEF PurgeLook, IInv, TypeOK
<1>5. ASSUME NEW c \in Contents, PurgeUnlink(c)
      PROVE  IInv'
  BY <1>5 DEF PurgeUnlink, IInv, TypeOK
<1>6. CASE PurgeDies
  BY <1>6 DEF PurgeDies, IInv, TypeOK
<1>7. CASE UNCHANGED vars
  BY <1>7 DEF vars, IInv, TypeOK
<1>8. QED
  BY <1>1, <1>2, <1>3, <1>4, <1>5, <1>6, <1>7, InsertRowStep, CancelStep, ClaimStep,
     KeepAliveStep, CompleteStep, FailStep, PurgeRowsStep, TickStep DEF Next

LEMMA Invariance == Spec => []IInv
BY InitIInv, NextIInv, PTL DEF Spec

\* The queue's tables, stores and leases keep their types in every behaviour.
THEOREM TypeCorrect == Spec => []TypeOK
<1>1. IInv => TypeOK
  BY DEF IInv
<1>2. QED
  BY <1>1, Invariance, PTL

\* claim never checks max_attempts, yet no job is started more often than that:
\* whoever gives a job back leaves it an attempt.
THEOREM AttemptsBounded == Spec => []AttemptsLeft
<1>1. IInv => AttemptsLeft
  BY DEF IInv, RowOK, AttemptsLeft
<1>2. QED
  BY <1>1, Invariance, PTL

\* A client that polls sees the job's own terminal outcome, and sees one only
\* when the job has ended.
THEOREM ReceiptsHonest == Spec => []ReceiptTellsTheEnd
<1>1. IInv => ReceiptTellsTheEnd
  BY DEF IInv, RowOK, ReceiptTellsTheEnd
<1>2. QED
  BY <1>1, Invariance, PTL

-----------------------------------------------------------------------------
(* The queue implements the lifecycle its clients are promised.            *)

View(r) == [state |-> r.state, tries |-> r.attempt, cancelled |-> r.cancelRequested]

\* A lifecycle step can be read off the fields of two rows.
LEMMA StepFromFields ==
    ASSUME NEW o \in Row, NEW n \in Row,
           \/ /\ o.state \in {"queued", "running"} /\ n.state = "running"
              /\ ~o.cancelRequested /\ o.attempt < MaxAttempts
              /\ n.attempt = o.attempt + 1 /\ n.cancelRequested = o.cancelRequested
           \/ /\ o.state = "running" /\ n.state = "queued" /\ o.attempt < MaxAttempts
              /\ n.attempt = o.attempt /\ n.cancelRequested = o.cancelRequested
           \/ /\ o.state = "running" /\ n.state = "running"
              /\ n.attempt = o.attempt /\ n.cancelRequested = TRUE
           \/ /\ o.state = "queued" /\ n.state = "cancelled"
              /\ n.attempt = o.attempt /\ n.cancelRequested = TRUE
           \/ /\ o.state = "running" /\ n.state \in Terminal
              /\ Lifecycle!Reason(n.state, View(o))
              /\ n.attempt = o.attempt /\ n.cancelRequested = o.cancelRequested
    PROVE  Lifecycle!JobStep(View(o), View(n))
<1>1. /\ View(o).state = o.state
      /\ View(o).tries = o.attempt
      /\ View(o).cancelled = o.cancelRequested
  BY DEF View
<1>2. View(n) = Lifecycle!Known(n.state, n.attempt, n.cancelRequested)
  BY DEF View, Lifecycle!Known
<1>3. Terminal = Lifecycle!Terminal
  BY DEF Terminal, Lifecycle!Terminal
<1>4. QED
  BY <1>1, <1>2, <1>3 DEF Lifecycle!JobStep, Lifecycle!Begins, Lifecycle!GivenBack,
     Lifecycle!Asked, Lifecycle!Ends

LEMMA SameView ==
    ASSUME NEW r
    PROVE  Lifecycle!JobStep(View(r), View(r))
BY DEF Lifecycle!JobStep

\* The fields the client sees, after each row function.
LEMMA FinishedFields ==
    ASSUME NEW r \in Row, NEW s \in Terminal
    PROVE  /\ Finished(r, s) \in Row
           /\ Finished(r, s).state = s
           /\ Finished(r, s).attempt = r.attempt
           /\ Finished(r, s).cancelRequested = r.cancelRequested
BY Zeros DEF Finished, Row, Status

LEMMA RequeuedFields ==
    ASSUME NEW r \in Row
    PROVE  /\ Requeued(r) \in Row
           /\ Requeued(r).state = "queued"
           /\ Requeued(r).attempt = r.attempt
           /\ Requeued(r).cancelRequested = r.cancelRequested
BY Zeros DEF Requeued, Row, Status

LEMMA RecoveredFields ==
    ASSUME NEW r, RowOK(r)
    PROVE  /\ Recovered(r) \in Row
           /\ Recovered(r).state = "queued" => r.state \in {"queued", "running"}
           /\ Recovered(r).attempt = r.attempt
           /\ Recovered(r).cancelRequested = r.cancelRequested
<1>1. r \in Row
  BY DEF RowOK
<1>2. QED
  BY <1>1, FinishedFields, RequeuedFields DEF Recovered, Terminal

\* _recover_expired gives a job back while attempts remain and ends it after.
LEMMA RecoveredView ==
    ASSUME NEW r, RowOK(r)
    PROVE  Lifecycle!JobStep(View(r), View(Recovered(r)))
<1>0. r \in Row /\ r.attempt <= MaxAttempts /\ r.attempt \in Nat
  BY DEF RowOK, Row
<1>1. CASE r.state = "running" /\ r.ttl < 0 /\ r.attempt >= MaxAttempts
  <2>1. Recovered(r) = Finished(r, "unavailable") /\ "unavailable" \in Terminal
    BY <1>1 DEF Recovered, Terminal
  <2>2. Lifecycle!Reason("unavailable", View(r))
    BY <1>0, <1>1, Constants DEF Lifecycle!Reason, View
  <2>3. QED
    BY <1>0, <1>1, <2>1, <2>2, FinishedFields, StepFromFields
<1>2. CASE r.state = "running" /\ r.ttl < 0 /\ ~(r.attempt >= MaxAttempts)
  <2>1. Recovered(r) = Requeued(r) /\ r.attempt < MaxAttempts
    BY <1>0, <1>2, Constants DEF Recovered
  <2>2. QED
    BY <1>0, <1>2, <2>1, RequeuedFields, StepFromFields
<1>3. CASE ~(r.state = "running" /\ r.ttl < 0)
  BY <1>3, SameView DEF Recovered
<1>4. QED
  BY <1>1, <1>2, <1>3

LEMMA StartedView ==
    ASSUME NEW r, RowOK(r), Recovered(r).state = "queued", ~Recovered(r).cancelRequested,
           NEW w \in Workers
    PROVE  Lifecycle!JobStep(View(r), View(Started(Recovered(r), w)))
<1>1. RowOK(Recovered(r)) /\ RowOK(Started(Recovered(r), w))
  BY RecoveredOK, StartedOK
<1>2. /\ r \in Row
      /\ Recovered(r) \in Row
      /\ Started(Recovered(r), w) \in Row
      /\ Recovered(r).attempt < MaxAttempts
  BY <1>1 DEF RowOK
<1>3. /\ Started(Recovered(r), w).state = "running"
      /\ Started(Recovered(r), w).attempt = Recovered(r).attempt + 1
      /\ Started(Recovered(r), w).cancelRequested = Recovered(r).cancelRequested
  BY <1>2 DEF Started, Row
<1>4. QED
  BY <1>2, <1>3, RecoveredFields, StepFromFields

LEMMA BuriedView ==
    ASSUME NEW r, RowOK(r), Recovered(r).state = "queued", Recovered(r).cancelRequested
    PROVE  Lifecycle!JobStep(View(r), View(Finished(Recovered(r), "cancelled")))
<1> DEFINE n == Finished(Recovered(r), "cancelled")
<1>1. r \in Row /\ Recovered(r) \in Row /\ "cancelled" \in Terminal
  BY RecoveredFields DEF RowOK, Terminal
<1>2. /\ n \in Row
      /\ n.state = "cancelled"
      /\ n.attempt = r.attempt
      /\ n.cancelRequested = r.cancelRequested
      /\ r.cancelRequested
      /\ r.state \in {"queued", "running"}
  BY <1>1, FinishedFields, RecoveredFields
<1>3. Lifecycle!Reason("cancelled", View(r))
  BY <1>2 DEF Lifecycle!Reason, View
<1>4. n.cancelRequested = TRUE
  BY <1>1, <1>2 DEF Row
<1>5. QED
  BY <1>1, <1>2, <1>3, <1>4, StepFromFields

LEMMA AskedView ==
    ASSUME NEW r, RowOK(r), r.state \in {"queued", "running"}
    PROVE  Lifecycle!JobStep(View(r), View(Asked(r)))
<1>0. r \in Row /\ Asked(r) \in Row
  BY AskedOK DEF RowOK
<1>1. CASE r.state = "running"
  <2>1. Asked(r) = [r EXCEPT !.cancelRequested = TRUE]
    BY <1>1 DEF Asked
  <2>2. /\ Asked(r).state = "running"
        /\ Asked(r).attempt = r.attempt
        /\ Asked(r).cancelRequested = TRUE
    BY <1>0, <1>1, <2>1 DEF Row
  <2>3. QED
    BY <1>0, <1>1, <2>2, StepFromFields
<1>2. CASE r.state = "queued"
  <2>1. Asked(r) = [Finished(r, "cancelled") EXCEPT !.cancelRequested = TRUE]
    BY <1>2 DEF Asked
  <2>2. /\ Asked(r).state = "cancelled"
        /\ Asked(r).attempt = r.attempt
        /\ Asked(r).cancelRequested = TRUE
    BY <1>0, <2>1 DEF Row, Finished
  <2>3. QED
    BY <1>0, <1>2, <2>2, StepFromFields
<1>3. QED
  BY <1>1, <1>2

LEMMA AgedView ==
    ASSUME NEW r, RowOK(r)
    PROVE  View(Aged(r)) = View(r)
BY DEF RowOK, Row, Aged, View

LEMMA GivenUpView ==
    ASSUME IInv, NEW w \in Workers, NEW retryable \in BOOLEAN, Owned(w)
    PROVE  Lifecycle!JobStep(View(row[lease[w].job]),
                             View(GivenUp(row[lease[w].job], w, retryable)))
<1> DEFINE r == row[lease[w].job]
           n == GivenUp(r, w, retryable)
<1>1. RowOK(r) /\ r.state = "running" /\ r.attempt = lease[w].attempt
  BY OwnedRow
<1>2. r \in Row /\ n \in Row
  BY <1>1, GivenUpOK DEF RowOK
<1>3. CASE retryable /\ lease[w].attempt < MaxAttempts /\ ~r.cancelRequested
  <2>1. n = [Requeued(r) EXCEPT !.receipt = "queued"]
    BY <1>3 DEF GivenUp
  <2>2. /\ n.state = "queued"
        /\ n.attempt = r.attempt
        /\ n.cancelRequested = r.cancelRequested
    BY <1>2, <2>1, RequeuedFields DEF Row
  <2>3. QED
    BY <1>1, <1>2, <1>3, <2>2, StepFromFields
<1>4. CASE r.cancelRequested
  <2>1. n = Finished(r, "cancelled") /\ "cancelled" \in Terminal
    BY <1>4 DEF GivenUp, Terminal
  <2>2. /\ n.state = "cancelled"
        /\ n.attempt = r.attempt
        /\ n.cancelRequested = r.cancelRequested
    BY <1>2, <2>1, FinishedFields
  <2>3. Lifecycle!Reason(n.state, View(r))
    BY <1>4, <2>2 DEF Lifecycle!Reason, View
  <2> HIDE DEF n, r
  <2>4. Lifecycle!JobStep(View(r), View(n))
    BY <1>1, <1>2, <2>1, <2>2, <2>3, StepFromFields
  <2>5. QED
    BY <2>4 DEF n, r
<1>5. CASE ~r.cancelRequested /\ ~(retryable /\ lease[w].attempt < MaxAttempts)
  <2>1. n = Finished(r, "failed") /\ "failed" \in Terminal
    BY <1>5 DEF GivenUp, Terminal
  <2>2. /\ n.state = "failed"
        /\ n.attempt = r.attempt
        /\ n.cancelRequested = r.cancelRequested
    BY <1>2, <2>1, FinishedFields
  <2>3. Lifecycle!Reason(n.state, View(r))
    BY <1>5, <2>2 DEF Lifecycle!Reason, View
  <2> HIDE DEF n, r
  <2>4. Lifecycle!JobStep(View(r), View(n))
    BY <1>1, <1>2, <2>1, <2>2, <2>3, StepFromFields
  <2>5. QED
    BY <2>4 DEF n, r
<1>6. QED
  BY <1>3, <1>4, <1>5

JobsView == [j \in Jobs |-> View(row[j])]

\* It is enough to look at each job's row before and after the step.
LEMMA RowByRow ==
    ASSUME \A j \in Jobs : Lifecycle!JobStep(View(row[j]), View(row'[j]))
    PROVE  [Lifecycle!Next]_JobsView
BY DEF Lifecycle!Next, JobsView, View

\* A step that writes one row is judged by that row.
LEMMA OneRowView ==
    ASSUME IInv, NEW j \in Jobs, NEW r, row' = [row EXCEPT ![j] = r],
           Lifecycle!JobStep(View(row[j]), View(r))
    PROVE  [Lifecycle!Next]_JobsView
<1>1. \A k \in Jobs : row'[k] = IF k = j THEN r ELSE row[k]
  BY DEF IInv, TypeOK
<1>2. QED
  BY <1>1, SameView, RowByRow

LEMMA LifecycleStep == IInv /\ [Next]_vars => [Lifecycle!Next]_JobsView
<1> SUFFICES ASSUME IInv, [Next]_vars
             PROVE  [Lifecycle!Next]_JobsView
  OBVIOUS
<1>0. \A j \in Jobs : RowOK(row[j])
  BY DEF IInv
<1>1. CASE UNCHANGED row
  BY <1>1, SameView, RowByRow
<1>2. ASSUME NEW r \in Requests, InsertRow(r)
      PROVE  [Lifecycle!Next]_JobsView
  <2>1. CASE r.job \in Present
    BY <1>1, <1>2, <2>1 DEF InsertRow
  <2>2. CASE r.job \notin Present
    <3>1. r.job \in Jobs /\ row[r.job] = NoRow
      BY <1>0, <2>2, QueueAssumption DEF Request, Present, RowOK
    <3>2. row' = [row EXCEPT ![r.job] = QueuedRow(r.content)]
      BY <1>2, <2>2 DEF InsertRow
    <3>3. Lifecycle!JobStep(View(row[r.job]), View(QueuedRow(r.content)))
      BY <3>1 DEF View, NoRow, QueuedRow, Lifecycle!JobStep, Lifecycle!Unknown,
                  Lifecycle!Known
    <3>4. QED
      BY <3>1, <3>2, <3>3, OneRowView
  <2>3. QED
    BY <2>1, <2>2
<1>3. ASSUME NEW j \in Jobs, Cancel(j)
      PROVE  [Lifecycle!Next]_JobsView
  <2>1. row' = [row EXCEPT ![j] = Asked(row[j])]
    BY <1>3 DEF Cancel, Asked
  <2>2. Lifecycle!JobStep(View(row[j]), View(Asked(row[j])))
    BY <1>0, <1>3, AskedView DEF Cancel
  <2>3. QED
    BY <2>1, <2>2, OneRowView
<1>4. ASSUME NEW w \in Workers, Claim(w)
      PROVE  [Lifecycle!Next]_JobsView
  <2> DEFINE table == [j \in Jobs |-> Recovered(row[j])]
  <2>0. \A k \in Jobs : Lifecycle!JobStep(View(row[k]), View(table[k]))
    BY <1>0, RecoveredView
  <2>1. CASE row' = table
    BY <2>0, <2>1, RowByRow
  <2>2. ASSUME NEW j \in Jobs, table[j].state = "queued", table[j].cancelRequested,
               row' = [table EXCEPT ![j] = Finished(@, "cancelled")]
        PROVE  [Lifecycle!Next]_JobsView
    <3>1. Lifecycle!JobStep(View(row[j]), View(Finished(table[j], "cancelled")))
      BY <1>0, <2>2, BuriedView
    <3>2. \A k \in Jobs : row'[k] = IF k = j THEN Finished(table[j], "cancelled")
                                             ELSE table[k]
      BY <2>2
    <3>3. QED
      BY <2>0, <3>1, <3>2, RowByRow
  <2>3. ASSUME NEW j \in Jobs, table[j].state = "queued", ~table[j].cancelRequested,
               row' = [table EXCEPT ![j] = Started(@, w)]
        PROVE  [Lifecycle!Next]_JobsView
    <3>1. Lifecycle!JobStep(View(row[j]), View(Started(table[j], w)))
      BY <1>0, <2>3, StartedView
    <3>2. \A k \in Jobs : row'[k] = IF k = j THEN Started(table[j], w) ELSE table[k]
      BY <2>3
    <3>3. QED
      BY <2>0, <3>1, <3>2, RowByRow
  <2>4. QED
    BY <1>4, <2>1, <2>2, <2>3 DEF Claim, OldestQueued
<1>5. ASSUME NEW w \in Workers, KeepAlive(w)
      PROVE  [Lifecycle!Next]_JobsView
  <2> DEFINE r == row[lease[w].job]
  <2>1. lease[w].job \in Jobs /\ RowOK(r)
    BY <1>5, OwnedRow DEF KeepAlive
  <2>2. row' = [row EXCEPT ![lease[w].job] = [r EXCEPT !.ttl = LeaseTicks]]
    BY <1>5, <2>1 DEF KeepAlive, IInv, TypeOK
  <2>3. View([r EXCEPT !.ttl = LeaseTicks]) = View(r)
    BY <2>1 DEF View, RowOK, Row
  <2>4. QED
    BY <2>1, <2>2, <2>3, SameView, OneRowView
<1>6. ASSUME NEW w \in Workers, Complete(w)
      PROVE  [Lifecycle!Next]_JobsView
  <2> DEFINE r == row[lease[w].job]
  <2>1. lease[w].job \in Jobs /\ RowOK(r) /\ r.state = "running" /\ ~r.cancelRequested
    BY <1>6, OwnedRow DEF Complete
  <2>2. row' = [row EXCEPT ![lease[w].job] = Finished(r, "succeeded")]
    BY <1>6 DEF Complete
  <2>3. Lifecycle!Reason("succeeded", View(r))
    BY <2>1 DEF Lifecycle!Reason, View
  <2>4. r \in Row /\ "succeeded" \in Terminal
    BY <2>1 DEF RowOK, Terminal
  <2>5. Lifecycle!JobStep(View(r), View(Finished(r, "succeeded")))
    BY <2>1, <2>3, <2>4, FinishedFields, StepFromFields
  <2>6. QED
    BY <2>1, <2>2, <2>5, OneRowView
<1>7. ASSUME NEW w \in Workers, NEW retryable \in BOOLEAN, Fail(w, retryable)
      PROVE  [Lifecycle!Next]_JobsView
  <2>1. lease[w].job \in Jobs
    BY <1>7, OwnedRow DEF Fail
  <2>2. row' = [row EXCEPT ![lease[w].job] = GivenUp(row[lease[w].job], w, retryable)]
    BY <1>7 DEF Fail, GivenUp
  <2>3. Lifecycle!JobStep(View(row[lease[w].job]),
                          View(GivenUp(row[lease[w].job], w, retryable)))
    BY <1>7, GivenUpView DEF Fail
  <2>4. QED
    BY <2>1, <2>2, <2>3, OneRowView
<1>8. CASE PurgeRows
  <2>1. \A j \in Expendable : Lifecycle!JobStep(View(row[j]), View(NoRow))
    BY DEF Expendable, View, NoRow, Terminal, Lifecycle!JobStep, Lifecycle!Terminal,
           Lifecycle!Unknown, Lifecycle!Known
  <2>2. QED
    BY <1>8, <2>1, SameView, RowByRow DEF PurgeRows
<1>9. CASE Tick
  <2>1. \A j \in Jobs : View(row'[j]) = View(row[j])
    BY <1>0, <1>9, AgedView DEF Tick
  <2>2. QED
    BY <2>1, SameView, RowByRow
<1>10. QED
  BY <1>1, <1>2, <1>3, <1>4, <1>5, <1>6, <1>7, <1>8, <1>9
     DEF Next, vars, PutContent, SubmitDies, Abandon, PurgeLook, PurgeUnlink, PurgeDies

\* Whatever leases, crashes and purges do, the client of a job sees the abstract
\* lifecycle: the queue implements RenderJobLifecycle.
THEOREM LifecycleKept == Spec => KeepsLifecycle
<1>1. Init => Lifecycle!Init
  BY DEF Init, NoRow, Lifecycle!Init, Lifecycle!Unknown, Lifecycle!Known, View
<1>2. IInv /\ [Next]_vars => [Lifecycle!Next]_JobsView
  BY LifecycleStep
<1>3. QED
  BY <1>1, <1>2, Invariance, PTL DEF Spec, KeepsLifecycle, Lifecycle!Spec, JobsView, View

-----------------------------------------------------------------------------
(* A recorded cancel.                                                      *)

\* In a lifecycle step a cancelled job only waits, ends, or is forgotten.
LEMMA CancelledJobStep ==
    ASSUME NEW o \in Row, NEW n \in Row, o.cancelRequested, n.state # "absent",
           Lifecycle!JobStep(View(o), View(n))
    PROVE  n.cancelRequested /\ n.attempt = o.attempt
BY DEF View, Row, Lifecycle!JobStep, Lifecycle!Begins, Lifecycle!GivenBack,
   Lifecycle!Asked, Lifecycle!Ends, Lifecycle!Buried, Lifecycle!Known, Lifecycle!Unknown

\* Once a client's cancel is recorded the job is never started again and never
\* ends as succeeded, whatever leases are lost or retries asked for.
THEOREM CancelIsFinal == Spec => CancelSticks
<1>1. IInv /\ IInv' /\ [Next]_vars =>
        [\A j \in Jobs :
           row[j].cancelRequested /\ row'[j].state # "absent" =>
              /\ row'[j].cancelRequested
              /\ row'[j].attempt = row[j].attempt
              /\ row'[j].state # "succeeded"]_vars
  <2> SUFFICES ASSUME IInv, IInv', [Next]_vars, NEW j \in Jobs,
                      row[j].cancelRequested, row'[j].state # "absent"
               PROVE  /\ row'[j].cancelRequested
                      /\ row'[j].attempt = row[j].attempt
                      /\ row'[j].state # "succeeded"
    OBVIOUS
  <2>1. Lifecycle!JobStep(View(row[j]), View(row'[j]))
    <3>1. [Lifecycle!Next]_JobsView
      BY LifecycleStep
    <3>2. CASE Lifecycle!Next
      BY <3>2 DEF Lifecycle!Next, View
    <3>3. CASE UNCHANGED JobsView
      <4>1. JobsView[j] = View(row[j]) /\ JobsView'[j] = View(row'[j])
        BY DEF JobsView, View
      <4>2. QED
        BY <3>3, <4>1, SameView
    <3>4. QED
      BY <3>1, <3>2, <3>3
  <2>2. RowOK(row[j]) /\ RowOK(row'[j])
    BY DEF IInv, RowOK, Row, NoRow, Terminal, Status, TtlRange, AgeRange
  <2>3. row[j] \in Row /\ row'[j] \in Row
    BY <2>2 DEF RowOK
  <2>4. row'[j].cancelRequested /\ row'[j].attempt = row[j].attempt
    BY <2>1, <2>3, CancelledJobStep
  <2>5. QED
    BY <2>2, <2>4 DEF RowOK
<1>2. QED
  BY <1>1, Invariance, PTL DEF Spec, CancelSticks

-----------------------------------------------------------------------------
(* Leases.  Two processes started under one name are told apart only by    *)
(* the attempt, so what matters is that attempts never come back: this is  *)
(* where a purge, after which a job id starts again from zero, is excluded.*)

LeasesOK ==
    /\ \A w \in Workers : lease[w] # NoLease =>
          /\ lease[w].attempt >= 1
          /\ lease[w].attempt <= row[lease[w].job].attempt
    /\ \A v, w \in Workers :
          v # w /\ lease[v] # NoLease /\ lease[w] # NoLease /\ lease[v].job = lease[w].job
             => lease[v].attempt # lease[w].attempt

LEMMA AttemptsGrow ==
    ASSUME IInv, [Next]_vars, ~PurgeRows, NEW k \in Jobs
    PROVE  row'[k].attempt >= row[k].attempt
<1>0. \A j \in Jobs : RowOK(row[j]) /\ row[j] \in Row /\ row[j].attempt \in Nat
  BY DEF IInv, RowOK, Row
<1>1. CASE UNCHANGED row
  BY <1>0, <1>1
<1>2. ASSUME NEW r \in Requests, InsertRow(r)
      PROVE  row'[k].attempt >= row[k].attempt
  <2>1. CASE r.job = k /\ k \notin Present
    <3>1. row[k].attempt = 0 /\ row' = [row EXCEPT ![k] = QueuedRow(r.content)]
      BY <1>0, <1>2, <2>1 DEF InsertRow, Present, RowOK, NoRow
    <3>2. row'[k].attempt = 0
      BY <3>1 DEF IInv, TypeOK, QueuedRow
    <3>3. QED
      BY <3>1, <3>2
  <2>2. CASE ~(r.job = k /\ k \notin Present)
    BY <1>0, <1>2, <2>2 DEF InsertRow, IInv, TypeOK
  <2>3. QED
    BY <2>1, <2>2
<1>3. ASSUME NEW j \in Jobs, Cancel(j)
      PROVE  row'[k].attempt >= row[k].attempt
  <2>1. row' = [row EXCEPT ![j] = Asked(row[j])]
    BY <1>3 DEF Cancel, Asked
  <2>2. Asked(row[j]).attempt = row[j].attempt
    BY <1>0 DEF Asked, Finished, Row
  <2>3. QED
    BY <1>0, <2>1, <2>2 DEF IInv, TypeOK
<1>4. ASSUME NEW w \in Workers, Claim(w)
      PROVE  row'[k].attempt >= row[k].attempt
  <2> DEFINE table == [j \in Jobs |-> Recovered(row[j])]
  <2>1. \A j \in Jobs : table[j] \in Row /\ table[j].attempt = row[j].attempt
    BY <1>0, RecoveredFields
  <2>2. \A j \in Jobs : /\ Finished(table[j], "cancelled").attempt = row[j].attempt
                        /\ Started(table[j], w).attempt = row[j].attempt + 1
    BY <2>1 DEF Finished, Started, Row
  <2>3. CASE row' = table
    BY <1>0, <2>1, <2>3
  <2>4. ASSUME NEW j \in Jobs, row' = [table EXCEPT ![j] = Finished(@, "cancelled")]
        PROVE  row'[k].attempt >= row[k].attempt
    BY <1>0, <2>1, <2>2, <2>4
  <2>5. ASSUME NEW j \in Jobs, row' = [table EXCEPT ![j] = Started(@, w)]
        PROVE  row'[k].attempt >= row[k].attempt
    BY <1>0, <2>1, <2>2, <2>5
  <2>6. QED
    BY <1>4, <2>3, <2>4, <2>5 DEF Claim
<1>5. ASSUME NEW w \in Workers, KeepAlive(w)
      PROVE  row'[k].attempt >= row[k].attempt
  BY <1>0, <1>5, OwnedRow DEF KeepAlive, IInv, TypeOK, Row
<1>6. ASSUME NEW w \in Workers, Complete(w)
      PROVE  row'[k].attempt >= row[k].attempt
  BY <1>0, <1>6, OwnedRow DEF Complete, Finished, IInv, TypeOK, Row
<1>7. ASSUME NEW w \in Workers, NEW retryable \in BOOLEAN, Fail(w, retryable)
      PROVE  row'[k].attempt >= row[k].attempt
  <2>1. row' = [row EXCEPT ![lease[w].job] = GivenUp(row[lease[w].job], w, retryable)]
    BY <1>7 DEF Fail, GivenUp
  <2>2. GivenUp(row[lease[w].job], w, retryable).attempt = row[lease[w].job].attempt
    BY <1>0, <1>7, OwnedRow DEF Fail, GivenUp, Requeued, Finished, Row
  <2>3. QED
    BY <1>0, <2>1, <2>2 DEF IInv, TypeOK
<1>8. CASE Tick
  <2>1. row'[k] = Aged(row[k])
    BY <1>8 DEF Tick
  <2>2. Aged(row[k]).attempt = row[k].attempt
    BY <1>0 DEF Aged, Row
  <2>3. QED
    BY <1>0, <2>1, <2>2
<1>9. QED
  BY <1>1, <1>2, <1>3, <1>4, <1>5, <1>6, <1>7, <1>8
     DEF Next, vars, PutContent, SubmitDies, Abandon, PurgeLook, PurgeUnlink, PurgeDies

\* Only claim hands out a lease, and its attempt is new.
LEMMA LeaseStep ==
    ASSUME IInv, [Next]_vars
    PROVE  \/ \A w \in Workers : lease'[w] \in {lease[w], NoLease}
           \/ \E w \in Workers, j \in Jobs :
                 /\ lease' = [lease EXCEPT ![w] =
                                  [job |-> j, attempt |-> row[j].attempt + 1]]
                 /\ row'[j].attempt = row[j].attempt + 1
<1> DEFINE Dropped == \A w \in Workers : lease'[w] \in {lease[w], NoLease}
<1>1. CASE UNCHANGED lease
  BY <1>1
<1>2. ASSUME NEW w \in Workers, Claim(w), ~UNCHANGED lease
      PROVE  \E j \in Jobs :
                 /\ lease' = [lease EXCEPT ![w] =
                                  [job |-> j, attempt |-> row[j].attempt + 1]]
                 /\ row'[j].attempt = row[j].attempt + 1
  <2> DEFINE table == [j \in Jobs |-> Recovered(row[j])]
  <2>1. PICK j \in Jobs :
           /\ row' = [table EXCEPT ![j] = Started(@, w)]
           /\ lease' = [lease EXCEPT ![w] =
                           [job |-> j, attempt |-> table[j].attempt + 1]]
    BY <1>2 DEF Claim
  <2>2. table[j] \in Row /\ table[j].attempt = row[j].attempt
    BY RecoveredFields DEF IInv
  <2>3. row'[j].attempt = row[j].attempt + 1
    BY <2>1, <2>2 DEF Started, Row
  <2>4. QED
    BY <2>1, <2>2, <2>3
<1>3. ASSUME NEW w \in Workers, lease' = [lease EXCEPT ![w] = NoLease]
      PROVE  Dropped
  BY <1>3 DEF IInv, TypeOK
<1>4. QED
  BY <1>1, <1>2, <1>3 DEF Next, vars, storeVars, PutContent, InsertRow, SubmitDies, Cancel,
     KeepAlive, Complete, Fail, Abandon, PurgeRows, PurgeLook, PurgeUnlink, PurgeDies, Tick

LEMMA NextLeasesOK ==
    ASSUME IInv, IInv', LeasesOK, [Next]_vars, ~PurgeCalled
    PROVE  LeasesOK'
<1>1. \A k \in Jobs : /\ row[k].attempt \in Nat
                      /\ row'[k].attempt \in Nat
                      /\ row'[k].attempt >= row[k].attempt
  <2>1. ~PurgeRows
    BY DEF PurgeRows
  <2>2. QED
    BY <2>1, AttemptsGrow DEF IInv, TypeOK, Row
<1>2. \A w \in Workers : lease[w] # NoLease =>
          lease[w].job \in Jobs /\ lease[w].attempt \in Nat
  BY DEF IInv, TypeOK, Lease
<1>3. CASE \A w \in Workers : lease'[w] \in {lease[w], NoLease}
  BY <1>1, <1>2, <1>3 DEF LeasesOK
<1>4. ASSUME NEW w \in Workers, NEW j \in Jobs,
             lease' = [lease EXCEPT ![w] = [job |-> j, attempt |-> row[j].attempt + 1]],
             row'[j].attempt = row[j].attempt + 1
      PROVE  LeasesOK'
  <2>1. /\ lease'[w] = [job |-> j, attempt |-> row[j].attempt + 1]
        /\ \A v \in Workers \ {w} : lease'[v] = lease[v]
    BY <1>4 DEF IInv, TypeOK
  <2>2. \A v \in Workers \ {w} : lease[v] # NoLease /\ lease[v].job = j
            => lease[v].attempt < row[j].attempt + 1
    BY <1>1, <1>2 DEF LeasesOK
  <2>3. QED
    BY <1>1, <1>2, <1>4, <2>1, <2>2 DEF LeasesOK
<1>5. QED
  BY <1>3, <1>4, LeaseStep

\* As long as nobody purges, no two worker processes can both be the owner of a
\* job's row, even if every one of them runs under the default --worker-id.
THEOREM SingleOwner == ~PurgeCalled => (Spec => []OneOwner)
<1>1. Init => LeasesOK
  BY DEF Init, LeasesOK
<1>2. ~PurgeCalled /\ IInv /\ IInv' /\ LeasesOK /\ [Next]_vars => LeasesOK'
  BY NextLeasesOK
<1>3. LeasesOK => OneOwner
  BY DEF LeasesOK, OneOwner, Owned
<1>4. QED
  <2> SUFFICES ASSUME ~PurgeCalled
               PROVE  Spec => []OneOwner
    OBVIOUS
  <2>1. IInv /\ IInv' /\ LeasesOK /\ [Next]_vars => LeasesOK'
    BY <1>2
  <2>2. QED
    BY <1>1, <1>3, <2>1, Invariance, PTL DEF Spec
-----------------------------------------------------------------------------
(* Sources.  A blob is put before its job is queued and only a purge       *)
(* removes one: what a purge is about to unlink no row referred to when it *)
(* looked, and every submission that was under way then is noted.          *)

AtRisk(c) == c \notin blobs \/ c \in unlinking

SourcesKept ==
    /\ \A r \in pending : AtRisk(r.content) => r \in overlapped
    /\ \A j \in Present : AtRisk(row[j].content) => j \in raced

\* No UPDATE of the queue changes which document a job is about.
LEMMA ContentStays ==
    ASSUME IInv, [Next]_vars, ~PurgeRows, ~\E r \in Requests : InsertRow(r), NEW k \in Jobs
    PROVE  row'[k].content = row[k].content /\ (k \in Present' => k \in Present)
<1> DEFINE Same(r, s) == s.content = r.content /\ (s.state # "absent" => r.state # "absent")
<1>0. \A j \in Jobs : RowOK(row[j]) /\ row[j] \in Row
  BY DEF IInv, RowOK
<1> SUFFICES Same(row[k], row'[k])
  BY DEF Present
<1>1. CASE UNCHANGED row
  BY <1>1
<1>2. ASSUME NEW j \in Jobs, Cancel(j)
      PROVE  Same(row[k], row'[k])
  <2>1. row' = [row EXCEPT ![j] = Asked(row[j])] /\ row[j].state # "absent"
    BY <1>2 DEF Cancel, Asked
  <2>2. Asked(row[j]).content = row[j].content
    BY <1>0 DEF Asked, Finished, Row
  <2>3. QED
    BY <2>1, <2>2 DEF IInv, TypeOK
<1>3. ASSUME NEW w \in Workers, Claim(w)
      PROVE  Same(row[k], row'[k])
  <2> DEFINE table == [j \in Jobs |-> Recovered(row[j])]
  <2>1. \A j \in Jobs : /\ table[j] \in Row
                        /\ table[j].content = row[j].content
                        /\ table[j].state # "absent" => row[j].state # "absent"
    <3> TAKE j \in Jobs
    <3>1. table[j] = Recovered(row[j]) /\ row[j] \in Row /\ RowOK(row[j])
      BY <1>0
    <3>2. Recovered(row[j]) \in Row
      BY <3>1, RecoveredOK DEF RowOK
    <3>3. Recovered(row[j]).content = row[j].content
      BY <3>1 DEF Recovered, Finished, Requeued, Row
    <3>4. Recovered(row[j]).state # "absent" => row[j].state # "absent"
      BY <3>1 DEF Recovered
    <3>5. QED
      BY <3>1, <3>2, <3>3, <3>4
  <2>2. \A j \in Jobs : /\ Finished(table[j], "cancelled").content = row[j].content
                        /\ Started(table[j], w).content = row[j].content
    BY <2>1 DEF Finished, Started, Row
  <2>3. CASE row' = table
    BY <2>1, <2>3
  <2>4. ASSUME NEW j \in Jobs, OldestQueued(table, j),
               row' = [table EXCEPT ![j] = Finished(@, "cancelled")]
        PROVE  Same(row[k], row'[k])
    BY <2>1, <2>2, <2>4 DEF OldestQueued
  <2>5. ASSUME NEW j \in Jobs, OldestQueued(table, j),
               row' = [table EXCEPT ![j] = Started(@, w)]
        PROVE  Same(row[k], row'[k])
    BY <2>1, <2>2, <2>5 DEF OldestQueued
  <2>6. QED
    BY <1>3, <2>3, <2>4, <2>5 DEF Claim
<1>4. ASSUME NEW w \in Workers, KeepAlive(w) \/ Complete(w)
      PROVE  Same(row[k], row'[k])
  <2> DEFINE held == lease[w].job
  <2>1. held \in Jobs /\ row[held] \in Row /\ row[held].state = "running"
    BY <1>0, <1>4, OwnedRow DEF KeepAlive, Complete, Owned
  <2>2. \/ row' = [row EXCEPT ![held].ttl = LeaseTicks]
        \/ row' = [row EXCEPT ![held] = Finished(row[held], "succeeded")]
    BY <1>4 DEF KeepAlive, Complete
  <2>3. Finished(row[held], "succeeded").content = row[held].content
    BY <2>1 DEF Finished, Row
  <2>4. CASE row' = [row EXCEPT ![held].ttl = LeaseTicks]
    BY <2>1, <2>4 DEF IInv, TypeOK, Row
  <2>5. CASE row' = [row EXCEPT ![held] = Finished(row[held], "succeeded")]
    BY <2>1, <2>3, <2>5 DEF IInv, TypeOK
  <2>6. QED
    BY <2>2, <2>4, <2>5
<1>5. ASSUME NEW w \in Workers, NEW retryable \in BOOLEAN, Fail(w, retryable)
      PROVE  Same(row[k], row'[k])
  <2>1. row' = [row EXCEPT ![lease[w].job] = GivenUp(row[lease[w].job], w, retryable)]
    BY <1>5 DEF Fail, GivenUp
  <2>2. /\ GivenUp(row[lease[w].job], w, retryable).content = row[lease[w].job].content
        /\ row[lease[w].job].state # "absent"
    BY <1>0, <1>5, OwnedRow DEF Fail, GivenUp, Requeued, Finished, Row, Owned
  <2>3. QED
    BY <1>0, <2>1, <2>2 DEF IInv, TypeOK
<1>6. CASE Tick
  BY <1>0, <1>6 DEF Tick, Aged, Row
<1>7. QED
  BY <1>1, <1>2, <1>3, <1>4, <1>5, <1>6
     DEF Next, vars, PutContent, SubmitDies, Abandon, PurgeLook, PurgeUnlink, PurgeDies

\* A job the purge spares keeps its document and what is known of its submission.
LEMMA PurgeRowsKeeps ==
    ASSUME IInv, SourcesKept, PurgeRows
    PROVE  SourcesKept'
<1>1. \A j \in Present' : j \in Present /\ row'[j] = row[j] /\ (j \in raced => j \in raced')
  <2> SUFFICES ASSUME NEW j \in Jobs, row'[j].state # "absent"
               PROVE  j \in Present /\ row'[j] = row[j] /\ (j \in raced => j \in raced')
    BY DEF Present
  <2>1. j \notin Expendable
    BY DEF PurgeRows, NoRow
  <2>2. row'[j] = row[j]
    BY <2>1 DEF PurgeRows
  <2>3. QED
    BY <2>1, <2>2 DEF PurgeRows, Present
<1>2. QED
  BY <1>1 DEF PurgeRows, SourcesKept, AtRisk

\* The row submit inserts carries the risk its submission ran.
LEMMA InsertRowKeeps ==
    ASSUME IInv, SourcesKept, NEW r \in Requests, InsertRow(r)
    PROVE  SourcesKept'
<1>1. \A q \in pending' : AtRisk(q.content)' => q \in overlapped'
  BY DEF InsertRow, SourcesKept, AtRisk
<1>2. ASSUME NEW j \in Present', AtRisk(row[j].content)'
      PROVE  j \in raced'
  <2>0. j \in Jobs /\ r.job \in Jobs
    BY QueueAssumption DEF Present, Request
  <2>1. CASE r.job \in Present \/ j # r.job
    <3>1. row'[j] = row[j] /\ raced \subseteq raced'
      BY <2>0, <2>1 DEF InsertRow, IInv, TypeOK
    <3>2. j \in Present /\ AtRisk(row[j].content)
      BY <1>2, <2>0, <3>1 DEF Present, InsertRow, AtRisk
    <3>3. QED
      BY <3>1, <3>2 DEF SourcesKept
  <2>2. CASE r.job \notin Present /\ j = r.job
    <3>1. row'[j].content = r.content
      BY <2>0, <2>2 DEF InsertRow, QueuedRow, IInv, TypeOK
    <3>2. AtRisk(r.content)
      BY <1>2, <3>1 DEF AtRisk, InsertRow
    <3>3. r \in overlapped
      BY <3>2 DEF SourcesKept, InsertRow
    <3>4. QED
      BY <2>2, <3>3 DEF InsertRow
  <2>3. QED
    BY <2>1, <2>2
<1>3. QED
  BY <1>1, <1>2 DEF SourcesKept

LEMMA NextSourcesKept ==
    ASSUME IInv, SourcesKept, [Next]_vars
    PROVE  SourcesKept'
<1>1. CASE \E r \in Requests : InsertRow(r)
  BY <1>1, InsertRowKeeps
<1>2. CASE PurgeRows
  BY <1>2, PurgeRowsKeeps
<1>3. CASE ~PurgeRows /\ ~\E r \in Requests : InsertRow(r)
  <2>1. \A j \in Present' : j \in Present /\ row'[j].content = row[j].content
    <3> TAKE j \in Present'
    <3>1. j \in Jobs
      BY DEF Present
    <3>2. QED
      BY <1>3, <3>1, ContentStays
  <2>2. raced' = raced
    BY <1>3 DEF Next, vars, storeVars, PutContent, SubmitDies, Cancel, Claim, KeepAlive,
       Complete, Fail, Abandon, PurgeLook, PurgeUnlink, PurgeDies, Tick
  <2>3. ASSUME NEW r \in Requests, PutContent(r)
        PROVE  SourcesKept'
    <3>1. \A q \in pending' : AtRisk(q.content)' => q \in overlapped'
      BY <2>3 DEF PutContent, SourcesKept, AtRisk
    <3>2. \A j \in Present' : AtRisk(row[j].content)' => AtRisk(row[j].content)
      BY <2>1, <2>3 DEF PutContent, AtRisk
    <3>3. QED
      BY <2>1, <2>2, <3>1, <3>2 DEF SourcesKept
  <2>4. ASSUME NEW r \in Requests, SubmitDies(r)
        PROVE  SourcesKept'
    BY <2>1, <2>2, <2>4 DEF SubmitDies, SourcesKept, AtRisk
  <2>5. ASSUME NEW c \in Contents, PurgeLook(c)
        PROVE  SourcesKept'
    <3>1. CASE Referenced(c)
      BY <2>1, <2>2, <2>5, <3>1 DEF PurgeLook, SourcesKept, AtRisk
    <3>2. CASE ~Referenced(c)
      <4>1. \A j \in Present : row[j].content # c
        BY <3>2 DEF Referenced
      <4>2. /\ blobs' = blobs /\ unlinking' = unlinking \cup {c} /\ pending' = pending
            /\ overlapped' = overlapped \cup {r \in pending : r.content = c}
        BY <2>5, <3>2 DEF PurgeLook
      <4>3. QED
        BY <2>1, <2>2, <4>1, <4>2 DEF SourcesKept, AtRisk
    <3>3. QED
      BY <3>1, <3>2
  <2>6. ASSUME NEW c \in Contents, PurgeUnlink(c)
        PROVE  SourcesKept'
    BY <2>1, <2>2, <2>6 DEF PurgeUnlink, SourcesKept, AtRisk
  <2>7. CASE PurgeDies
    BY <2>1, <2>2, <2>7 DEF PurgeDies, SourcesKept, AtRisk
  <2>8. CASE UNCHANGED storeVars
    BY <2>1, <2>2, <2>8 DEF storeVars, SourcesKept, AtRisk
  <2>9. QED
    BY <1>3, <2>3, <2>4, <2>5, <2>6, <2>7, <2>8
       DEF Next, vars, storeVars, Cancel, Claim, KeepAlive, Complete, Fail, Abandon, Tick
<1>4. QED
  BY <1>1, <1>2, <1>3

\* An owned lease names a source that is there, however many submissions of the
\* same document die or conflict and whatever is purged meanwhile, unless the
\* job's own submission overlapped a purge between its look and its unlink.
THEOREM SourceIsThere == Spec => []LeasedInputExists
<1>1. Init => SourcesKept
  BY DEF Init, SourcesKept, Present, NoRow
<1>2. IInv /\ SourcesKept /\ [Next]_vars => SourcesKept'
  BY NextSourcesKept
<1>3. IInv /\ SourcesKept => LeasedInputExists
  BY DEF SourcesKept, AtRisk, LeasedInputExists, Owned, Present, IInv, TypeOK, Lease
<1>4. QED
  BY <1>1, <1>2, <1>3, Invariance, PTL DEF Spec

-----------------------------------------------------------------------------
(* The daemons.                                                            *)

\* The steps in which a daemon's main thread attends to its renderer, and those
\* in which it holds what that renderer delivered.
Attending == {"polling", "stopping", "grace"}
Delivered == {"raster", "confirm", "complete"}

DaemonsTyped ==
    /\ step \in [Workers -> Steps]
    /\ verdict \in [Workers -> Verdicts]
    /\ thread \in [Workers -> [state : ThreadStates, lease : Lease \cup {NoLease}]]
    /\ poisoned \in [Workers -> BOOLEAN]

DaemonOK(w) ==
    /\ lease[w] = NoLease <=> step[w] \in {"idle", "down"}
    /\ step[w] = "ready" => ~Alive(w)
    /\ Alive(w) => poisoned[w] \/ step[w] \in Attending
    /\ step[w] \in Attending \cup Delivered => thread[w].lease = lease[w]
    /\ step[w] \in Delivered => thread[w].state = "pdf"

\* The strengthening of WorkerTypeOK that is inductive.
WorkerIInv ==
    /\ IInv
    /\ DaemonsTyped
    /\ \A w \in Workers : DaemonOK(w)

-----------------------------------------------------------------------------
(* Every step of a daemon is a step of the queue, or none.                 *)

LEMMA QueueStep == ASSUME [WorkerNext]_allVars PROVE [Next]_vars
<1>1. CASE UNCHANGED allVars
  BY <1>1 DEF allVars
<1>2. CASE Clients
  BY <1>2 DEF Clients, Next
<1>3. ASSUME NEW w \in Workers, Works(w)
      PROVE  [Next]_vars
  <2>1. \/ UNCHANGED vars
        \/ KeepAlive(w) \/ Complete(w) \/ Abandon(w)
        \/ Fail(w, TRUE) \/ Fail(w, FALSE)
    BY <1>3 DEF Works, StillRunning, Begin, InputDiffers, StartRender, Poll, TimesOut, Abort,
       Grace, RenderFailed, Rendered, Rasterize, Reports, Confirm, Completes, Declines,
       Acknowledges, Asks
  <2>2. QED
    BY <2>1 DEF Next
<1>4. ASSUME NEW w \in Workers, Claims(w)
      PROVE  Next
  BY <1>4 DEF Claims, Next
<1>5. ASSUME NEW w \in Workers, Crash(w)
      PROVE  [Next]_vars
  BY <1>5 DEF Crash, Next
<1>6. ASSUME NEW w \in Workers, Enters(w) \/ RenderEnds(w) \/ Restart(w)
      PROVE  UNCHANGED vars
  BY <1>6 DEF Enters, RenderEnds, Restart
<1>7. QED
  BY <1>1, <1>2, <1>3, <1>4, <1>5, <1>6 DEF WorkerNext

\* The daemons' queue is the queue: what holds of Spec holds of WorkerSpec.
THEOREM OnQueue == WorkerSpec => Spec
<1>1. WorkerInit => Init
  BY DEF WorkerInit
<1>2. [WorkerNext]_allVars => [Next]_vars
  BY QueueStep
<1>3. QED
  BY <1>1, <1>2, PTL DEF WorkerSpec, Spec, allVars

-----------------------------------------------------------------------------
(* What the calls on the queue do to the leases.                           *)

LEMMA CallsOnLease ==
    ASSUME TypeOK, NEW w \in Workers
    PROVE  /\ KeepAlive(w) => UNCHANGED lease
           /\ Complete(w) \/ Abandon(w) \/ Fail(w, TRUE) \/ Fail(w, FALSE) =>
                lease' = [lease EXCEPT ![w] = NoLease]
           /\ Claim(w) => \A v \in Workers \ {w} : lease'[v] = lease[v]
<1>1. KeepAlive(w) => UNCHANGED lease
  BY DEF KeepAlive
<1>2. Complete(w) \/ Abandon(w) \/ Fail(w, TRUE) \/ Fail(w, FALSE) =>
         lease' = [lease EXCEPT ![w] = NoLease]
  BY DEF Complete, Abandon, Fail
<1>3. Claim(w) => \A v \in Workers \ {w} : lease'[v] = lease[v]
  BY DEF Claim, TypeOK
<1>4. QED
  BY <1>1, <1>2, <1>3

LEMMA ClientsOnLease == ASSUME Clients PROVE UNCHANGED lease
BY DEF Clients, PutContent, InsertRow, SubmitDies, Cancel, Tick

-----------------------------------------------------------------------------
(* Every action of a daemon keeps the invariant.                           *)

\* What is left to show of an action of w: the others are not concerned.
Keeps(w) ==
    /\ DaemonsTyped'
    /\ DaemonOK(w)'
    /\ \A v \in Workers \ {w} :
          /\ lease'[v] = lease[v] /\ step'[v] = step[v]
          /\ thread'[v] = thread[v] /\ poisoned'[v] = poisoned[v]

LEMMA AskingStep ==
    ASSUME WorkerIInv, NEW w \in Workers,
           Begin(w) \/ Poll(w) \/ Rendered(w)
    PROVE  Keeps(w)
<1>1. UNCHANGED lease
  BY CallsOnLease DEF WorkerIInv, IInv, Begin, Poll, Rendered, Asks, vars
<1>2. CASE Begin(w)
  BY <1>1, <1>2 DEF Begin, Asks, WorkerIInv, DaemonsTyped, DaemonOK, Keeps, At, Alive, Turns,
     NoThread, Steps, Verdicts, ThreadStates, Attending, Delivered
<1>3. CASE Poll(w)
  BY <1>1, <1>3 DEF Poll, Asks, WorkerIInv, DaemonsTyped, DaemonOK, Keeps, At, Alive, Turns,
     LeavesThread, Steps, Verdicts, Attending, Delivered
<1>4. CASE Rendered(w)
  BY <1>1, <1>4 DEF Rendered, Asks, WorkerIInv, DaemonsTyped, DaemonOK, Keeps, At, Alive, Turns,
     LeavesThread, Steps, Verdicts, Attending, Delivered
<1>5. QED
  BY <1>2, <1>3, <1>4

LEMMA LocalStep ==
    ASSUME WorkerIInv, NEW w \in Workers,
           \/ StillRunning(w) \/ InputDiffers(w) \/ StartRender(w) \/ TimesOut(w) \/ Abort(w)
           \/ Grace(w) \/ RenderFailed(w) \/ Rasterize(w)
    PROVE  Keeps(w)
<1>1. UNCHANGED lease
  BY DEF StillRunning, InputDiffers, StartRender, TimesOut, Abort, Grace, RenderFailed,
     Rasterize, vars
<1>2. CASE StillRunning(w) \/ InputDiffers(w) \/ TimesOut(w)
  BY <1>1, <1>2 DEF StillRunning, InputDiffers, TimesOut, WorkerIInv, DaemonsTyped, DaemonOK,
     Keeps, At, Alive, Turns, LeavesThread, Steps, Verdicts, Attending, Delivered
<1>3. CASE StartRender(w)
  <2>1. [state |-> "starting", lease |-> lease[w]]
           \in [state : ThreadStates, lease : Lease \cup {NoLease}]
    BY DEF WorkerIInv, IInv, TypeOK, ThreadStates
  <2>2. QED
    BY <1>1, <1>3, <2>1 DEF StartRender, WorkerIInv, DaemonsTyped, DaemonOK, Keeps, At, Alive,
       Turns, Steps, Verdicts, Attending, Delivered
<1>4. CASE Abort(w)
  BY <1>1, <1>4 DEF Abort, WorkerIInv, DaemonsTyped, DaemonOK, Keeps, At, Alive, Turns,
     LeavesThread, Steps, Verdicts, Attending, Delivered
<1>5. CASE Grace(w)
  <2>1. CASE Alive(w)
    BY <1>1, <1>5, <2>1 DEF Grace, WorkerIInv, DaemonsTyped, DaemonOK, Keeps, At, Alive, Turns,
       Steps, Attending, Delivered
  <2>2. CASE ~Alive(w)
    <3>1. thread' = [thread EXCEPT ![w] = NoThread] /\ UNCHANGED poisoned
      BY <1>5, <2>2 DEF Grace
    <3>2. QED
      BY <1>1, <1>5, <3>1 DEF Grace, WorkerIInv, DaemonsTyped, DaemonOK, Keeps, At, Alive,
         Turns, NoThread, Steps, ThreadStates, Attending, Delivered
  <2>3. QED
    BY <2>1, <2>2
<1>6. CASE RenderFailed(w)
  <2>1. Blame(w) \in Verdicts
    BY DEF Blame, Verdicts
  <2>2. QED
    BY <1>1, <1>6, <2>1 DEF RenderFailed, WorkerIInv, DaemonsTyped, DaemonOK, Keeps, At, Alive,
       Turns, NoThread, Steps, ThreadStates, Attending, Delivered
<1>7. CASE Rasterize(w)
  BY <1>1, <1>7 DEF Rasterize, WorkerIInv, DaemonsTyped, DaemonOK, Keeps, At, Alive, Turns,
     LeavesThread, Steps, Verdicts, Attending, Delivered
<1>8. QED
  BY <1>2, <1>3, <1>4, <1>5, <1>6, <1>7

\* The ends of run_queue_once: back to the loop, or out of the process.
LEMMA LeavingStep ==
    ASSUME WorkerIInv, NEW w \in Workers, lease' = [lease EXCEPT ![w] = NoLease],
           (Done(w) /\ step[w] \notin Attending) \/ Dies(w)
    PROVE  Keeps(w)
<1>1. CASE Done(w) /\ step[w] \notin Attending
  BY <1>1 DEF Done, WorkerIInv, IInv, TypeOK, DaemonsTyped, DaemonOK, Keeps, Alive, Turns,
     LeavesThread, Steps, Verdicts, Attending, Delivered
<1>2. CASE Dies(w)
  BY <1>2 DEF Dies, WorkerIInv, IInv, TypeOK, DaemonsTyped, DaemonOK, Keeps, Alive, Turns,
     NoThread, Steps, Verdicts, ThreadStates, Attending, Delivered
<1>3. QED
  BY <1>1, <1>2

LEMMA EndingStep ==
    ASSUME WorkerIInv, NEW w \in Workers,
           Reports(w) \/ Confirm(w) \/ Completes(w) \/ Declines(w) \/ Acknowledges(w)
    PROVE  Keeps(w)
<1> DEFINE Left == lease' = [lease EXCEPT ![w] = NoLease] /\ (Done(w) \/ Dies(w))
<1>0. Fail(w, verdict[w] = "retry") => lease' = [lease EXCEPT ![w] = NoLease]
  BY DEF Fail
<1>1. CASE Left
  BY <1>1, LeavingStep DEF Reports, Confirm, Completes, Declines, Acknowledges, At, Attending
<1>2. CASE Reports(w)
  BY <1>0, <1>1, <1>2, CallsOnLease DEF Reports, WorkerIInv, IInv
<1>3. CASE Confirm(w) /\ ~Left
  <2>1. /\ UNCHANGED lease
        /\ At(w, "confirm")
        /\ Turns(w, "decline", "none") \/ Turns(w, "complete", "none")
        /\ LeavesThread
    BY <1>3, CallsOnLease DEF Confirm, WorkerIInv, IInv
  <2>2. QED
    BY <2>1 DEF WorkerIInv, DaemonsTyped, DaemonOK, Keeps, At, Alive, Turns, LeavesThread,
       Steps, Verdicts, Attending, Delivered
<1>4. CASE Completes(w) /\ ~Left
  <2>1. /\ UNCHANGED lease
        /\ At(w, "complete")
        /\ Turns(w, "acknowledge", "none")
        /\ LeavesThread
    BY <1>4, CallsOnLease DEF Completes, WorkerIInv, IInv, vars
  <2>2. QED
    BY <2>1 DEF WorkerIInv, DaemonsTyped, DaemonOK, Keeps, At, Alive, Turns, LeavesThread,
       Steps, Verdicts, Attending, Delivered
<1>5. CASE Declines(w) \/ Acknowledges(w)
  BY <1>1, <1>5, CallsOnLease DEF Declines, Acknowledges, WorkerIInv, IInv
<1>6. QED
  BY <1>1, <1>2, <1>3, <1>4, <1>5

LEMMA WorksStep ==
    ASSUME WorkerIInv, NEW w \in Workers, Works(w)
    PROVE  Keeps(w)
BY AskingStep, LocalStep, EndingStep DEF Works

LEMMA ClaimsStep ==
    ASSUME WorkerIInv, IInv', NEW w \in Workers, Claims(w)
    PROVE  Keeps(w)
<1>1. Claim(w) /\ \A v \in Workers \ {w} : lease'[v] = lease[v]
  BY CallsOnLease DEF Claims, WorkerIInv, IInv
<1>2. QED
  BY <1>1 DEF Claims, WorkerIInv, DaemonsTyped, DaemonOK, Keeps, At, Alive, Turns, LeavesThread,
     Steps, Verdicts, Attending, Delivered

\* What the renderer threads do on their own.
LEMMA ThreadStep ==
    ASSUME WorkerIInv, NEW w \in Workers, Enters(w) \/ RenderEnds(w)
    PROVE  Keeps(w)
<1>1. PICK s \in ThreadStates : thread' = [thread EXCEPT ![w].state = s]
  BY DEF Enters, RenderEnds, ThreadStates
<1>2. UNCHANGED <<step, verdict, poisoned, vars>>
  BY DEF Enters, RenderEnds
<1>3. Alive(w)
  BY DEF Enters, RenderEnds, Alive, Driving
<1>4. /\ thread'[w] = [thread[w] EXCEPT !.state = s]
      /\ \A v \in Workers \ {w} : thread'[v] = thread[v]
      /\ thread' \in [Workers -> [state : ThreadStates, lease : Lease \cup {NoLease}]]
  BY <1>1 DEF WorkerIInv, DaemonsTyped
<1>5. thread'[w].state = s /\ thread'[w].lease = thread[w].lease
  BY <1>4 DEF WorkerIInv, DaemonsTyped
<1>6. QED
  BY <1>2, <1>3, <1>4, <1>5 DEF WorkerIInv, DaemonsTyped, DaemonOK, Keeps, Alive, vars,
     Attending, Delivered

LEMMA CrashStep ==
    ASSUME WorkerIInv, NEW w \in Workers, Crash(w)
    PROVE  Keeps(w)
<1>1. lease' = [lease EXCEPT ![w] = NoLease]
  <2>1. CASE lease[w] = NoLease
    BY <2>1 DEF Crash, vars, WorkerIInv, IInv, TypeOK
  <2>2. CASE lease[w] # NoLease
    BY <2>2 DEF Crash, Abandon
  <2>3. QED
    BY <2>1, <2>2
<1>2. QED
  BY <1>1, LeavingStep DEF Crash

LEMMA RestartStep ==
    ASSUME WorkerIInv, NEW w \in Workers, Restart(w)
    PROVE  Keeps(w)
BY DEF Restart, WorkerIInv, DaemonsTyped, DaemonOK, Keeps, At, Alive, Turns, LeavesThread,
   Steps, Verdicts, Attending, Delivered, vars

LEMMA NextWorkerIInv == WorkerIInv /\ [WorkerNext]_allVars => WorkerIInv'
<1> SUFFICES ASSUME WorkerIInv, [WorkerNext]_allVars
             PROVE  WorkerIInv'
  OBVIOUS
<1>1. IInv'
  BY QueueStep, NextIInv DEF WorkerIInv
<1>2. CASE UNCHANGED <<lease, workerVars>>
  BY <1>1, <1>2 DEF WorkerIInv, DaemonsTyped, DaemonOK, Alive, workerVars
<1>3. ASSUME NEW w \in Workers, Keeps(w)
      PROVE  WorkerIInv'
  <2>1. ASSUME NEW v \in Workers \ {w}
        PROVE  DaemonOK(v)'
    BY <1>3, <2>1 DEF WorkerIInv, Keeps, DaemonOK, Alive
  <2>2. QED
    BY <1>1, <1>3, <2>1 DEF WorkerIInv, Keeps
<1>4. CASE UNCHANGED allVars
  BY <1>2, <1>4 DEF allVars, vars
<1>5. CASE Clients /\ UNCHANGED workerVars
  BY <1>2, <1>5, ClientsOnLease
<1>6. ASSUME NEW w \in Workers,
             Claims(w) \/ Works(w) \/ Enters(w) \/ RenderEnds(w) \/ Crash(w) \/ Restart(w)
      PROVE  WorkerIInv'
  BY <1>1, <1>3, <1>6, ClaimsStep, WorksStep, ThreadStep, CrashStep, RestartStep
<1>7. QED
  BY <1>4, <1>5, <1>6 DEF WorkerNext

LEMMA InitWorkerIInv == WorkerInit => WorkerIInv
BY InitIInv DEF WorkerInit, WorkerIInv, DaemonsTyped, DaemonOK, Init, Alive, NoThread, Steps,
   Verdicts, ThreadStates, Attending, Delivered

LEMMA WorkerInvariance == WorkerSpec => []WorkerIInv
BY InitWorkerIInv, NextWorkerIInv, PTL DEF WorkerSpec

\* The variables of every daemon keep their types, and a daemon holds a lease
\* exactly while it is inside run_queue_once.
THEOREM WorkersTyped == WorkerSpec => []WorkerTypeOK
<1>1. WorkerIInv => WorkerTypeOK
  BY DEF WorkerIInv, IInv, DaemonsTyped, DaemonOK, WorkerTypeOK
<1>2. QED
  BY <1>1, WorkerInvariance, PTL

-----------------------------------------------------------------------------
(* The renderers.                                                          *)

LEMMA RendererStep ==
    ASSUME WorkerIInv, [WorkerNext]_allVars, NEW w \in Workers, Alive(w), step'[w] # "down"
    PROVE  thread'[w].lease = thread[w].lease
<1>1. CASE UNCHANGED thread
  BY <1>1
<1>2. ASSUME NEW u \in Workers, Enters(u) \/ RenderEnds(u)
      PROVE  thread'[w].lease = thread[w].lease
  <2>1. PICK s : thread' = [thread EXCEPT ![u].state = s]
    BY <1>2 DEF Enters, RenderEnds
  <2>2. QED
    BY <2>1 DEF WorkerIInv, DaemonsTyped
<1>3. ASSUME NEW u \in Workers, NEW t, thread' = [thread EXCEPT ![u] = t], ~Alive(u)
      PROVE  thread'[w].lease = thread[w].lease
  BY <1>3 DEF WorkerIInv, DaemonsTyped
<1>4. ASSUME NEW u \in Workers, Begin(u) \/ StartRender(u) \/ Grace(u) \/ RenderFailed(u)
      PROVE  thread'[w].lease = thread[w].lease
  <2>1. CASE Begin(u)
    BY <1>3, <2>1 DEF Begin, WorkerIInv, DaemonOK, At, Attending
  <2>2. CASE StartRender(u)
    BY <1>3, <2>2 DEF StartRender, WorkerIInv, DaemonOK, At
  <2>3. CASE Grace(u)
    BY <1>1, <1>3, <2>3 DEF Grace
  <2>4. CASE RenderFailed(u)
    BY <1>3, <2>4 DEF RenderFailed, Alive
  <2>5. QED
    BY <1>4, <2>1, <2>2, <2>3, <2>4
<1>5. ASSUME NEW u \in Workers, Dies(u)
      PROVE  thread'[w].lease = thread[w].lease
  <2>1. u # w
    BY <1>5 DEF Dies, Turns, WorkerIInv, DaemonsTyped
  <2>2. QED
    BY <1>5, <2>1 DEF Dies, WorkerIInv, DaemonsTyped
<1>6. ASSUME NEW u \in Workers, Works(u) \/ Claims(u) \/ Crash(u) \/ Restart(u)
      PROVE  \/ UNCHANGED thread
             \/ Dies(u)
             \/ Begin(u) \/ StartRender(u) \/ Grace(u) \/ RenderFailed(u)
  BY <1>6 DEF Claims, Works, Crash, Restart, StillRunning, InputDiffers, Poll, TimesOut, Abort,
     Rendered, Rasterize, Reports, Confirm, Completes, Declines, Acknowledges, Done, LeavesThread
<1>7. QED
  BY <1>1, <1>2, <1>4, <1>5, <1>6 DEF WorkerNext, allVars, workerVars

\* A daemon starts no renderer next to one of its own that still runs: no step
\* but its own death parts it from a live renderer.
THEOREM RendererKept == WorkerSpec => OneRenderer
<1>1. WorkerIInv /\ [WorkerNext]_allVars =>
        [\A w \in Workers :
            Alive(w) /\ step'[w] # "down" => thread'[w].lease = thread[w].lease]_allVars
  BY RendererStep
<1>2. QED
  BY <1>1, WorkerInvariance, PTL DEF WorkerSpec, OneRenderer

-----------------------------------------------------------------------------
(* Success.                                                                *)

\* Of all that happens to a row only complete makes it succeed.
LEMMA OnlyComplete ==
    ASSUME IInv, [Next]_vars, NEW j \in Jobs,
           row[j].state # "succeeded", row'[j].state = "succeeded"
    PROVE  \E w \in Workers : Complete(w) /\ lease[w].job = j
<1>0. /\ \A k \in Jobs : row[k] \in Row
      /\ \A w \in Workers : lease[w] # NoLease => lease[w].job \in Jobs
  BY DEF IInv, TypeOK, Lease
<1>1. ~UNCHANGED row
  OBVIOUS
<1>2. ASSUME NEW r \in Requests, InsertRow(r)
      PROVE  FALSE
  <2>1. QueuedRow(r.content).state = "queued"
    BY DEF QueuedRow
  <2>2. QED
    BY <1>1, <1>2, <2>1 DEF InsertRow, IInv, TypeOK
<1>3. ASSUME NEW k \in Jobs, Cancel(k)
      PROVE  FALSE
  <2>1. row' = [row EXCEPT ![k] = Asked(row[k])]
    BY <1>3 DEF Cancel, Asked
  <2>2. Asked(row[k]).state \in {"running", "cancelled"}
    BY <1>0, <1>3 DEF Cancel, Asked, Finished, Row
  <2>3. QED
    BY <2>1, <2>2 DEF IInv, TypeOK
<1>4. ASSUME NEW w \in Workers, Claim(w)
      PROVE  FALSE
  <2> DEFINE table == [k \in Jobs |-> Recovered(row[k])]
  <2>1. table[j].state # "succeeded"
    BY <1>0 DEF Recovered, Finished, Requeued, Row
  <2>2. \A k \in Jobs : table[k] \in Row
    BY <1>0, RecoveredFields DEF IInv
  <2>3. \A k \in Jobs : /\ Finished(table[k], "cancelled").state = "cancelled"
                        /\ Started(table[k], w).state = "running"
    BY <2>2 DEF Finished, Started, Row
  <2>4. CASE row' = table
    BY <2>1, <2>4
  <2>5. ASSUME NEW k \in Jobs, row' = [table EXCEPT ![k] = Finished(@, "cancelled")]
        PROVE  FALSE
    BY <2>1, <2>3, <2>5
  <2>6. ASSUME NEW k \in Jobs, row' = [table EXCEPT ![k] = Started(@, w)]
        PROVE  FALSE
    BY <2>1, <2>3, <2>6
  <2>7. QED
    BY <1>4, <2>4, <2>5, <2>6 DEF Claim
<1>5. ASSUME NEW w \in Workers, KeepAlive(w)
      PROVE  FALSE
  BY <1>0, <1>5, OwnedRow DEF KeepAlive, IInv, TypeOK, Row
<1>6. ASSUME NEW w \in Workers, Complete(w)
      PROVE  lease[w].job = j
  BY <1>0, <1>6, OwnedRow DEF Complete, IInv, TypeOK
<1>7. ASSUME NEW w \in Workers, NEW retryable \in BOOLEAN, Fail(w, retryable)
      PROVE  FALSE
  <2>1. row' = [row EXCEPT ![lease[w].job] = GivenUp(row[lease[w].job], w, retryable)]
    BY <1>7 DEF Fail, GivenUp
  <2>2. GivenUp(row[lease[w].job], w, retryable).state \in {"queued", "cancelled", "failed"}
    BY <1>0, <1>7, OwnedRow DEF Fail, GivenUp, Requeued, Finished, Row
  <2>3. QED
    BY <1>0, <2>1, <2>2 DEF IInv, TypeOK
<1>8. CASE PurgeRows
  <2>1. NoRow.state = "absent"
    BY DEF NoRow
  <2>2. QED
    BY <1>8, <2>1 DEF PurgeRows
<1>9. CASE Tick
  <2>1. row'[j] = Aged(row[j])
    BY <1>9 DEF Tick
  <2>2. Aged(row[j]).state = row[j].state
    BY <1>0 DEF Aged, Row
  <2>3. QED
    BY <2>1, <2>2
<1>10. QED
  BY <1>1, <1>2, <1>3, <1>4, <1>5, <1>6, <1>7, <1>8, <1>9
     DEF Next, vars, PutContent, SubmitDies, Abandon, PurgeLook, PurgeUnlink, PurgeDies

\* The daemon that completed the job is the one that took the step.
LEMMA CompletesHere ==
    ASSUME WorkerIInv, [WorkerNext]_allVars, NEW j \in Jobs,
           row[j].state # "succeeded", row'[j].state = "succeeded"
    PROVE  \E w \in Workers : Completes(w) /\ Owned(w) /\ lease[w].job = j
<1>1. PICK w \in Workers : Complete(w) /\ lease[w].job = j
  BY OnlyComplete, QueueStep DEF WorkerIInv
<1>2. /\ Owned(w)
      /\ lease[w] # NoLease
      /\ lease'[w] = NoLease
      /\ lease[w] \in Lease
      /\ lease[w].job \in Jobs
  BY <1>1 DEF Complete, Owned, WorkerIInv, IInv, TypeOK, Lease
<1>3. ~UNCHANGED lease
  BY <1>2
<1>4. ~UNCHANGED row
  OBVIOUS
<1>5. PICK u \in Workers :
         Claims(u) \/ Works(u) \/ Enters(u) \/ RenderEnds(u) \/ Crash(u) \/ Restart(u)
  BY <1>3, ClientsOnLease DEF WorkerNext, allVars, vars
<1>6. u = w
  BY <1>2, <1>5, ClaimsStep, WorksStep, ThreadStep, CrashStep, RestartStep, QueueStep, NextIInv
     DEF Keeps, WorkerIInv
<1>7. ~Fail(w, TRUE) /\ ~Fail(w, FALSE)
  <2>1. ASSUME NEW retryable \in BOOLEAN, Fail(w, retryable)
        PROVE  FALSE
    <3>1. row' = [row EXCEPT ![j] = GivenUp(row[j], w, retryable)]
      BY <1>1, <2>1 DEF Fail, GivenUp
    <3>2. GivenUp(row[j], w, retryable).state \in {"queued", "cancelled", "failed"}
      BY <1>1, <1>2, <2>1 DEF GivenUp, Requeued, Finished, Row, Owned, WorkerIInv, IInv, TypeOK
    <3>3. QED
      BY <3>1, <3>2 DEF WorkerIInv, IInv, TypeOK
  <2>2. QED
    BY <2>1
<1>8. ~Fail(w, verdict[w] = "retry") /\ ~Abandon(w) /\ ~KeepAlive(w)
  <2>1. ~Fail(w, verdict[w] = "retry")
    <3>1. CASE verdict[w] = "retry"
      BY <1>7, <3>1
    <3>2. CASE verdict[w] # "retry"
      BY <1>7, <3>2
    <3>3. QED
      BY <3>1, <3>2
  <2>2. QED
    BY <1>3, <1>4, <2>1 DEF Abandon, KeepAlive
<1>9. Completes(w)
  BY <1>2, <1>3, <1>4, <1>5, <1>6, <1>7, <1>8 DEF Claims, Claim, Works, Enters, RenderEnds, Crash,
     Restart, StillRunning, Begin, InputDiffers, StartRender, Poll, TimesOut, Abort, Grace,
     RenderFailed, Rendered, Rasterize, Reports, Confirm, Declines, Acknowledges, Asks, vars
<1>10. QED
  BY <1>1, <1>2, <1>9

\* A job succeeds on what was rendered under its recorded attempt, by a daemon
\* that still owns it.
THEOREM SuccessKept == WorkerSpec => SuccessIsOwn
<1>1. ASSUME WorkerIInv, [WorkerNext]_allVars, NEW j \in Jobs,
             row[j].state # "succeeded", row'[j].state = "succeeded"
      PROVE  \E w \in Workers :
                thread[w] = [state |-> "pdf",
                             lease |-> [job |-> j, attempt |-> row[j].attempt]]
  <2>1. PICK w \in Workers : Completes(w) /\ Owned(w) /\ lease[w].job = j
    BY <1>1, CompletesHere
  <2>2. lease[w] = [job |-> j, attempt |-> row[j].attempt]
    BY <1>1, <2>1 DEF Owned, WorkerIInv, IInv, TypeOK, Lease
  <2>3. thread[w].state = "pdf" /\ thread[w].lease = lease[w]
    BY <1>1, <2>1 DEF Completes, At, WorkerIInv, DaemonOK, Delivered
  <2>4. thread[w] = [state |-> "pdf", lease |-> lease[w]]
    BY <1>1, <2>3 DEF WorkerIInv, DaemonsTyped
  <2>5. QED
    BY <2>2, <2>4
<1>2. WorkerIInv /\ [WorkerNext]_allVars =>
        [\A j \in Jobs :
            row[j].state # "succeeded" /\ row'[j].state = "succeeded" =>
               \E w \in Workers :
                  thread[w] = [state |-> "pdf",
                               lease |-> [job |-> j, attempt |-> row[j].attempt]]]_allVars
  BY <1>1
<1>3. QED
  BY <1>2, WorkerInvariance, PTL DEF WorkerSpec, SuccessIsOwn
=============================================================================
