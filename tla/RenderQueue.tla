----------------------------- MODULE RenderQueue -----------------------------
(***************************************************************************)
(* The durable render queue: DurableRenderQueue and ContentAddressedStore  *)
(* of workflow/render_queue.py.                                            *)
(*                                                                         *)
(* Every method of the queue is one BEGIN IMMEDIATE transaction on one     *)
(* SQLite file, so each is one action here; the two methods that also act  *)
(* outside their transaction are split there: submit puts the blob and     *)
(* reads the time before it, purge looks at blobs after it.  Workers are   *)
(* the processes that hold a RenderLease: between two calls a worker may   *)
(* be arbitrarily slow, die, or find its lease gone.                       *)
(*                                                                         *)
(* Wall-clock times are kept relative: ttl is lease_expires_at - now, age  *)
(* is now - terminal_at, both saturating, so that time has no end.         *)
(***************************************************************************)
EXTENDS Integers, FiniteSets

CONSTANTS
    Jobs,            \* job ids (each with the idempotency key it travels with)
    Contents,        \* content addresses (SHA-256 of the document bytes)
    Requests,        \* the submissions clients make: [job, content]
    Workers,         \* worker processes
    WorkerIds,       \* the names given by --worker-id
    WorkerId,        \* the name each process was started with
    MaxAttempts,     \* max_attempts of the queue
    LeaseTicks,      \* lease_seconds, in ticks
    RetentionTicks,  \* max of the two retention periods, in ticks
    PurgeCalled,     \* whether an operator calls purge
    NoWorker,        \* NULL in the worker_id column
    NoContent,       \* the content of a row that does not exist
    NoLease          \* a worker that holds no lease

Terminal == {"succeeded", "failed", "unavailable", "cancelled"}
Status   == {"absent", "queued", "running"} \cup Terminal
Request  == [job : Jobs, content : Contents]
Lease    == [job : Jobs, attempt : Nat]

ASSUME QueueAssumption ==
    /\ Requests \subseteq Request
    /\ WorkerId \in [Workers -> WorkerIds]
    /\ NoWorker \notin WorkerIds
    /\ NoLease \notin Lease
    /\ MaxAttempts \in Nat \ {0}
    /\ LeaseTicks \in Nat \ {0}
    /\ RetentionTicks \in Nat
    /\ PurgeCalled \in BOOLEAN

VARIABLES
    row,        \* table render_jobs, by job id
    older,      \* ORDER BY created_at: pairs of submissions and of rows, by their time
    blobs,      \* content addresses present in the content store
    lease,      \* the RenderLease each worker process holds
    pending,    \* submissions between content.put and their INSERT
    purging,    \* content addresses a purge has yet to examine
    unlinking,  \* content addresses a purge found unreferenced
    overlapped, \* history: submissions a purge's unlinking overlapped
    raced       \* history: jobs that such a submission queued

vars == <<row, older, blobs, lease, pending, purging, unlinking, overlapped, raced>>
storeVars == <<blobs, pending, purging, unlinking, overlapped, raced>>

TtlRange == -1 .. LeaseTicks
AgeRange == 0 .. RetentionTicks
Row == [state : Status, attempt : Nat, worker : WorkerIds \cup {NoWorker},
        ttl : TtlRange, cancelRequested : BOOLEAN,
        receipt : Status, age : AgeRange,
        content : Contents \cup {NoContent}]

NoRow == [state |-> "absent", attempt |-> 0, worker |-> NoWorker, ttl |-> 0,
          cancelRequested |-> FALSE, receipt |-> "absent", age |-> 0,
          content |-> NoContent]

\* The INSERT of submit.
QueuedRow(c) ==
    [state |-> "queued", attempt |-> 0, worker |-> NoWorker, ttl |-> 0,
     cancelRequested |-> FALSE, receipt |-> "queued", age |-> 0, content |-> c]

Present == {j \in Jobs : row[j].state # "absent"}
Timed == Jobs \cup Requests

TypeOK ==
    /\ row \in [Jobs -> Row]
    /\ older \in SUBSET (Timed \X Timed)
    /\ blobs \in SUBSET Contents
    /\ lease \in [Workers -> Lease \cup {NoLease}]
    /\ pending \in SUBSET Requests
    /\ purging \in SUBSET Contents
    /\ unlinking \in SUBSET Contents
    /\ overlapped \in SUBSET Requests
    /\ raced \in SUBSET Jobs

Init ==
    /\ row = [j \in Jobs |-> NoRow]
    /\ older = {}
    /\ blobs = {}
    /\ lease = [w \in Workers |-> NoLease]
    /\ pending = {}
    /\ purging = {}
    /\ unlinking = {}
    /\ overlapped = {}
    /\ raced = {}

-----------------------------------------------------------------------------
(* Row updates: the UPDATE statements the methods share.                   *)

\* _terminal_from_row and the terminal UPDATE around it.
Finished(r, status) ==
    [r EXCEPT !.state = status, !.receipt = status, !.worker = NoWorker,
              !.ttl = 0, !.age = 0]

\* A row given back to the queue; only fail writes a fresh receipt with it.
Requeued(r) == [r EXCEPT !.state = "queued", !.worker = NoWorker, !.ttl = 0]

\* Bug: the exhausted row ends, but get goes on serving its running receipt.
RecoveredSilently(r) ==
    IF r.state = "running" /\ r.ttl < 0
    THEN IF r.attempt >= MaxAttempts
         THEN [Finished(r, "unavailable") EXCEPT !.receipt = r.receipt]
         ELSE Requeued(r)
    ELSE r

\* One row under _recover_expired: a lease strictly in the past is taken away.
Recovered(r) ==
    IF r.state = "running" /\ r.ttl < 0
    THEN IF r.attempt >= MaxAttempts THEN Finished(r, "unavailable")
                                     ELSE Requeued(r)
    ELSE r

Started(r, w) ==
    [r EXCEPT !.state = "running", !.receipt = "running",
              !.attempt = r.attempt + 1, !.worker = WorkerId[w],
              !.ttl = LeaseTicks]

\* Bug: ownership is judged by the worker's name alone.
OwnedByName(w) ==
    /\ lease[w] # NoLease
    /\ row[lease[w].job].state = "running"
    /\ row[lease[w].job].worker = WorkerId[w]

\* _owned_running: the lease names the row's current worker and attempt.
Owned(w) ==
    /\ lease[w] # NoLease
    /\ row[lease[w].job].state = "running"
    /\ row[lease[w].job].worker = WorkerId[w]
    /\ row[lease[w].job].attempt = lease[w].attempt

-----------------------------------------------------------------------------
(* Clients.                                                                *)

Timing(r) == {p \in older : p[1] = r \/ p[2] = r}

\* The time a submission read becomes the created_at of the row it inserts.
Renamed(r) ==
    {<<IF p[1] = r THEN r.job ELSE p[1], IF p[2] = r THEN r.job ELSE p[2]>> : p \in older}

\* submit, up to its utcnow: a blob that exists already is left as it is, and
\* the time the row will be ordered by is read before the transaction.
PutContent(r) ==
    /\ r \notin pending
    /\ pending' = pending \cup {r}
    /\ blobs' = blobs \cup {r.content}
    /\ older' = older \cup ((Present \cup pending) \X {r})
    /\ overlapped' = IF r.content \in unlinking THEN overlapped \cup {r} ELSE overlapped
    /\ UNCHANGED <<row, lease, purging, unlinking, raced>>

\* submit's transaction.  An existing row is returned when the request is the
\* same, and refused with IDEMPOTENCY_CONFLICT when it is not.
InsertRow(r) ==
    /\ r \in pending
    /\ pending' = pending \ {r}
    /\ overlapped' = overlapped \ {r}
    /\ IF r.job \in Present
       THEN /\ older' = older \ Timing(r)
            /\ UNCHANGED <<row, raced>>
       ELSE /\ row' = [row EXCEPT ![r.job] = QueuedRow(r.content)]
            /\ older' = Renamed(r)
            /\ raced' = IF r \in overlapped THEN raced \cup {r.job} ELSE raced
    /\ UNCHANGED <<blobs, lease, purging, unlinking>>

\* The client's process dies between content.put and the transaction.
SubmitDies(r) ==
    /\ r \in pending
    /\ pending' = pending \ {r}
    /\ overlapped' = overlapped \ {r}
    /\ older' = older \ Timing(r)
    /\ UNCHANGED <<row, blobs, lease, purging, unlinking, raced>>

\* Bug: cancel does not leave terminal rows alone.
CancelAnyRow(j) ==
    /\ row[j].state # "absent"
    /\ row' = [row EXCEPT ![j] =
                  [(IF @.state = "running" THEN @ ELSE Finished(@, "cancelled"))
                      EXCEPT !.cancelRequested = TRUE]]
    /\ UNCHANGED <<older, lease, storeVars>>

\* cancel: a running job is only asked to stop; the worker acknowledges.
Cancel(j) ==
    /\ row[j].state \in {"queued", "running"}
    /\ row' = [row EXCEPT ![j] =
                  [(IF @.state = "running" THEN @ ELSE Finished(@, "cancelled"))
                      EXCEPT !.cancelRequested = TRUE]]
    /\ UNCHANGED <<older, lease, storeVars>>

-----------------------------------------------------------------------------
(* Workers.                                                                *)

\* Bug: no ORDER BY.
AnyQueued(table, j) == table[j].state = "queued"

\* Bug: only jobs that nobody cancelled are looked for.
WantedQueued(table, j) == table[j].state = "queued" /\ ~table[j].cancelRequested

\* The queued row a claim picks: ORDER BY created_at, job_id LIMIT 1.
OldestQueued(table, j) ==
    /\ table[j].state = "queued"
    /\ \A k \in Jobs : table[k].state = "queued" => <<k, j>> \notin older

\* claim: recover the expired leases, then start, or bury, the oldest row.
Claim(w) ==
    /\ lease[w] = NoLease
    /\ LET table == [j \in Jobs |-> Recovered(row[j])] IN
       \/ /\ \A j \in Jobs : table[j].state # "queued"
          /\ row' = table
          /\ UNCHANGED lease
       \/ \E j \in Jobs :
          /\ OldestQueued(table, j)
          /\ table[j].cancelRequested
          /\ row' = [table EXCEPT ![j] = Finished(@, "cancelled")]
          /\ UNCHANGED lease
       \/ \E j \in Jobs :
          /\ OldestQueued(table, j)
          /\ ~table[j].cancelRequested
          /\ row' = [table EXCEPT ![j] = Started(@, w)]
          /\ lease' = [lease EXCEPT ![w] =
                          [job |-> j, attempt |-> table[j].attempt + 1]]
    /\ UNCHANGED <<older, storeVars>>

\* keepalive: a lease that has run out is refused even before it is recovered.
KeepAlive(w) ==
    /\ Owned(w)
    /\ row[lease[w].job].ttl > 0
    /\ row' = [row EXCEPT ![lease[w].job].ttl = LeaseTicks]
    /\ UNCHANGED <<older, lease, storeVars>>

\* Bug: completion does not look at cancel_requested.
CompleteCancelled(w) ==
    /\ Owned(w)
    /\ row' = [row EXCEPT ![lease[w].job] = Finished(@, "succeeded")]
    /\ lease' = [lease EXCEPT ![w] = NoLease]
    /\ UNCHANGED <<older, storeVars>>

\* complete: refused with CANCEL_REQUESTED once the client asked to stop.
Complete(w) ==
    /\ Owned(w)
    /\ ~row[lease[w].job].cancelRequested
    /\ row' = [row EXCEPT ![lease[w].job] = Finished(@, "succeeded")]
    /\ lease' = [lease EXCEPT ![w] = NoLease]
    /\ UNCHANGED <<older, storeVars>>

\* fail: back to the queue while attempts remain and nobody cancelled.
Fail(w, retryable) ==
    /\ Owned(w)
    /\ LET r == row[lease[w].job] IN
       row' = [row EXCEPT ![lease[w].job] =
                  IF retryable /\ lease[w].attempt < MaxAttempts /\ ~r.cancelRequested
                  THEN [Requeued(r) EXCEPT !.receipt = "queued"]
                  ELSE Finished(r, IF r.cancelRequested THEN "cancelled" ELSE "failed")]
    /\ lease' = [lease EXCEPT ![w] = NoLease]
    /\ UNCHANGED <<older, storeVars>>

\* The worker process dies, or returns because its lease is not its own.
Abandon(w) ==
    /\ lease[w] # NoLease
    /\ lease' = [lease EXCEPT ![w] = NoLease]
    /\ UNCHANGED <<row, older, storeVars>>

-----------------------------------------------------------------------------
(* Retention and time.                                                     *)

Expendable == {j \in Jobs : row[j].state \in Terminal /\ row[j].age = RetentionTicks}

\* purge's transaction: the rows go first, their blobs are looked at after.
PurgeRows ==
    /\ PurgeCalled
    /\ Expendable # {}
    /\ row' = [j \in Jobs |-> IF j \in Expendable THEN NoRow ELSE row[j]]
    /\ older' = {p \in older : p[1] \notin Expendable /\ p[2] \notin Expendable}
    /\ purging' = purging \cup {row[j].content : j \in Expendable}
    /\ raced' = raced \ Expendable
    /\ UNCHANGED <<blobs, lease, pending, unlinking, overlapped>>

\* Bug: purge unlinks what a row it deleted named, whoever else names it.
PurgeBlindly(c) ==
    /\ c \in purging
    /\ purging' = purging \ {c}
    /\ unlinking' = unlinking \cup {c}
    /\ overlapped' = overlapped \cup {r \in pending : r.content = c}
    /\ UNCHANGED <<row, older, blobs, lease, pending, raced>>

Referenced(c) == \E j \in Present : row[j].content = c

\* purge's query for one path, on a connection of its own.
PurgeLook(c) ==
    /\ c \in purging
    /\ purging' = purging \ {c}
    /\ IF Referenced(c)
       THEN UNCHANGED <<unlinking, overlapped>>
       ELSE /\ unlinking' = unlinking \cup {c}
            /\ overlapped' = overlapped \cup {r \in pending : r.content = c}
    /\ UNCHANGED <<row, older, blobs, lease, pending, raced>>

PurgeUnlink(c) ==
    /\ c \in unlinking
    /\ unlinking' = unlinking \ {c}
    /\ blobs' = blobs \ {c}
    /\ UNCHANGED <<row, older, lease, pending, purging, overlapped, raced>>

\* The purging process dies: what it had left to examine is forgotten.
PurgeDies ==
    /\ purging \cup unlinking # {}
    /\ purging' = {}
    /\ unlinking' = {}
    /\ UNCHANGED <<row, older, blobs, lease, pending, overlapped, raced>>

Aged(r) ==
    [r EXCEPT !.ttl = IF r.state = "running" /\ r.ttl >= 0 THEN r.ttl - 1 ELSE r.ttl,
              !.age = IF r.state \in Terminal /\ r.age < RetentionTicks
                      THEN r.age + 1 ELSE r.age]

Tick ==
    /\ row' = [j \in Jobs |-> Aged(row[j])]
    /\ UNCHANGED <<older, lease, storeVars>>

-----------------------------------------------------------------------------
Next ==
    \/ \E r \in Requests : PutContent(r) \/ InsertRow(r) \/ SubmitDies(r)
    \/ \E j \in Jobs : Cancel(j)
    \/ \E w \in Workers : Claim(w) \/ KeepAlive(w) \/ Complete(w) \/ Abandon(w)
    \/ \E w \in Workers, retryable \in BOOLEAN : Fail(w, retryable)
    \/ PurgeRows \/ PurgeDies
    \/ \E c \in Contents : PurgeLook(c) \/ PurgeUnlink(c)
    \/ Tick

\* A worker's call always ends: the render watchdog bounds it, and every path
\* of run_queue_once leaves through complete, fail, a lost lease or a crash.
Leave(w) == Complete(w) \/ Abandon(w) \/ \E retryable \in BOOLEAN : Fail(w, retryable)

\* Time passes, some daemon keeps polling, and no worker holds a lease forever.
Fairness ==
    /\ WF_vars(Tick)
    /\ WF_vars(\E w \in Workers : Claim(w))
    /\ \A w \in Workers : WF_vars(Leave(w))

Spec == Init /\ [][Next]_vars
FairSpec == Spec /\ Fairness

-----------------------------------------------------------------------------
(* Properties.                                                             *)

\* No two worker processes hold a lease that _owned_running would accept for
\* the same job, even when every daemon was started under the default name.
OneOwner ==
    \A v, w \in Workers :
        Owned(v) /\ Owned(w) /\ lease[v].job = lease[w].job => v = w

\* claim itself never compares attempts: a row waits in the queue only while an
\* attempt is left, so no job is started more than max_attempts times.
AttemptsLeft ==
    \A j \in Jobs :
        /\ row[j].attempt <= MaxAttempts
        /\ row[j].state = "queued" => row[j].attempt < MaxAttempts

\* What get returns to a polling client is terminal exactly when the job is, and
\* then it is the job's own outcome: no requeue or recovery leaves a stale one.
ReceiptTellsTheEnd ==
    \A j \in Jobs :
        row[j].state \in Terminal \/ row[j].receipt \in Terminal
            => row[j].receipt = row[j].state

\* After a client's cancel is recorded the job is never started again, whoever
\* loses the lease or asks for a retry, and it never ends as succeeded.
CancelSticks ==
    [][\A j \in Jobs :
         row[j].cancelRequested /\ row'[j].state # "absent" =>
            /\ row'[j].cancelRequested
            /\ row'[j].attempt = row[j].attempt
            /\ row'[j].state # "succeeded"]_vars

\* Seen by its client, every job follows the abstract lifecycle: it begins at
\* most max_attempts times, ends for a reason of its own, stays ended, and after
\* a recorded cancel only ever ends.
Lifecycle == INSTANCE RenderJobLifecycle
    WITH job <- [j \in Jobs |-> [state |-> row[j].state, tries |-> row[j].attempt,
                                 cancelled |-> row[j].cancelRequested]]
KeepsLifecycle == Lifecycle!Spec

\* A job that is waiting or running, whatever its workers do, reaches a terminal
\* row: no lease is lost for good and no later submission overtakes it forever.
JobsSettle ==
    \A j \in Jobs :
        row[j].state \in {"queued", "running"} ~>
            row[j].state \in Terminal \cup {"absent"}

\* The lease that claim hands out names a source the worker can read, although
\* purges delete rows that share the document and submissions of it die, conflict
\* or come late.  The one way to lose it is a submission that overlaps the moment
\* between purge's look for references and its unlink.
LeasedInputExists ==
    \A w \in Workers :
        Owned(w) => row[lease[w].job].content \in blobs \/ lease[w].job \in raced
=============================================================================
