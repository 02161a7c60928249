---------------------------- MODULE RenderWorker ----------------------------
(***************************************************************************)
(* Render daemons on the durable queue: run_queue_once and the loop of     *)
(* scripts/hancom_render_worker.py over SerializedHancomWorker of          *)
(* office/rendering/worker.py and the desktop lock of mac_session.py.      *)
(*                                                                         *)
(* A daemon is one process with one renderer thread at a time; between its *)
(* transactions on the queue (module RenderQueue) time passes, clients     *)
(* cancel and other daemons claim.  A renderer that ignores abort stays    *)
(* behind as a poisoned thread.                                            *)
(***************************************************************************)
EXTENDS RenderQueue

CONSTANTS
    SharedDesktop,   \* the daemons share one desktop: hancom_desktop_lock is no no-op
    Crashes          \* whether daemons are killed from outside

VARIABLES
    step,       \* where each daemon is in run_queue_once, "down" when it has died
    verdict,    \* retryable of the failure it will report, or that its lease is lost
    thread,     \* its renderer thread and the lease that thread was started for
    poisoned    \* _poisoned_thread is set

workerVars == <<step, verdict, thread, poisoned>>
allVars == <<vars, workerVars>>

Steps == {"idle", "begin", "ready", "polling", "stopping", "grace", "failing", "raster",
          "confirm", "complete", "decline", "acknowledge", "down"}
Verdicts == {"none", "retry", "never", "lost"}
ThreadStates == {"none", "starting", "driving", "pdf", "error", "refused"}
NoThread == [state |-> "none", lease |-> NoLease]

WorkerTypeOK ==
    /\ TypeOK
    /\ step \in [Workers -> Steps]
    /\ verdict \in [Workers -> Verdicts]
    /\ thread \in [Workers -> [state : ThreadStates, lease : Lease \cup {NoLease}]]
    /\ poisoned \in [Workers -> BOOLEAN]
    /\ \A w \in Workers : lease[w] = NoLease <=> step[w] \in {"idle", "down"}

WorkerInit ==
    /\ Init
    /\ step = [w \in Workers |-> "idle"]
    /\ verdict = [w \in Workers |-> "none"]
    /\ thread = [w \in Workers |-> NoThread]
    /\ poisoned = [w \in Workers |-> FALSE]

At(w, s) == step[w] = s
Alive(w) == thread[w].state \in {"starting", "driving"}
Driving(w) == thread[w].state = "driving"
CancelSeen(w) == row[lease[w].job].cancelRequested

Turns(w, s, v) ==
    /\ step' = [step EXCEPT ![w] = s]
    /\ verdict' = [verdict EXCEPT ![w] = v]
LeavesThread == UNCHANGED <<thread, poisoned>>

\* run_queue_once returns to the loop of the daemon.
Done(w) == Turns(w, "idle", "none") /\ LeavesThread

\* An exception leaves run_queue_once and with it main: the process ends, and
\* its threads, its lock on the desktop and what it remembers with it.  (What a
\* helper process it had started goes on to do is not modelled.)
Dies(w) ==
    /\ Turns(w, "down", "none")
    /\ thread' = [thread EXCEPT ![w] = NoThread]
    /\ poisoned' = [poisoned EXCEPT ![w] = FALSE]

\* keepalive raises LEASE_NOT_OWNED.
KeepAliveRefused(w) == ~(Owned(w) /\ row[lease[w].job].ttl > 0)

\* cancelled(): go on with a renewed lease, or stop with nothing to retry.
Asks(w, onward, stopped) ==
    \/ /\ KeepAlive(w)
       /\ IF CancelSeen(w) THEN Turns(w, stopped, "never") ELSE Turns(w, onward, "none")
    \/ /\ KeepAliveRefused(w)
       /\ Turns(w, stopped, "lost")
       /\ UNCHANGED vars

Claims(w) ==
    /\ At(w, "idle")
    /\ Claim(w)
    /\ IF lease'[w] = NoLease THEN UNCHANGED <<step, verdict>> ELSE Turns(w, "begin", "none")
    /\ LeavesThread

-----------------------------------------------------------------------------
(* SerializedHancomWorker._render_locked.                                  *)

\* POISONED_SESSION_STILL_RUNNING.
StillRunning(w) ==
    /\ At(w, "begin")
    /\ poisoned[w] /\ Alive(w)
    /\ Turns(w, "failing", "retry")
    /\ LeavesThread
    /\ UNCHANGED vars

\* Bug: a poisoned session is replaced without looking whether it still runs.
BeginAnyway(w) ==
    /\ At(w, "begin")
    /\ Asks(w, "ready", "failing")
    /\ poisoned' = [poisoned EXCEPT ![w] = FALSE]
    /\ UNCHANGED thread

\* A poisoned thread that has ended is forgotten, then the client is asked.
Begin(w) ==
    /\ At(w, "begin")
    /\ ~(poisoned[w] /\ Alive(w))
    /\ Asks(w, "ready", "failing")
    /\ thread' = [thread EXCEPT ![w] = NoThread]
    /\ poisoned' = [poisoned EXCEPT ![w] = FALSE]

\* INPUT_HASH_MISMATCH: what was read is not what was submitted.
InputDiffers(w) ==
    /\ At(w, "ready")
    /\ Turns(w, "failing", "never")
    /\ LeavesThread
    /\ UNCHANGED vars

StartRender(w) ==
    /\ At(w, "ready")
    /\ Turns(w, "polling", "none")
    /\ thread' = [thread EXCEPT ![w] = [state |-> "starting", lease |-> lease[w]]]
    /\ UNCHANGED <<poisoned, vars>>

Poll(w) ==
    /\ At(w, "polling") /\ Alive(w)
    /\ Asks(w, "polling", "stopping")
    /\ LeavesThread

\* Bug: every poll moves the deadline on.
NeverLate(w) == FALSE

TimesOut(w) ==
    /\ At(w, "polling") /\ Alive(w)
    /\ Turns(w, "stopping", "retry")
    /\ LeavesThread
    /\ UNCHANGED vars

Abort(w) ==
    /\ At(w, "stopping") /\ Alive(w)
    /\ Turns(w, "grace", verdict[w])
    /\ LeavesThread
    /\ UNCHANGED vars

\* thread.join(abort_grace_seconds): the renderer ends in time or is poisoned.
Grace(w) ==
    /\ At(w, "grace")
    /\ Turns(w, "failing", verdict[w])
    /\ IF Alive(w)
       THEN poisoned' = [poisoned EXCEPT ![w] = TRUE] /\ UNCHANGED thread
       ELSE thread' = [thread EXCEPT ![w] = NoThread] /\ UNCHANGED poisoned
    /\ UNCHANGED vars

\* What a renderer's error says of a retry: any reason a session names is final,
\* a busy desktop included.
Blame(w) ==
    IF verdict[w] = "lost" THEN "lost"
    ELSE IF thread[w].state = "refused" THEN "never" ELSE "retry"

\* The thread has ended by itself, or between the last poll and is_alive.
RenderFailed(w) ==
    /\ step[w] \in {"polling", "stopping"}
    /\ thread[w].state \in {"error", "refused"}
    /\ Turns(w, "failing", Blame(w))
    /\ thread' = [thread EXCEPT ![w] = NoThread]
    /\ UNCHANGED <<poisoned, vars>>

Rendered(w) ==
    /\ step[w] \in {"polling", "stopping"}
    /\ thread[w].state = "pdf"
    /\ Asks(w, "raster", "failing")
    /\ LeavesThread

\* Pages are rasterised and copied out, without a poll however long it takes.
Rasterize(w) ==
    /\ At(w, "raster")
    /\ Turns(w, "confirm", "none") \/ Turns(w, "failing", "retry")
    /\ LeavesThread
    /\ UNCHANGED vars

-----------------------------------------------------------------------------
(* The rest of run_queue_once.                                             *)

\* A lease known to be lost is left alone; queue.fail raises for one that is
\* lost without its being known, and nothing catches that.
Reports(w) ==
    /\ At(w, "failing")
    /\ \/ verdict[w] = "lost" /\ Abandon(w) /\ Done(w)
       \/ verdict[w] # "lost" /\ Fail(w, verdict[w] = "retry") /\ Done(w)
       \/ verdict[w] # "lost" /\ ~Owned(w) /\ Abandon(w) /\ Dies(w)

\* The keepalive that precedes complete.
Confirm(w) ==
    /\ At(w, "confirm")
    /\ \/ /\ KeepAlive(w)
          /\ Turns(w, IF CancelSeen(w) THEN "decline" ELSE "complete", "none")
          /\ LeavesThread
       \/ KeepAliveRefused(w) /\ Abandon(w) /\ Done(w)

Completes(w) ==
    /\ At(w, "complete")
    /\ \/ Complete(w) /\ Done(w)
       \/ /\ Owned(w) /\ CancelSeen(w)
          /\ Turns(w, "acknowledge", "none") /\ LeavesThread
          /\ UNCHANGED vars
       \/ ~Owned(w) /\ Abandon(w) /\ Done(w)

\* queue.fail inside the try: a lost lease is caught.
Declines(w) ==
    /\ At(w, "decline")
    /\ \/ Fail(w, FALSE) /\ Done(w)
       \/ ~Owned(w) /\ Abandon(w) /\ Done(w)

\* queue.fail in the handler of CANCEL_REQUESTED: a lost lease is not.
Acknowledges(w) ==
    /\ At(w, "acknowledge")
    /\ \/ Fail(w, FALSE) /\ Done(w)
       \/ ~Owned(w) /\ Abandon(w) /\ Dies(w)

-----------------------------------------------------------------------------
(* The renderer threads, and what happens to daemons.                      *)

\* What module DesktopLock shows of the lock: at most one of its users is inside.
DesktopBusy == SharedDesktop /\ \E v \in Workers : Driving(v)

\* hancom_desktop_lock(wait=0): a desktop that is in use refuses the document.
Enters(w) ==
    /\ thread[w].state = "starting"
    /\ \/ DesktopBusy /\ thread' = [thread EXCEPT ![w].state = "refused"]
       \/ ~DesktopBusy /\ thread' = [thread EXCEPT ![w].state = "driving"]
    /\ UNCHANGED <<step, verdict, poisoned, vars>>

RenderEnds(w) ==
    /\ Driving(w)
    /\ \E s \in {"pdf", "error", "refused"} : thread' = [thread EXCEPT ![w].state = s]
    /\ UNCHANGED <<step, verdict, poisoned, vars>>

Crash(w) ==
    /\ Crashes
    /\ ~At(w, "down")
    /\ IF lease[w] = NoLease THEN UNCHANGED vars ELSE Abandon(w)
    /\ Dies(w)

Restart(w) ==
    /\ At(w, "down")
    /\ Turns(w, "idle", "none")
    /\ LeavesThread
    /\ UNCHANGED vars

Clients ==
    \/ \E r \in Requests : PutContent(r) \/ InsertRow(r) \/ SubmitDies(r)
    \/ \E j \in Jobs : Cancel(j)
    \/ Tick

\* What a daemon's main thread does while it holds a lease.
Works(w) ==
    \/ StillRunning(w) \/ Begin(w) \/ InputDiffers(w) \/ StartRender(w) \/ Poll(w)
    \/ TimesOut(w) \/ Abort(w) \/ Grace(w) \/ RenderFailed(w) \/ Rendered(w) \/ Rasterize(w)
    \/ Reports(w) \/ Confirm(w) \/ Completes(w) \/ Declines(w) \/ Acknowledges(w)

WorkerNext ==
    \/ Clients /\ UNCHANGED workerVars
    \/ \E w \in Workers :
          Claims(w) \/ Works(w) \/ Enters(w) \/ RenderEnds(w) \/ Crash(w) \/ Restart(w)

WorkerSpec == WorkerInit /\ [][WorkerNext]_allVars

\* Daemons run, deadlines pass, and the service manager restarts what died,
\* which is not killed every time before it can claim; a renderer that drives
\* the application may do so for ever.
WorkerFairness(w) ==
    /\ WF_allVars(Works(w))
    /\ WF_allVars(TimesOut(w))
    /\ WF_allVars(Enters(w))
    /\ SF_allVars(Claims(w))
    /\ WF_allVars(Restart(w))
WorkerFairSpec ==
    /\ WorkerSpec
    /\ WF_allVars(Tick /\ UNCHANGED workerVars)
    /\ \A w \in Workers : WorkerFairness(w)

-----------------------------------------------------------------------------
(* Properties.                                                             *)

\* A daemon starts no renderer while an earlier one of its own still runs, the
\* poisoned one included, and forgets none but by dying.
OneRenderer ==
    [][\A w \in Workers :
         Alive(w) /\ step'[w] # "down" => thread'[w].lease = thread[w].lease]_allVars

\* A job succeeds on what was rendered under the attempt that is recorded for
\* it, by a daemon that was never out of its lease, though attempts overlap.
SuccessIsOwn ==
    [][\A j \in Jobs :
         row[j].state # "succeeded" /\ row'[j].state = "succeeded" =>
            \E w \in Workers :
                thread[w] = [state |-> "pdf",
                             lease |-> [job |-> j, attempt |-> row[j].attempt]]]_allVars

\* Whatever the renderer does, a daemon gets rid of its lease: the assumption
\* under which the queue settles its jobs.
LeaseEnds == \A w \in Workers : lease[w] # NoLease ~> lease[w] = NoLease

\* A job that was queued ends, though renderers hang and ignore abort, the
\* desktop stays busy, daemons die and leases are lost.
WorkSettles ==
    \A j \in Jobs :
        row[j].state \in {"queued", "running"} ~> row[j].state \in Terminal

\* A daemon that got its render through is not brought down by what clients and
\* other daemons do at the completion boundary.
CompletionSurvives ==
    [][\A w \in Workers :
         step[w] \in {"confirm", "complete", "decline", "acknowledge"} /\ ~Crashes =>
            step'[w] # "down"]_allVars
=============================================================================
