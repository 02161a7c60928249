-------------------------- MODULE RenderJobLifecycle --------------------------
(***************************************************************************)
(* What the render queue promises the client of one job, whatever workers, *)
(* leases and purges do behind it (RenderStatus and the receipts of        *)
(* workflow/render_contracts.py).  One queue transaction may move several  *)
(* jobs, so a step moves every job independently.                          *)
(***************************************************************************)
EXTENDS Naturals

CONSTANTS Jobs, MaxAttempts

VARIABLE job    \* what a client can know of each job

Terminal == {"succeeded", "failed", "unavailable", "cancelled"}

Known(state, tries, cancelled) ==
    [state |-> state, tries |-> tries, cancelled |-> cancelled]
Unknown == Known("absent", 0, FALSE)

\* A render begins, perhaps after a worker was lost, while tries remain and
\* nobody cancelled.
Begins(old, new) ==
    /\ old.state \in {"queued", "running"}
    /\ ~old.cancelled
    /\ old.tries < MaxAttempts
    /\ new = Known("running", old.tries + 1, old.cancelled)

\* A render is given up and will be tried again.
GivenBack(old, new) ==
    /\ old.state = "running"
    /\ old.tries < MaxAttempts
    /\ new = Known("queued", old.tries, old.cancelled)

\* The client asks to stop: at once while waiting, by the worker while running.
Asked(old, new) ==
    \/ old.state = "running" /\ new = Known("running", old.tries, TRUE)
    \/ old.state = "queued" /\ new = Known("cancelled", old.tries, TRUE)

\* Each terminal status has its own reason.
Reason(status, old) ==
    CASE status = "succeeded"   -> ~old.cancelled
      [] status = "failed"      -> ~old.cancelled
      [] status = "unavailable" -> old.tries = MaxAttempts
      [] status = "cancelled"   -> old.cancelled

Ends(old, new) ==
    /\ old.state = "running"
    /\ \E status \in Terminal :
          /\ Reason(status, old)
          /\ new = Known(status, old.tries, old.cancelled)

\* A cancelled job that had been given back is buried when its turn comes.
Buried(old, new) ==
    /\ old.state = "queued"
    /\ old.cancelled
    /\ new = Known("cancelled", old.tries, TRUE)

JobStep(old, new) ==
    \/ new = old
    \/ old = Unknown /\ new = Known("queued", 0, FALSE)
    \/ old.state \in Terminal /\ new = Unknown
    \/ Begins(old, new) \/ GivenBack(old, new) \/ Asked(old, new)
    \/ Ends(old, new) \/ Buried(old, new)

Init == job = [j \in Jobs |-> Unknown]
Next ==
    /\ DOMAIN job' = Jobs
    /\ \A j \in Jobs : JobStep(job[j], job'[j])
Spec == Init /\ [][Next]_job
=============================================================================
