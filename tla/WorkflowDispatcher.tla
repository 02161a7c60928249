-------------------------- MODULE WorkflowDispatcher --------------------------
(***************************************************************************)
(* AllowlistedDispatcher.dispatch_durable of workflow/dispatcher.py, with  *)
(* WorkflowPolicyEngine.authorize_action of workflow/policy.py, run by     *)
(* several processes over one WorkflowStore.                               *)
(*                                                                         *)
(* Every request builds its own service over the shared store file, so a   *)
(* process is a call in progress: between two store transactions anything  *)
(* may happen elsewhere, and the process may be gone (Stops).              *)
(***************************************************************************)
EXTENDS WorkflowStore

CONSTANTS
    Procs,          \* processes serving requests
    Edit,           \* the destructive action of the plan
    MaxAttempts,    \* budget.max_attempts
    Says,           \* what the tools' results may say
    Found           \* what may be at the output path when the workflow starts

VARIABLES
    call,       \* the call each process is in
    runs,       \* how often each action's tool has been entered
    output      \* the output document: absent, unrelated, the source's copy, edited

dispatchVars == <<call, runs, output>>

Steps == {"idle", "rejecting", "abstaining", "continue", "planned",
          "prepare", "copy",
          "dispatch", "start", "tool", "put", "finish", "returned", "refused",
          "doubt", "stuck", "review", "verify", "check", "next", "render",
          "submitted", "rendered", "complete", "approve", "reject", "approved",
          "rejected", "cancel", "cancelling"}

Call == [pc : Steps, record : Versioned, action : Actions \cup {NoAction},
         attempt : Nat, says : Verdicts \cup RenderStatus,
         check : Nat, resuming : BOOLEAN]

\* A call that has chosen no action yet.
Fresh(pc, record, check, resuming) ==
    [pc |-> pc, record |-> record, action |-> NoAction, attempt |-> 0,
     says |-> "none", check |-> check, resuming |-> resuming]

NoCall == Fresh("idle", [state |-> "intake", version |-> 0], 0, FALSE)

DispatchTypeOK ==
    /\ call \in [Procs -> Call]
    /\ runs \in [Actions -> Nat]
    /\ output \in {"absent", "other", "copy", "edited"}

DispatchInit ==
    /\ call = [p \in Procs |-> NoCall]
    /\ runs = [a \in Actions |-> 0]
    /\ output \in Found

At(p, pc) == call[p].pc = pc
Goes(p, pc) == call' = [call EXCEPT ![p].pc = pc]
Returns(p) == call' = [call EXCEPT ![p] = NoCall]
\* ... with the record the transaction it just made returned.
GoesWith(p, pc) == call' = [call EXCEPT ![p].pc = pc, ![p].record = Record']

-----------------------------------------------------------------------------
(* The receipts of one action.                                             *)

ReceiptsOf(type, a) == {e \in ledger : e.type = type /\ e.action = a}
Started(a) == ReceiptsOf("dispatch.started", a)
Failed(a) == ReceiptsOf("dispatch.failed", a)
Completed(a) == ReceiptsOf("dispatch.completed", a)

\* Bug: a started attempt without an end is tried again.
NeverInDoubt(a) == FALSE

InDoubt(a) ==
    \E e \in Started(a) :
        \A f \in Failed(a) \cup Completed(a) : f.attempt # e.attempt

Approved == ReceiptsOf("decision.approved", Edit) # {}

-----------------------------------------------------------------------------
\* A completed action is answered from the stored result; without one the
\* KeyError of get_action_result ends the call.
DispatchReplayed(p) ==
    LET a == call[p].action IN
    /\ At(p, "dispatch")
    /\ Completed(a) # {}
    /\ Readable(a)
    /\ call' = [call EXCEPT ![p].pc = "returned", ![p].says = results[a]]
    /\ UNCHANGED <<storeVars, runs, output>>

\* DISPATCH_IN_DOUBT.
DispatchInDoubt(p) ==
    /\ At(p, "dispatch")
    /\ Completed(call[p].action) = {}
    /\ InDoubt(call[p].action)
    /\ Goes(p, "doubt")
    /\ UNCHANGED <<storeVars, runs, output>>

\* authorize_action or resolve refuses.  Capability skew, the elapsed-time and
\* tool-call budgets, a source that changed on disk and a missing tool are the
\* environment's choice.
DispatchRefused(p) ==
    /\ At(p, "dispatch")
    /\ Completed(call[p].action) = {}
    /\ ~InDoubt(call[p].action)
    /\ Goes(p, "refused")
    /\ UNCHANGED <<storeVars, runs, output>>

\* Bug: a failed attempt is tried again under its own number.
AuthorizedAgain(p) ==
    LET a == call[p].action IN
    /\ At(p, "dispatch")
    /\ Completed(a) = {}
    /\ ~InDoubt(a)
    /\ call[p].record.state \notin Terminal
    /\ Cardinality(Started(a)) < MaxAttempts
    /\ a = Edit => Approved
    /\ call' = [call EXCEPT ![p].pc = "start", ![p].attempt = 1]
    /\ UNCHANGED <<storeVars, runs, output>>

\* Every budget, revision and decision of authorize_action holds.  The events are
\* read after the record whose version is compared, so a receipt of another call
\* may come in between; the started receipt is conditional on that version.
DispatchAuthorized(p) ==
    LET a == call[p].action IN
    /\ At(p, "dispatch")
    /\ Completed(a) = {}
    /\ ~InDoubt(a)
    /\ call[p].record.state \notin Terminal
    /\ Cardinality(Started(a)) < MaxAttempts
    /\ a = Edit => Approved
    /\ call' = [call EXCEPT ![p].pc = "start",
                            ![p].attempt = Cardinality(Started(a)) + 1]
    /\ UNCHANGED <<storeVars, runs, output>>

\* Whether append_event created the receipt or found it is not looked at.
DispatchStarted(p) ==
    LET a == call[p].action IN
    /\ At(p, "start")
    /\ AppendEvent(Receipted("dispatch.started", a, call[p].attempt, "none"),
                   call[p].record)
    /\ GoesWith(p, "tool")
    /\ runs' = [runs EXCEPT ![a] = @ + 1]
    /\ UNCHANGED output

\* The document after a tool that was entered, whether or not it got far.
Touched(a) == output' \in {output, IF a = Edit THEN "edited" ELSE output}

ToolReturns(p) ==
    /\ At(p, "tool")
    /\ \E verdict \in Says :
          /\ call' = [call EXCEPT ![p].pc = "put", ![p].says = verdict]
          /\ Touched(call[p].action)
          /\ verdict # "bad" /\ call[p].action = Edit => output' = "edited"
    /\ UNCHANGED <<storeVars, runs>>

\* dispatch.failed, then the exception leaves the call.
ToolRaises(p) ==
    /\ At(p, "tool")
    /\ AppendEvent(Receipted("dispatch.failed", call[p].action, call[p].attempt, "none"),
                   call[p].record)
    /\ Touched(call[p].action)
    /\ Returns(p)
    /\ UNCHANGED runs

\* Bug: only the result of a tool that succeeded is kept.
ResultStoredIfGood(p) ==
    /\ At(p, "put")
    /\ IF call[p].says = "bad" THEN UNCHANGED storeVars ELSE PutResult(call[p].action, call[p].says)
    /\ Goes(p, "finish")
    /\ UNCHANGED <<runs, output>>

\* The row is there before the receipt that hashes it.
ResultStored(p) ==
    /\ At(p, "put")
    /\ PutResult(call[p].action, call[p].says)
    /\ Goes(p, "finish")
    /\ UNCHANGED <<runs, output>>

DispatchCompleted(p) ==
    /\ At(p, "finish")
    /\ AppendEvent(Receipted("dispatch.completed", call[p].action,
                             call[p].attempt, call[p].says),
                   call[p].record)
    /\ Goes(p, "returned")
    /\ UNCHANGED <<runs, output>>

\* The call ends without another transaction: the process died, a store method
\* or a policy check raised (WorkflowConflict, KeyError, ...), or it is done.
Stops(p) ==
    /\ ~At(p, "idle")
    /\ Returns(p)
    /\ IF At(p, "tool") THEN Touched(call[p].action) ELSE UNCHANGED output
    /\ UNCHANGED <<storeVars, runs>>

Dispatch(p) ==
    \/ DispatchReplayed(p) \/ DispatchInDoubt(p) \/ DispatchRefused(p)
    \/ DispatchAuthorized(p) \/ DispatchStarted(p)
    \/ ToolReturns(p) \/ ToolRaises(p)
    \/ ResultStored(p) \/ DispatchCompleted(p)
=============================================================================
