---------------------------- MODULE WorkflowStore ----------------------------
(***************************************************************************)
(* One workflow in the durable store: WorkflowStore of workflow/store.py   *)
(* with the transition table of workflow/state_machine.py.                 *)
(*                                                                         *)
(* The store's methods are single BEGIN IMMEDIATE transactions, so each is *)
(* one operator that a caller's action conjoins.  A caller passes the      *)
(* record it read earlier (at): the transaction is conditional on it.  A   *)
(* method that raises changes nothing, so it is simply not enabled.        *)
(*                                                                         *)
(* The ledger is kept as a set: what the program asks of it is which       *)
(* receipts it holds.  Of the events a transition writes, only those that  *)
(* are read again are kept.                                                *)
(***************************************************************************)
EXTENDS Naturals, FiniteSets

CONSTANTS
    Actions,        \* the ActionRequests of the workflow, by action_hash
    NoAction,       \* a receipt that names no action
    ResultsExpire   \* whether the result retention may run out

Terminal == {"completed", "needs_review", "failed", "cancelled"}
States == {"intake", "recon", "plan", "decision", "execute", "verify", "repair"}
              \cup Terminal

\* ALLOWED_TRANSITIONS.
AllowedTransitions ==
    [intake       |-> {"recon", "failed", "cancelled"},
     recon        |-> {"plan", "needs_review", "failed", "cancelled"},
     plan         |-> {"decision", "execute", "needs_review", "failed", "cancelled"},
     decision     |-> {"execute", "needs_review", "failed", "cancelled"},
     execute      |-> {"verify", "repair", "needs_review", "failed", "cancelled"},
     verify       |-> {"completed", "repair", "needs_review", "failed", "cancelled"},
     repair       |-> {"verify", "needs_review", "failed", "cancelled"},
     completed    |-> {},
     needs_review |-> {},
     failed       |-> {},
     cancelled    |-> {}]

\* What a tool's result says: it passes explicitly, it does not say that it
\* fails (no ok/pass key, or no semantic diff), or it reports a failure.
Verdicts == {"good", "vague", "bad"}
RenderStatus == {"none", "pending", "stopping", "succeeded", "ended"}

Decisions == {"decision.approved", "decision.rejected"}
ReceiptTypes ==
    {"dispatch.started", "dispatch.failed", "dispatch.completed",
     "action.planned", "execution.completed", "verification.checked",
     "render.submitted", "render.completed"} \cup Decisions

Receipt == [type : ReceiptTypes, action : Actions \cup {NoAction},
            attempt : Nat, says : Verdicts \cup RenderStatus]

Receipted(type, action, attempt, says) ==
    [type |-> type, action |-> action, attempt |-> attempt, says |-> says]

VARIABLES
    state,      \* workflows.state
    version,    \* workflows.state_version
    ledger,     \* workflow_events: the receipts that are read again
    results,    \* workflow_action_results, by action
    expired     \* the actions whose result row has outlived expires_at

storeVars == <<state, version, ledger, results, expired>>

Versioned == [state : States, version : Nat]

StoreTypeOK ==
    /\ state \in States
    /\ version \in Nat
    /\ ledger \in SUBSET Receipt
    /\ results \in [Actions -> Verdicts \cup {"none"}]
    /\ expired \in SUBSET Actions
    /\ IsFiniteSet(ledger)
    /\ Cardinality(ledger) < version     \* no receipt without a new version

\* create, for an idempotency key that is new.
StoreInit ==
    /\ state = "intake"
    /\ version = 1
    /\ ledger = {}
    /\ results = [a \in Actions |-> "none"]
    /\ expired = {}

\* get.
Record == [state |-> state, version |-> version]

\* Bug: approving and rejecting are receipts of two different keys.
KeyPerAnswer(e) == <<e.type, e.action, e.attempt>>

\* event_key: a decision has one key whatever it says, a dispatch one per attempt.
EventKey(e) ==
    <<IF e.type \in Decisions THEN "decision" ELSE e.type, e.action, e.attempt>>

\* append_event: a key that is there answers the retry before the record the
\* caller read is compared; a key with another payload is a conflict.
AppendEvent(e, at) ==
    /\ e.type \in Decisions => state = "decision"
    /\ \A f \in ledger : EventKey(f) = EventKey(e) => f = e
    /\ IF e \in ledger
       THEN UNCHANGED <<version, ledger>>
       ELSE /\ at = Record
            /\ version' = version + 1
            /\ ledger' = ledger \cup {e}
    /\ UNCHANGED <<state, results, expired>>

\* Bug: assert_transition is not called.
TransitionAnywhere(target, at, receipts) ==
    /\ at = Record
    /\ state' = target
    /\ version' = version + 1
    /\ ledger' = ledger \cup receipts
    /\ UNCHANGED <<results, expired>>

\* transition: the expected state and version, then assert_transition.
Transition(target, at, receipts) ==
    /\ at = Record
    /\ target \in AllowedTransitions[state]
    /\ state' = target
    /\ version' = version + 1
    /\ ledger' = ledger \cup receipts
    /\ UNCHANGED <<results, expired>>

\* put_action_result: the row that is there, expired or not, must be the same.
PutResult(a, verdict) ==
    /\ results[a] \in {verdict, "none"}
    /\ results' = [results EXCEPT ![a] = verdict]
    /\ UNCHANGED <<state, version, ledger, expired>>

\* get_action_result raises KeyError unless:
Readable(a) == results[a] # "none" /\ a \notin expired

\* The clock passes expires_at of a result.
ResultExpires(a) ==
    /\ ResultsExpire
    /\ Readable(a)
    /\ expired' = expired \cup {a}
    /\ UNCHANGED <<state, version, ledger, results>>

\* purge_expired_results: the constructor calls it, and every request of any
\* client builds a store.
PurgeExpired ==
    /\ expired # {}
    /\ results' = [a \in Actions |-> IF a \in expired THEN "none" ELSE results[a]]
    /\ expired' = {}
    /\ UNCHANGED <<state, version, ledger>>
=============================================================================
