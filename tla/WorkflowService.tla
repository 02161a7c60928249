--------------------------- MODULE WorkflowService ---------------------------
(***************************************************************************)
(* WorkflowService of workflow/service.py over one workflow: the calls     *)
(* start, continue_workflow, resume, approve_decision and cancel, made by  *)
(* any number of processes, each call split at its store transactions.     *)
(* The adapters of workflow/adapters.py are the fields of the order, and   *)
(* the render service is the status of the workflow's one render job.      *)
(***************************************************************************)
EXTENDS WorkflowDispatcher, Sequences

CONSTANTS
    Look,       \* the action of adapter.recon_action
    Checks,     \* verification_actions of an editing family, in order
    Orders,     \* the work orders clients start
    Drivers     \* the processes whose clients call continue_workflow and resume

Kinds == {"read", "edit", "abstain"}
Order == [kind : Kinds,                         \* READ_EXTRACT, mutating, MUST_ABSTAIN
          valid : BOOLEAN,                      \* validate_intake accepts it
          unfit : {"none", "recon", "plan"},    \* where the adapter abstains
          copies : BOOLEAN,                     \* prepare_execution copies the source
          explicit : SUBSET Actions,            \* results that must say they pass
          render : BOOLEAN]                     \* require_real_hancom_render

ASSUME ServiceAssumption ==
    /\ Actions = {Look, Edit} \cup {Checks[i] : i \in 1 .. Len(Checks)}
    /\ Checks \in Seq(Actions \ {Look, Edit})
    /\ Look # Edit
    /\ NoAction \notin Actions
    /\ Orders \subseteq Order
    /\ \A o \in Orders : o.kind # "edit" => o.valid   \* validate_intake returns early
    /\ Drivers \subseteq Procs
    /\ MaxAttempts \in Nat
    /\ Says \subseteq Verdicts
    /\ Found \subseteq {"absent", "other"}
    /\ ResultsExpire \in BOOLEAN

VARIABLES
    order,      \* work_order_json: never changed in what matters here
    render      \* the status of the render job, "none" before it is submitted

vars == <<storeVars, dispatchVars, order, render>>
outside == <<order, render>>

TypeOK ==
    /\ StoreTypeOK
    /\ DispatchTypeOK
    /\ order \in Orders
    /\ render \in RenderStatus

Init ==
    /\ StoreInit
    /\ DispatchInit
    /\ order \in Orders
    /\ render = "none"

\* The call reads the record; the rest of it goes by what it read.
Reads(p, pc) ==
    /\ At(p, "idle")
    /\ call' = [call EXCEPT ![p] = Fresh(pc, Record, 0, FALSE)]
    /\ UNCHANGED <<storeVars, runs, output, outside>>

\* One transition on the record the call read, which ends the call.
Settles(p, target, receipts) ==
    /\ Transition(target, call[p].record, receipts)
    /\ Returns(p)
    /\ UNCHANGED <<runs, output, outside>>

\* The same on a version read just before it, with only the state expected.
SettlesFrom(p, from, target, receipts) ==
    /\ state = from
    /\ Transition(target, Record, receipts)
    /\ Returns(p)
    /\ UNCHANGED <<runs, output, outside>>

Notes(p, receipt, pc) ==
    /\ AppendEvent(receipt, call[p].record)
    /\ GoesWith(p, pc)
    /\ UNCHANGED <<runs, output>>

Dispatches(p, a) ==
    call' = [call EXCEPT ![p].pc = "dispatch", ![p].action = a]

In(p, pc, st) == At(p, pc) /\ call[p].record.state = st

-----------------------------------------------------------------------------
(* start, for a key that may exist already.                                *)

StartAgain(p) ==
    \/ /\ order.kind = "abstain"
       /\ state \in {"intake", "recon"}
       /\ Reads(p, "abstaining")
    \/ /\ order.kind # "abstain"
       /\ ~order.valid
       /\ Reads(p, "rejecting")

StartAbstains(p) ==
    \/ /\ In(p, "abstaining", "intake")
       /\ Transition("recon", call[p].record, {})
       /\ GoesWith(p, "abstaining")
       /\ UNCHANGED <<runs, output, outside>>
    \/ /\ In(p, "abstaining", "recon")
       /\ Settles(p, "needs_review", {})

StartRejects(p) == At(p, "rejecting") /\ Settles(p, "failed", {})

-----------------------------------------------------------------------------
(* continue_workflow and resume.                                           *)

Continue(p, resuming) ==
    /\ p \in Drivers
    /\ state \notin Terminal \cup {"decision"}
    /\ At(p, "idle")
    /\ call' = [call EXCEPT ![p] = Fresh("continue", Record, 0, resuming)]
    /\ UNCHANGED <<storeVars, runs, output, outside>>

LeaveIntake(p) ==
    /\ In(p, "continue", "intake")
    /\ order.valid
    /\ Settles(p, "recon", {})

\* AdapterAbstention: _abstain_existing with the record the call read.
AdapterAbstains(p) ==
    /\ \/ In(p, "continue", "recon") /\ (order.kind = "abstain" \/ order.unfit = "recon")
       \/ In(p, "continue", "plan") /\ order.unfit = "plan"
    /\ Settles(p, "needs_review", {})

Recon(p) ==
    /\ In(p, "continue", "recon")
    /\ order.kind # "abstain" /\ order.unfit # "recon"
    /\ Dispatches(p, Look)
    /\ UNCHANGED <<storeVars, runs, output, outside>>

ReconEnds(p) ==
    /\ At(p, "returned") /\ call[p].action = Look
    /\ SettlesFrom(p, "recon", IF call[p].says = "bad" THEN "needs_review" ELSE "plan", {})

PlanReading(p) ==
    /\ In(p, "continue", "plan")
    /\ order.kind = "read"
    /\ Settles(p, "execute", {})

Plan(p) ==
    /\ In(p, "continue", "plan")
    /\ order.kind = "edit" /\ order.unfit # "plan"
    /\ Notes(p, Receipted("action.planned", Edit, 0, "none"), "planned")
    /\ UNCHANGED outside

RequestDecision(p) == At(p, "planned") /\ Settles(p, "decision", {})

ExecuteReading(p) ==
    /\ In(p, "continue", "execute")
    /\ order.kind = "read"
    /\ Settles(p, "verify", {Receipted("execution.completed", NoAction, 0, "good")})

Execute(p) ==
    /\ In(p, "continue", "execute")
    /\ order.kind = "edit"
    /\ IF order.copies /\ Started(Edit) = {}
       THEN call' = [call EXCEPT ![p].pc = "prepare", ![p].action = Edit]
       ELSE Dispatches(p, Edit)
    /\ UNCHANGED <<storeVars, runs, output, outside>>

\* prepare_execution, until the copy: OUTPUT_ALREADY_EXISTS for an output that
\* is not the source's copy.
Prepare(p) ==
    /\ At(p, "prepare")
    /\ Goes(p, CASE output = "absent" -> "copy"
                 [] output = "copy"   -> "dispatch"
                 [] OTHER             -> "refused")
    /\ UNCHANGED <<storeVars, runs, output, outside>>

\* shutil.copy2, which replaces whatever is there by then.
CopySource(p) ==
    /\ At(p, "copy")
    /\ output' = "copy"
    /\ Goes(p, "dispatch")
    /\ UNCHANGED <<storeVars, runs, outside>>

\* The outcome is recorded whatever it says; verify judges it.
ExecutionEnds(p) ==
    /\ At(p, "returned") /\ call[p].action = Edit
    /\ SettlesFrom(p, "execute", "verify",
                   {Receipted("execution.completed", Edit, 0, call[p].says)})

-----------------------------------------------------------------------------
(* continue_workflow in verify.                                            *)

CheckList == IF order.kind = "edit" THEN Checks ELSE <<>>

EnterVerify(p) ==
    /\ In(p, "continue", "verify")
    /\ call' = [call EXCEPT ![p] = Fresh("verify", call[p].record, 1, FALSE)]
    /\ UNCHANGED <<storeVars, runs, output, outside>>

\* A stored result of the next verifier is taken; without one it is dispatched.
NextCheck(p) ==
    /\ At(p, "verify") /\ call[p].check <= Len(CheckList)
    /\ LET a == CheckList[call[p].check] IN
       IF Readable(a)
       THEN call' = [call EXCEPT ![p].pc = "check", ![p].action = a, ![p].says = results[a]]
       ELSE Dispatches(p, a)
    /\ UNCHANGED <<storeVars, runs, output, outside>>

\* The record is read again after every dispatched verifier ...
CheckReturns(p) ==
    /\ At(p, "returned") /\ call[p].action \notin {Look, Edit}
    /\ call' = [call EXCEPT ![p].pc = "check", ![p].record = Record]
    /\ UNCHANGED <<storeVars, runs, output, outside>>

Checked(a, says) ==
    Receipted("verification.checked", a, 0, IF says = "bad" THEN "bad" ELSE "good")

NoteCheck(p) ==
    /\ At(p, "check")
    /\ IF ReceiptsOf("verification.checked", call[p].action) # {}
       THEN Goes(p, "next") /\ UNCHANGED <<storeVars, runs, output>>
       ELSE Notes(p, Checked(call[p].action, call[p].says), "next")
    /\ UNCHANGED outside

\* ... and after every receipt.
CheckNoted(p) ==
    /\ At(p, "next")
    /\ call' = [call EXCEPT ![p] = Fresh("verify", Record, call[p].check + 1, FALSE)]
    /\ UNCHANGED <<storeVars, runs, output, outside>>

Passes(a) ==
    /\ Readable(a)
    /\ results[a] \in (IF a \in order.explicit THEN {"good"} ELSE {"good", "vague"})

\* Bug: a verifier without a result counts as passed.
VerifiedWithoutChecks == Passes(IF order.kind = "read" THEN Look ELSE Edit)

\* execution_evidence_ok and verification_ok of the adapter.
DomainVerified ==
    /\ Passes(IF order.kind = "read" THEN Look ELSE Edit)
    /\ \A i \in 1 .. Len(CheckList) : Passes(CheckList[i])

\* "verified" and "openSafetyOk" of the execution evidence.
ExecutedSafely ==
    \E e \in ledger : e.type = "execution.completed" /\ e.says # "bad"

Judging(p) == At(p, "verify") /\ call[p].check > Len(CheckList)
ToRender == ExecutedSafely /\ order.render /\ order.kind # "read"

\* policy.complete; authorize_completion asks for the verify state.
Complete(p) ==
    /\ Judging(p)
    /\ ExecutedSafely /\ ~ToRender /\ DomainVerified
    /\ call[p].record.state = "verify"
    /\ Settles(p, "completed", {})

Incomplete(p) ==
    /\ Judging(p)
    /\ ~ToRender /\ ~(ExecutedSafely /\ DomainVerified)
    /\ Settles(p, "needs_review", {})

-----------------------------------------------------------------------------
(* _advance_render_verification.                                           *)

RenderSubmitted == ReceiptsOf("render.submitted", NoAction) # {}

\* render_client.submit answers with the job that is there when it is.
SubmitRender(p) ==
    /\ Judging(p) /\ ToRender /\ ~RenderSubmitted
    /\ render' = IF render = "none" THEN "pending" ELSE render
    /\ call' = [call EXCEPT ![p].pc = "submitted", ![p].says = render']
    /\ UNCHANGED <<storeVars, runs, output, order>>

NoteSubmitted(p) ==
    /\ At(p, "submitted")
    /\ Notes(p, Receipted("render.submitted", NoAction, 0, call[p].says), "rendered")
    /\ UNCHANGED outside

\* render_client.get; "none" when it cannot be reached.
PollRender(p) ==
    /\ Judging(p) /\ ToRender /\ RenderSubmitted
    /\ \E answer \in {render, "none"} :
          call' = [call EXCEPT ![p].pc = "rendered", ![p].says = answer]
    /\ UNCHANGED <<storeVars, runs, output, outside>>

\* Bug: any end of the render job will do.
NoteAnyEnd(p) ==
    /\ At(p, "rendered") /\ call[p].says \in {"succeeded", "ended"}
    /\ Notes(p, Receipted("render.completed", NoAction, 0, "succeeded"), "complete")
    /\ UNCHANGED outside

NoteRendered(p) ==
    /\ At(p, "rendered") /\ call[p].says = "succeeded"
    /\ Notes(p, Receipted("render.completed", NoAction, 0, "succeeded"), "complete")
    /\ UNCHANGED outside

RenderUnverified(p) ==
    /\ At(p, "rendered") /\ call[p].says \in {"none", "ended"}
    /\ Settles(p, "needs_review", {})

\* _domain_verification(record)["ok"]: no receipted verifier reported a failure.
NoCheckFailed ==
    \A e \in ledger : e.type = "verification.checked" =>
        Readable(e.action) /\ results[e.action] # "bad"

CompleteRendered(p) ==
    /\ At(p, "complete")
    /\ NoCheckFailed
    /\ call[p].record.state = "verify"
    /\ Settles(p, "completed", {})

\* DOMAIN_VERIFICATION_REQUIRED.
RenderRefused(p) ==
    /\ At(p, "complete")
    /\ ~NoCheckFailed
    /\ Goes(p, "stuck")
    /\ UNCHANGED <<storeVars, runs, output, outside>>

-----------------------------------------------------------------------------
(* PolicyViolation: what becomes of a refused dispatch.                    *)

\* In verify the refusal is receipted as a failed check first.
RefusalNoted(p) ==
    /\ call[p].pc \in {"refused", "doubt"} /\ call[p].action \notin {Look, Edit}
    /\ Notes(p, Checked(call[p].action, "bad"), "stuck")
    /\ UNCHANGED outside

\* Bug: resume leaves a doubt as it is.
ReconsiderInVerify(p) ==
    /\ \/ At(p, "stuck")
       \/ call[p].pc \in {"refused", "doubt"} /\ call[p].action \in {Look, Edit}
    /\ state = "verify"
    /\ call' = [call EXCEPT ![p].pc = "review", ![p].record = Record]
    /\ UNCHANGED <<storeVars, runs, output, outside>>

\* continue_workflow abstains only from verify, resume from a doubt as well;
\* both go by a record read after the refusal.
Reconsider(p) ==
    /\ \/ At(p, "stuck")
       \/ call[p].pc \in {"refused", "doubt"} /\ call[p].action \in {Look, Edit}
    /\ \/ state = "verify"
       \/ At(p, "doubt") /\ call[p].resuming /\ state \in {"execute", "recon"}
    /\ call' = [call EXCEPT ![p].pc = "review", ![p].record = Record]
    /\ UNCHANGED <<storeVars, runs, output, outside>>

Abstain(p) == At(p, "review") /\ Settles(p, "needs_review", {})

-----------------------------------------------------------------------------
(* approve_decision and cancel.                                            *)

Decide(p) ==
    /\ state = "decision"
    /\ Reads(p, "approve") \/ Reads(p, "reject")

RecordDecision(p) ==
    /\ \/ /\ At(p, "approve")
          /\ Notes(p, Receipted("decision.approved", Edit, 0, "none"), "approved")
       \/ /\ At(p, "reject")
          /\ Notes(p, Receipted("decision.rejected", Edit, 0, "none"), "rejected")
    /\ UNCHANGED outside

ApplyDecision(p) ==
    \/ At(p, "approved") /\ Settles(p, "execute", {})
    \/ At(p, "rejected") /\ Settles(p, "needs_review", {})

Cancel(p) ==
    /\ state \notin Terminal
    /\ Reads(p, "cancel")

\* render_client.cancel, for a job the ledger knows of; a job that has ended is
\* left as it is, and so is one whose receipt cannot be had (_render_receipt):
\* the workflow is cancelled all the same.
CancelRender(p) ==
    /\ At(p, "cancel")
    /\ render' \in {render} \cup
          (IF RenderSubmitted /\ render = "pending" THEN {"stopping"} ELSE {})
    /\ Goes(p, "cancelling")
    /\ UNCHANGED <<storeVars, runs, output, order>>

Cancelled(p) == At(p, "cancelling") /\ Settles(p, "cancelled", {})

-----------------------------------------------------------------------------
\* The render queue ends the job (module RenderQueue).
RenderEnds ==
    /\ render \in {"pending", "stopping"}
    /\ render' \in (IF render = "pending" THEN {"succeeded", "ended"} ELSE {"ended"})
    /\ UNCHANGED <<storeVars, dispatchVars, order>>

Step(p) ==
    \/ StartAgain(p) \/ StartAbstains(p) \/ StartRejects(p)
    \/ LeaveIntake(p) \/ AdapterAbstains(p) \/ Recon(p) \/ ReconEnds(p)
    \/ PlanReading(p) \/ Plan(p) \/ RequestDecision(p)
    \/ ExecuteReading(p) \/ Execute(p) \/ Prepare(p) \/ CopySource(p) \/ ExecutionEnds(p)
    \/ EnterVerify(p) \/ NextCheck(p) \/ CheckReturns(p) \/ NoteCheck(p)
    \/ CheckNoted(p) \/ Complete(p) \/ Incomplete(p)
    \/ SubmitRender(p) \/ NoteSubmitted(p) \/ PollRender(p) \/ NoteRendered(p)
    \/ RenderUnverified(p) \/ CompleteRendered(p) \/ RenderRefused(p)
    \/ RefusalNoted(p) \/ Reconsider(p) \/ Abstain(p)
    \/ Decide(p) \/ RecordDecision(p) \/ ApplyDecision(p)
    \/ Cancel(p) \/ CancelRender(p) \/ Cancelled(p)

Next ==
    \/ \E p \in Procs : Step(p)
    \/ \E p \in Procs, resuming \in BOOLEAN : Continue(p, resuming)
    \/ \E p \in Procs : (Dispatch(p) \/ Stops(p)) /\ UNCHANGED outside
    \/ \E a \in Actions : ResultExpires(a) /\ UNCHANGED <<dispatchVars, outside>>
    \/ PurgeExpired /\ UNCHANGED <<dispatchVars, outside>>
    \/ RenderEnds

Spec == Init /\ [][Next]_vars

\* Some client keeps resuming, calls end, and a call that reached a point of the
\* way out again and again gets past it: crashes and conflicts are not for ever
\* at the same point.
Fairness(p) ==
    LET resumed == call[p].resuming IN
    /\ WF_vars(Stops(p) /\ UNCHANGED outside)
    /\ SF_vars(Continue(p, TRUE))
    /\ SF_vars(resumed /\ Recon(p))
    /\ SF_vars(resumed /\ Execute(p))
    /\ SF_vars(resumed /\ DispatchInDoubt(p) /\ UNCHANGED outside)
    /\ SF_vars(resumed /\ Reconsider(p))
    /\ SF_vars(resumed /\ Abstain(p))
FairSpec == Spec /\ \A p \in Drivers : Fairness(p)

-----------------------------------------------------------------------------
(* Properties.                                                             *)

\* The destructive tool is inside its call only under an approval, and never
\* under a rejection, whoever answered and whenever a client died in between.
MutationDecided ==
    \A p \in Procs :
        At(p, "tool") /\ call[p].action = Edit =>
            /\ ReceiptsOf("decision.approved", Edit) # {}
            /\ ReceiptsOf("decision.rejected", Edit) = {}

\* With one driver an attempt ends once, whatever the other calls do in between: it
\* never has both a completed and a failed receipt, nor an end without a start.
OneOutcome ==
    \A a \in Actions :
        /\ \A e \in Completed(a), f \in Completed(a) \cup Failed(a) :
              e.attempt = f.attempt => e = f
        /\ \A f \in Completed(a) \cup Failed(a) :
              \E e \in Started(a) : e.attempt = f.attempt

\* A completed action has a stored result, the one its receipt hashes, until the
\* row expires and is purged.
ResultIsReceipted ==
    \A a \in Actions : \A e \in Completed(a) :
        results[a] = e.says \/ (ResultsExpire /\ results[a] = "none")

\* A workflow that asks for no render is completed only when its edit completed
\* and passed, and every mandatory verifier was run and receipted and passed.
Accepted(a) == IF a \in order.explicit THEN {"good"} ELSE {"good", "vague"}
CompletedIsVerified ==
    state = "completed" /\ ~order.render =>
        /\ ExecutedSafely
        /\ \E e \in Completed(IF order.kind = "read" THEN Look ELSE Edit) :
              e.says \in Accepted(e.action)
        /\ \A i \in 1 .. Len(CheckList) :
              LET a == CheckList[i] IN
              /\ runs[a] > 0
              /\ results[a] \in Accepted(a) \cup {"none"}
              /\ ReceiptsOf("verification.checked", a) # {}

\* With one driver, a tool that was entered and not seen to end is not entered
\* again, and an earlier attempt is always known to have failed.
RunsOnce ==
    \A a \in Actions :
        /\ runs[a] <= Cardinality(Started(a))
        /\ \A e, f \in Started(a) :
              e.attempt < f.attempt => \E g \in Failed(a) : g.attempt = e.attempt

\* The same for the destructive action alone.
EditRunsOnce == runs[Edit] <= Cardinality(Started(Edit))

\* An ended workflow stays as it ended, and no tool is entered for it any more.
EndIsFinal ==
    [][(state \in Terminal) => UNCHANGED <<state, runs>>]_vars

\* A workflow that asks for a real render is completed only on the receipt of a
\* job that was submitted for it and succeeded.
CompletedIsRendered ==
    state = "completed" /\ order.render /\ order.kind = "edit" =>
        /\ render = "succeeded"
        /\ RenderSubmitted
        /\ ReceiptsOf("render.completed", NoAction) # {}

\* An action left in doubt by a process that died is settled by resuming.
DoubtSettles ==
    \A a \in {Look, Edit} : InDoubt(a) ~> ~InDoubt(a) \/ state \in Terminal
=============================================================================
