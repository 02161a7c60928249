------------------------------ MODULE BatchApply ------------------------------
(***************************************************************************)
(* One request that reads a source document and publishes an output: the   *)
(* agent batch (commands.py with _batch_publication.py), the canonical     *)
(* mixed-form plan wrapped around it and the specialised form operation    *)
(* (mixed_form.py).  A request snapshots what it read and what it is about *)
(* to replace, publishes against that snapshot, looks again at both files, *)
(* and withdraws its own publication when either has changed.  Requests    *)
(* are serialised by PUBLIC_MUTATION_LOCK; external writers are not.  A    *)
(* guarded publication replaces the entry it names or does nothing, as     *)
(* GuardedRegister promises.                                               *)
(***************************************************************************)
EXTENDS Naturals

CONSTANTS
    Requests,   \* what a request asks for
    Foreign,    \* what external writers write
    MaxCalls,   \* bound on the number of calls
    MaxTrouble, \* bound on faults, crashes and external writes during a call
    Absent

Paths == {"source", "output"}
Kinds == {"batch", "form", "special"}

\* A document is what it started from and the calls that edited it; an entry is
\* told apart by its bytes and by who put it there.
Values == [base : Paths \cup Foreign, by : SUBSET (1..MaxCalls)]
Entry(v, id) == [val |-> v, id |-> id]
Entries == [val : Values, id : (0..MaxCalls) \cup Foreign]
Maybe(S) == S \cup {Absent}

ASSUME BatchAssumption ==
    /\ MaxCalls \in Nat
    /\ MaxTrouble \in Nat
    /\ Foreign \cap {"source", "output"} = {}
    /\ Foreign \cap (0..MaxCalls) = {}
    /\ Absent \notin Values
    /\ Absent \notin Entries

VARIABLES
    file,       \* the two files
    store,      \* the idempotency entry of the key, by the kind of request
    recov,      \* the preimage sidecars
    n, call,    \* the number of the call and what it asks
    pc,
    before,     \* the adapter's snapshots
    base,       \* the executor's
    seen,       \* what the adapter last observed
    token,      \* the entry the call published
    result,     \* what the executor answered
    rolled,     \* rolledBack
    reply,
    written,    \* the foreign versions written so far
    trouble,    \* faults, crashes and external writes during the call
    touched,    \* the files external writers wrote during the call
    unseen      \* and those they wrote since the call last looked

snapshots == <<before, base, seen>>
outcome == <<token, result, rolled, reply>>
others == <<written, trouble, touched, unseen>>
vars == <<file, store, recov, n, call, pc, snapshots, outcome, others>>

Calls == [kind : Kinds, req : Requests, target : Paths, dry : BOOLEAN,
          expected : Maybe(Values)]
Core == {"lookup", "source", "output", "validate", "publish", "recheck", "readback", "store"}
Adapter == {"snapshot", "precondition", "look", "judge", "final", "settle", "clean", "again",
            "answer", "undo", "verdict", "except"}
Ended == {"replied", "dead"}
Replies == {"none", "ok", "rolled back", "failed", "raised"}

TypeOK ==
    /\ file \in [Paths -> Maybe(Entries)]
    /\ store \in [Kinds -> Maybe([call : Calls, by : 1..MaxCalls, claim : Maybe(Values)])]
    /\ recov \subseteq [val : Values, by : 1..MaxCalls]
    /\ n \in 0..MaxCalls
    /\ call \in Calls
    /\ pc \in Core \cup Adapter \cup Ended \cup {"reserve", "cas", "read", "execute", "unsure", "rollback", "state"}
    /\ before \in [Paths -> Maybe(Entries)]
    /\ base \in [Paths -> Maybe(Entries)]
    /\ seen \in [Paths -> Maybe(Entries)]
    /\ token \in Maybe(Entries)
    /\ result \in {"none", "ok", "replay", "failed"}
    /\ rolled \in BOOLEAN
    /\ reply \in Replies
    /\ written \subseteq Foreign
    /\ trouble \in 0..MaxTrouble
    /\ touched \subseteq Paths
    /\ unseen \subseteq Paths

Document(p) == [base |-> p, by |-> {}]
Nothing == [p \in Paths |-> Absent]

Init ==
    /\ \E there \in {{"source"}, Paths} :
          file = [p \in Paths |-> IF p \in there THEN Entry(Document(p), 0) ELSE Absent]
    /\ store = [k \in Kinds |-> Absent]
    /\ recov = {}
    /\ n = 0
    /\ call \in [kind : {"batch"}, req : Requests, target : {"output"}, dry : {FALSE}, expected : {Absent}]
    /\ pc = "replied"
    /\ before = Nothing /\ base = Nothing /\ seen = Nothing
    /\ token = Absent
    /\ result = "none"
    /\ rolled = FALSE
    /\ reply = "none"
    /\ written = {}
    /\ trouble = 0
    /\ touched = {} /\ unseen = {}

Content(e) == IF e = Absent THEN Absent ELSE e.val
Target == call.target
InPlace == Target = "source"
Goes(to) == pc' = to

\* A form plan is compiled for the source of its day, a batch may name the
\* revision it expects; a form never writes its own source.
Begin(k, r, t, d, e) ==
    /\ pc \in Ended
    /\ n < MaxCalls
    /\ k = "form" => t = "output"
    /\ CASE k = "form"    -> e = file["source"].val
         [] k = "batch"   -> e \in {Absent, file["source"].val}
         [] k = "special" -> e = Absent
    /\ n' = n + 1
    /\ call' = [kind |-> k, req |-> r, target |-> t, dry |-> d, expected |-> e]
    /\ Goes(IF k = "batch" THEN "lookup" ELSE "snapshot")
    /\ before' = Nothing /\ base' = Nothing /\ seen' = Nothing
    /\ token' = Absent
    /\ result' = "none"
    /\ rolled' = FALSE
    /\ reply' = "none"
    /\ trouble' = 0
    /\ touched' = {} /\ unseen' = {}
    /\ UNCHANGED <<file, store, recov, written>>

\* The call reads a file.
Looks(p) == unseen' = unseen \ {p} /\ UNCHANGED <<written, trouble, touched>>
Blind == UNCHANGED others
Still == UNCHANGED <<n, call>>

\* The adapter's snapshots, or the executor's, of the source and of the output.
Capture(from, p, to) ==
    /\ pc = from
    /\ before' = [before EXCEPT ![p] = file[p]]
    /\ Looks(p)
    /\ Goes(to)
    /\ UNCHANGED <<file, store, recov, base, seen, outcome>> /\ Still

Open(from, p, to) ==
    /\ pc = from
    /\ base' = [base EXCEPT ![p] = file[p]]
    /\ Looks(p)
    /\ Goes(to)
    /\ UNCHANGED <<file, store, recov, before, seen, outcome>> /\ Still

Snapshot ==
    \/ Capture("snapshot", "source", "precondition")
    \/ Capture("precondition", Target, IF call.kind = "form" THEN "lookup" ELSE "reserve")

-----------------------------------------------------------------------------
\* The batch executor, for the kinds "batch" and "form".

Hash == [req |-> call.req, dry |-> call.dry, expected |-> call.expected, target |-> Target]
HashOf(c) == [req |-> c.req, dry |-> c.dry, expected |-> c.expected, target |-> c.target]

\* It answers the form adapter, or the handler, which adds the document's state.
Settled == IF call.kind = "form" THEN "look" ELSE "state"
Settles(how, back) == result' = how /\ rolled' = back /\ Goes(Settled) /\ UNCHANGED <<token, reply>>

Lookup ==
    /\ pc = "lookup"
    /\ IF store[call.kind] = Absent
       THEN Goes("source") /\ UNCHANGED outcome
       ELSE IF HashOf(store[call.kind].call) = Hash THEN Settles("replay", FALSE) ELSE Settles("failed", TRUE)
    /\ UNCHANGED <<file, store, recov, snapshots>> /\ Blind /\ Still

ReadInput ==
    \/ Open("source", "source", "output")
    \/ Open("output", Target, "validate")

\* Nothing is published yet: a refused revision, an output that may not be
\* overwritten, a command that fails or a gate that rejects the candidate.
Validate(gate) ==
    /\ pc = "validate"
    /\ IF gate /\ call.expected \in {Absent, base["source"].val}
       THEN Goes("publish") /\ UNCHANGED outcome
       ELSE Settles("failed", TRUE)
    /\ UNCHANGED <<file, store, recov, snapshots>> /\ Blind /\ Still

Edited(v) == [base |-> v.base, by |-> v.by \cup {n}]
Mine == IF before[Target] = Absent THEN {} ELSE {[val |-> before[Target].val, by |-> n]}

\* The source is compared with the snapshot that the candidate comes from; a
\* dry run has finished then.
AssertSource ==
    /\ pc = "publish"
    /\ Looks("source")
    /\ IF file["source"] = base["source"]
       THEN Goes(IF call.dry THEN "store" ELSE "reserve") /\ UNCHANGED outcome
       ELSE Settles("failed", TRUE)
    /\ UNCHANGED <<file, store, recov, snapshots>> /\ Still

\* A publication, guarded by the entry that is to be there.
Publishes(guard, entry) ==
    /\ file[Target] = guard
    /\ file' = [file EXCEPT ![Target] = entry]

Candidate == Entry(Edited(base["source"].val), n)

\* Bug: what is to be replaced is kept nowhere.
ReserveNothing ==
    /\ pc = "reserve"
    /\ Goes(IF call.kind = "special" THEN "read" ELSE "cas")
    /\ UNCHANGED <<file, store, recov, snapshots, outcome>> /\ Blind /\ Still

\* The sidecar of what is to be replaced comes first.
Reserve ==
    /\ pc = "reserve"
    /\ recov' = IF call.kind = "batch" \/ (call.kind = "special" /\ call.dry) THEN recov ELSE recov \cup Mine
    /\ Goes(IF call.kind = "special" THEN "read" ELSE "cas")
    /\ UNCHANGED <<file, store, snapshots, outcome>> /\ Blind /\ Still

\* Bug: the key is recorded with the publication, before the rechecks.
CasRecords ==
    /\ pc = "cas"
    /\ \/ /\ Publishes(IF call.kind = "form" THEN before[Target] ELSE base[Target], Candidate)
          /\ token' = Candidate
          /\ unseen' = unseen \ {Target}
          /\ store' = [store EXCEPT ![call.kind] = [call |-> call, by |-> n, claim |-> Candidate.val]]
          /\ Goes("recheck")
          /\ UNCHANGED <<written, trouble, touched>>
       \/ /\ file[Target] # IF call.kind = "form" THEN before[Target] ELSE base[Target]
          /\ Goes("unsure")
          /\ UNCHANGED <<file, token, store>> /\ Blind
    /\ UNCHANGED <<recov, snapshots, result, rolled, reply>> /\ Still

\* The form publishes against the adapter's snapshot, the batch against its own.
Cas ==
    /\ pc = "cas"
    /\ \/ /\ Publishes(IF call.kind = "form" THEN before[Target] ELSE base[Target], Candidate)
          /\ token' = Candidate
          /\ unseen' = unseen \ {Target}
          /\ Goes("recheck")
          /\ UNCHANGED <<written, trouble, touched>>
       \/ /\ file[Target] # IF call.kind = "form" THEN before[Target] ELSE base[Target]
          /\ Goes("unsure")
          /\ UNCHANGED <<file, token>> /\ Blind
    /\ UNCHANGED <<store, recov, snapshots, result, rolled, reply>> /\ Still

Recheck ==
    /\ pc = "recheck"
    /\ IF InPlace THEN Blind ELSE Looks("source")
    /\ Goes(IF InPlace \/ file["source"] = base["source"] THEN "readback" ELSE "rollback")
    /\ UNCHANGED <<file, store, recov, snapshots, outcome>> /\ Still

ReadBack ==
    /\ pc = "readback"
    /\ Looks(Target)
    /\ Goes(IF file[Target] = token THEN "store" ELSE "rollback")
    /\ UNCHANGED <<file, store, recov, snapshots, outcome>> /\ Still

Store ==
    /\ pc = "store"
    /\ store' = [store EXCEPT ![call.kind] =
                    [call |-> call, by |-> n, claim |-> Candidate.val]]
    /\ Settles("ok", FALSE)
    /\ UNCHANGED <<file, recov, snapshots>> /\ Blind /\ Still

\* A publication that failed has left what was captured, or another's.
Unsure ==
    /\ pc = "unsure"
    /\ Looks(Target)
    /\ Settles("failed", file[Target] = base[Target])
    /\ UNCHANGED <<file, store, recov, snapshots>> /\ Still

\* What was there is published again over the call's own publication.
Undone(was) == IF was = Absent THEN Absent ELSE Entry(was.val, n)

\* Bug: the rollback is believed to have happened.
RollbackHopes ==
    /\ pc = "rollback"
    /\ \/ Publishes(token, Undone(base[Target]))
       \/ file[Target] # token /\ UNCHANGED file
    /\ Settles("failed", TRUE)
    /\ UNCHANGED <<store, recov, snapshots>> /\ Blind /\ Still

Rollback ==
    /\ pc = "rollback"
    /\ \/ Publishes(token, Undone(base[Target])) /\ Settles("failed", TRUE)
       \/ file[Target] # token /\ UNCHANGED file /\ Settles("failed", FALSE)
    /\ UNCHANGED <<store, recov, snapshots>> /\ Blind /\ Still

\* The answer of the batch handler.
Answers(how) == reply' = how /\ Goes("replied") /\ UNCHANGED <<token, result, rolled>>
Refusal == IF rolled THEN "rolled back" ELSE "failed"

State ==
    /\ pc = "state"
    /\ Answers(IF result = "failed" THEN Refusal ELSE "ok")
    /\ UNCHANGED <<file, store, recov, snapshots>> /\ Blind /\ Still

-----------------------------------------------------------------------------
\* The specialised operation reads the source and writes through the guard of
\* its snapshot; in place it may find nothing to change.

ReadSource ==
    /\ pc = "read"
    /\ base' = [base EXCEPT !["source"] = file["source"]]
    /\ Goes("execute")
    /\ UNCHANGED <<file, store, recov, before, seen, outcome>> /\ Blind /\ Still

Execute ==
    /\ pc = "execute"
    /\ \/ /\ ~call.dry
          /\ Publishes(before[Target], Candidate)
          /\ token' = Candidate
          /\ Goes("look")
       \/ /\ call.dry \/ InPlace
          /\ Goes("look")
          /\ UNCHANGED <<file, token>>
       \/ /\ ~call.dry
          /\ file[Target] # before[Target]
          /\ Goes("except")
          /\ UNCHANGED <<file, token>>
    /\ result' = "ok"
    /\ UNCHANGED <<store, recov, snapshots, rolled, reply>> /\ Blind /\ Still

-----------------------------------------------------------------------------
\* The adapters of the form and of the specialised operation.

\* A key recorded by this call is given up with its publication.
Forget ==
    store' = IF call.kind = "form" /\ (result = "ok" \/ token # Absent)
             THEN [store EXCEPT !["form"] = Absent]
             ELSE store

Observes(p) == seen' = [seen EXCEPT ![p] = file[p]] /\ Looks(p)

\* The form looks at the output first, the operation at the source.
First == IF call.kind = "form" THEN Target ELSE "source"
Second == IF call.kind = "form" THEN "source" ELSE Target

Watch(from, p, to) ==
    /\ pc = from
    /\ Observes(p)
    /\ Goes(to)
    /\ UNCHANGED <<file, store, recov, before, base, outcome>> /\ Still

Look == Watch("look", First, "judge")

Published == token # Absent
SourceKept == seen'["source"] = before["source"]
OutputKept == Content(seen'[Target]) = Content(before[Target])
Owned == Published /\ seen'[Target] = token
Claim == IF result = "replay" THEN store["form"].claim ELSE token.val

\* The first look: what the call publishes is what it says, out of a source that
\* has not moved.
Sound ==
    CASE call.kind = "form" ->
            /\ result # "failed"
            /\ SourceKept
            /\ IF call.dry THEN OutputKept ELSE Content(seen'[Target]) = Claim
      [] call.kind = "special" ->
            /\ (call.dry \/ ~InPlace) => SourceKept
            /\ call.dry => seen'[Target] = before[Target]
            /\ ~call.dry => Owned \/ seen'[Target] = before[Target]

\* A withdrawn form keeps the executor's word, checked against the files, when
\* the source is as it was.
KeepsWord == call.kind = "form" /\ result = "failed" /\ SourceKept

Withdraws(from) ==
    /\ Forget
    /\ recov' = recov \cup Mine
    /\ Goes(from)

Judge(gate) ==
    /\ pc = "judge"
    /\ Observes(Second)
    /\ IF Sound /\ gate
       THEN Goes("final") /\ UNCHANGED <<store, recov, outcome>>
       ELSE /\ Withdraws(IF call.kind = "special" /\ ~Owned THEN "verdict" ELSE "undo")
            /\ rolled' = (rolled /\ KeepsWord)
            /\ UNCHANGED <<token, result, reply>>
    /\ UNCHANGED <<file, before, base>> /\ Still

\* Nothing but the exact publication is taken back.
Undo ==
    /\ pc = "undo"
    /\ \/ Published /\ Publishes(token, Undone(before[Target])) /\ rolled' = TRUE
       \/ ~Published /\ UNCHANGED <<file, rolled>>
       \/ Published /\ file[Target] # token /\ UNCHANGED <<file, rolled>>
    /\ Goes("verdict")
    /\ UNCHANGED <<store, recov, snapshots, token, result, reply>> /\ Blind /\ Still

\* rolledBack is compared with the files where the call went wrong by itself.
Verdict ==
    /\ pc = "verdict"
    /\ Looks(Target)
    /\ LET same == Content(file[Target]) = Content(before[Target])
           checked == call.kind = "special" \/ (result = "failed" /\ seen["source"] = before["source"])
       IN  reply' = IF rolled /\ (checked => same) THEN "rolled back" ELSE "failed"
    /\ Goes("replied")
    /\ UNCHANGED <<file, store, recov, snapshots, token, result, rolled>> /\ Still

\* The last look, before the sidecar goes and again after it.
OutputStands ==
    CASE Published                    -> Owned
      [] result = "replay" /\ ~call.dry -> seen'[Target] = seen[Target]
      [] OTHER                        -> seen'[Target] = before[Target]
SourceStands == IF InPlace /\ Published THEN TRUE ELSE SourceKept

Loses ==
    /\ Withdraws(IF Published /\ (IF call.kind = "form" THEN ~SourceKept ELSE Owned)
                 THEN "undo" ELSE "verdict")
    /\ UNCHANGED outcome

Final == Watch("final", "source", "settle") \/ Watch("again", "source", "answer")

Settle ==
    /\ pc = "settle"
    /\ Observes(Target)
    /\ \/ /\ SourceStands /\ OutputStands
          /\ IF call.dry THEN Answers("ok") ELSE (Goes("clean") /\ UNCHANGED outcome)
          /\ UNCHANGED <<store, recov>>
       \/ ~(SourceStands /\ OutputStands) /\ Loses
    /\ UNCHANGED <<file, before, base>> /\ Still

Clean ==
    /\ pc = "clean"
    /\ recov' = recov \ Mine
    /\ Goes("again")
    /\ UNCHANGED <<file, store, snapshots, outcome>> /\ Blind /\ Still

\* Bug: what the last look finds is not compared.
AnswerAnyway ==
    /\ pc = "answer"
    /\ Observes(Target)
    /\ Answers("ok")
    /\ UNCHANGED <<file, store, recov, before, base>> /\ Still

Answer ==
    /\ pc = "answer"
    /\ Observes(Target)
    /\ \/ SourceStands /\ OutputStands /\ Answers("ok") /\ UNCHANGED <<store, recov>>
       \/ ~(SourceStands /\ OutputStands) /\ Loses
    /\ UNCHANGED <<file, before, base>> /\ Still

\* An exception: everything is taken back and the call raises.
Except ==
    /\ pc = "except"
    /\ Forget
    /\ recov' = recov \cup Mine
    /\ \/ Published /\ Publishes(token, Undone(before[Target]))
       \/ ~Published /\ UNCHANGED file
       \/ Published /\ file[Target] # token /\ UNCHANGED file
    /\ Answers("raised")
    /\ UNCHANGED snapshots /\ Blind /\ Still

-----------------------------------------------------------------------------
\* An external writer saves a file of its own, or one with the same bytes.
External(v, p, same) ==
    /\ v \in Foreign \ written
    /\ pc \in Ended \/ trouble < MaxTrouble
    /\ same => file[p] # Absent
    /\ file' = [file EXCEPT ![p] = Entry(IF same THEN file[p].val ELSE [base |-> v, by |-> {}], v)]
    /\ written' = written \cup {v}
    /\ trouble' = IF pc \in Ended THEN trouble ELSE trouble + 1
    /\ touched' = IF pc \in Ended THEN touched ELSE touched \cup {p}
    /\ unseen' = IF pc \in Ended THEN unseen ELSE unseen \cup {p}
    /\ UNCHANGED <<store, recov, n, call, pc, snapshots, outcome>>

\* The process dies, and the stores with it.
Crash ==
    /\ pc \notin Ended
    /\ trouble < MaxTrouble
    /\ pc' = "dead"
    /\ store' = [k \in Kinds |-> Absent]
    /\ trouble' = trouble + 1
    /\ UNCHANGED <<file, recov, n, call, snapshots, outcome, written, touched, unseen>>

\* An operation fails at this point.
Fails(from) ==
    /\ pc \in from
    /\ trouble < MaxTrouble
    /\ trouble' = trouble + 1
    /\ UNCHANGED <<file, n, call, snapshots, written, touched, unseen>>

Fault ==
    \/ Fails({"source", "output", "validate", "publish"}) /\ Settles("failed", TRUE) /\ UNCHANGED <<store, recov>>
    \/ Fails({"reserve", "cas", "read", "execute"})
       /\ Goes(IF call.kind = "special" THEN "except" ELSE "unsure") /\ UNCHANGED <<store, recov, outcome>>
    \/ Fails({"recheck", "readback"}) /\ Goes("rollback") /\ UNCHANGED <<store, recov, outcome>>
    \/ Fails({"unsure", "rollback"}) /\ Settles("failed", FALSE) /\ UNCHANGED <<store, recov>>
    \/ Fails({"look", "judge", "final", "settle", "again", "answer"})
       /\ Goes("except") /\ UNCHANGED <<store, recov, outcome>>
    \/ Fails({"clean"}) /\ Withdraws("undo") /\ UNCHANGED outcome
    \/ Fails({"undo"}) /\ Goes("verdict") /\ UNCHANGED <<store, recov, outcome>>
    \/ Fails({"verdict"})
       /\ (IF call.kind = "form" THEN Goes("except") /\ UNCHANGED outcome ELSE Answers("raised"))
       /\ UNCHANGED <<store, recov>>
    \/ Fails({"snapshot", "precondition", "except"}) /\ Answers("raised") /\ UNCHANGED <<store, recov>>

\* The handler's error answer, when the document's state cannot be read.
StateFails ==
    /\ Fails({"state"})
    /\ Answers("rolled back")
    /\ UNCHANGED <<store, recov>>

Executes ==
    \/ Lookup \/ ReadInput \/ AssertSource \/ Reserve \/ Cas \/ Recheck \/ ReadBack \/ Store
    \/ Unsure \/ Rollback \/ State
    \/ \E gate \in BOOLEAN : Validate(gate)

Adapts ==
    \/ Snapshot \/ ReadSource \/ Execute \/ Look \/ Final \/ Undo \/ Verdict \/ Settle \/ Clean
    \/ Answer \/ Except
    \/ \E gate \in IF result = "replay" THEN {TRUE} ELSE BOOLEAN : Judge(gate)

Next ==
    \/ \E k \in Kinds, r \in Requests, t \in Paths, d \in BOOLEAN :
          \E e \in {Absent, Content(file["source"])} : Begin(k, r, t, d, e)
    \/ Executes \/ Adapts
    \/ \E v \in Foreign, p \in Paths, same \in BOOLEAN : External(v, p, same)
    \/ Crash \/ Fault \/ StateFails

Spec == Init /\ [][Next]_vars

-----------------------------------------------------------------------------
Finishes == pc \notin Ended /\ pc' \in Ended
Replied == pc \notin Ended /\ pc' = "replied"
Found == IF call.kind = "batch" THEN base ELSE before
OfCall(e) == e # Absent /\ n \in e.val.by
Withdrawn ==
    /\ ~OfCall(file'[Target])
    /\ Target \notin touched => Found[Target] = Absent \/ Content(file'[Target]) = Found[Target].val

\* rolledBack is true only when nothing of the request is left in the output,
\* which is what it was unless an external writer has replaced it since.  One
\* answer is left out: that of a batch handler that could not read the document's
\* state, where the executor itself had not said rolledBack; it says so whatever
\* was published (agent_document.py:130-141).
RolledBackIsTrue ==
    [][Replied /\ reply' = "rolled back" /\ (pc = "state" => rolled) => Withdrawn]_vars

\* An answer ok is about files the call has looked at after its last step: the
\* output is what it claims, made from the source that is still there.  A batch
\* that replays looks at nothing.
OkIsTrue ==
    [][Replied /\ reply' = "ok" /\ (call.kind = "batch" => result = "ok") =>
        /\ "source" \notin unseen' /\ (~InPlace \/ ~Published) => file'["source"] = Found["source"]
        /\ Published => token.val = Edited(Found["source"].val)
        /\ Published /\ Target \notin unseen' => file'[Target] = token
        /\ result = "replay" /\ ~call.dry /\ Target \notin unseen' =>
              Content(file'[Target]) = store["form"].claim]_vars

\* A key the call has recorded, of a batch or of a form, stands for a success at the
\* end of the call: its retry is told of a publication that was made and, unless
\* an external writer has replaced it, is there.  The call itself was told ok, but
\* for a batch handler that could not read the document's state afterwards, and a
\* form whose exception could not even put its preimage aside, the step before
\* the key is given up.
Recorded(k) == store'[k] # Absent /\ store'[k].by = n
FailsAt(at) == pc = at /\ trouble' > trouble
KeyMeansDone ==
    [][Replied => \A k \in Kinds : Recorded(k) =>
        /\ k = call.kind /\ result = "ok"
        /\ call.dry \/ Published
        /\ Published /\ Target \notin touched => file'[Target] = token
        /\ reply' = "ok" \/ (k = "batch" /\ FailsAt("state")) \/ (k = "form" /\ FailsAt("except"))]_vars

\* A form that has replaced an output and does not succeed leaves the preimage,
\* in place or in its sidecar, whatever failed, died or wrote meanwhile.  A
\* process that dies once it has dropped the sidecar had succeeded but for its
\* answer, and an exception after another fault may fail to write the sidecar.
PreimageSurvives ==
    [][Finishes /\ call.kind # "batch" /\ Published /\ before[Target] # Absent /\ reply' # "ok" =>
        \/ Content(file'[Target]) = before[Target].val
        \/ \E r \in recov' : r.val = before[Target].val
        \/ pc \in {"again", "answer"}
        \/ pc = "except" /\ trouble' > 1]_vars
=============================================================================
