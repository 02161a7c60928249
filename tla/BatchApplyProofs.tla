--------------------------- MODULE BatchApplyProofs ---------------------------
(***************************************************************************)
(* Theorems about one request's publication, answer and withdrawal, for    *)
(* any number of calls, faults, crashes and external writes.               *)
(***************************************************************************)
EXTENDS BatchApply, TLAPS

\* Before anything is published.
Early == {"snapshot", "precondition", "lookup", "source", "output", "validate", "publish",
          "reserve", "cas", "read", "execute"}
Executing == Core \cup {"reserve", "cas", "unsure", "rollback"}

\* Where each kind of call is, and what it may have done by then.
PhaseOK ==
    /\ call.kind = "batch" => pc \in Executing \cup {"state"}
    /\ call.kind = "form" => pc \in Executing \cup Adapter /\ ~InPlace
    /\ call.kind = "special" => pc \in Adapter \cup {"reserve", "read", "execute"} /\ result \in {"none", "ok"}
    /\ n > 0
    /\ pc \in Early => ~Published /\ ~rolled /\ result # "replay"
    /\ call.dry /\ call.kind # "special" => pc \notin {"reserve", "cas"}
    /\ pc = "unsure" => ~Published
    /\ pc \in {"recheck", "readback", "rollback"} => Published
    /\ Published => ~call.dry
    /\ result = "replay" => ~Published

\* Edited by earlier calls only; or by this one at most.
Old(e) == e # Absent => \A c \in e.val.by : c < n
Young(e) == e # Absent => \A c \in e.val.by : c <= n
Known(e) == e # Absent => e.id \in (0..MaxCalls) \cup written

FilesOK ==
    /\ file["source"] # Absent
    /\ \A p \in Paths : Young(file[p]) /\ Known(file[p])
    /\ \A k \in Kinds : store[k] # Absent => store[k].by <= n

\* Nothing of this call is where it has not published.
AgeOK ==
    \A p \in Paths :
        /\ Old(before[p]) /\ Known(before[p]) /\ Old(base[p])
        /\ p # Target \/ ~Published \/ rolled => Old(file[p])

\* The executor has read the source.
Opened ==
    \/ pc \in {"output", "validate", "publish", "cas", "recheck", "readback", "store",
               "rollback", "execute"}
    \/ pc = "reserve" /\ call.kind # "special"

OpenOK ==
    /\ Opened \/ Published => base["source"] # Absent
    /\ call.kind # "batch" /\ pc # "snapshot" => before["source"] # Absent
    /\ Published => token = Candidate
    /\ pc \in {"snapshot", "precondition"} => base["source"] = Absent
    /\ pc \in Early => seen["source"] = Absent

\* A file nobody else wrote is what was captured of it, and the executor and its
\* adapter have captured the same.
Compared == {"validate", "publish", "reserve", "cas", "recheck", "readback", "rollback"}
KeptOK ==
    /\ \A p \in Paths \ touched :
          p # Target \/ ~Published =>
              /\ before[p] # Absent => file[p] = before[p]
              /\ base[p] # Absent => file[p] = base[p]
    /\ call.kind = "form" /\ Target \notin touched /\ before[Target] # Absent
          /\ pc \in Compared
       => base[Target] = before[Target]

\* What is believed to be rolled back is.
RolledOK ==
    rolled /\ Target \notin touched =>
        Found[Target] = Absent \/ Content(file[Target]) = Found[Target].val

\* A key of this call is that of a success that has yet to be answered.
Looking == {"look", "judge", "final", "settle", "clean", "again", "answer"}
KeyOK ==
    \A k \in Kinds : store[k] # Absent /\ store[k].by = n =>
        /\ k = call.kind
        /\ result = "ok"
        /\ \/ k = "batch" /\ pc = "state"
           \/ k = "form" /\ pc \in Looking
           \/ k = "form" /\ pc = "except" /\ trouble > 0

\* It is that of a publication that is still in its place.
Kept == \E k \in Kinds : store[k] # Absent /\ store[k].by = n
Placed == {"recheck", "readback", "store"}
PlacedOK ==
    /\ pc = "store" \/ Kept => call.dry \/ Published
    /\ pc \in Placed \/ Kept => (Published /\ Target \notin touched => file[Target] = token)

\* What is about to be replaced, or has been, is in its sidecar.
SideOK ==
    call.kind # "batch" /\ (Published \/ pc \in {"cas", "read", "execute"}) /\ ~call.dry =>
        \/ Mine \subseteq recov
        \/ pc \in {"again", "answer"}
        \/ pc = "except" /\ trouble > 0

\* A source that has changed between the snapshot and the executor's stays changed.
SourceOK ==
    call.kind # "batch" /\ base["source"] # Absent /\ base["source"] # before["source"] =>
        /\ ~(InPlace /\ Published)
        /\ file["source"] # before["source"]
        /\ seen["source"] # before["source"]

\* The batch looks at the source last before it publishes, and at the output after.
BatchOK ==
    call.kind = "batch" =>
        /\ \/ pc \in {"reserve", "cas", "recheck", "readback", "store"}
           \/ pc = "state" /\ result = "ok"
           => ("source" \notin unseen /\ (~InPlace \/ ~Published) => file["source"] = base["source"])
        /\ \/ pc \in {"recheck", "readback", "store"}
           \/ pc = "state" /\ result = "ok"
           => (Published /\ Target \notin unseen => file[Target] = token)

\* The adapters look at both files, and compare a replay with what it claims.
LookOK ==
    /\ pc \in {"settle", "answer"} /\ "source" \notin unseen => seen["source"] = file["source"]
    /\ call.kind = "form" /\ result = "replay" /\ ~call.dry
          /\ pc \in {"final", "settle", "clean", "again", "answer"}
       => Content(seen[Target]) = store["form"].claim

InCall == PhaseOK /\ AgeOK /\ OpenOK /\ KeptOK /\ RolledOK /\ KeyOK /\ PlacedOK /\ SideOK /\ SourceOK /\ BatchOK /\ LookOK
IInv == TypeOK /\ FilesOK /\ (pc \notin Ended => InCall)

-----------------------------------------------------------------------------
\* The parts of a call, of a file and of a record.
LEMMA Parts ==
    ASSUME TypeOK
    PROVE  /\ call.kind \in Kinds /\ Target \in Paths /\ call.dry \in BOOLEAN
           /\ "source" \in Paths /\ 0 \in 0 .. MaxTrouble
           /\ \A p \in Paths : /\ file[p] \in Maybe(Entries) /\ before[p] \in Maybe(Entries)
                               /\ base[p] \in Maybe(Entries) /\ seen[p] \in Maybe(Entries)
           /\ n \in Nat /\ trouble \in Nat
<1>1. 0 \in 0 .. MaxTrouble /\ n \in Nat /\ trouble \in Nat
  BY BatchAssumption DEF TypeOK
<1>2. QED
  BY <1>1 DEF TypeOK, Calls, Target, Paths

LEMMA EntryParts ==
    /\ \A v, i : Entry(v, i).val = v /\ Entry(v, i).id = i
    /\ \A v \in Values, i \in (0..MaxCalls) \cup Foreign : Entry(v, i) \in Entries
    /\ \A e \in Maybe(Entries) : e # Absent => e \in Entries /\ e.val \in Values /\ e = Entry(e.val, e.id)
    /\ \A e \in Entries : e # Absent
    /\ \A e \in Maybe(Entries) : Content(e) \in Maybe(Values)
    /\ \A v \in Values : v # Absent
BY BatchAssumption DEF Entry, Entries, Maybe, Content

LEMMA CandidateIs ==
    ASSUME TypeOK, n > 0, base["source"] # Absent
    PROVE  /\ Candidate \in Entries /\ Candidate # Absent
           /\ Candidate.val = Edited(base["source"].val) /\ Candidate.id = n
           /\ Candidate.val \in Values
<1>1. base["source"].val \in Values
  BY Parts, EntryParts
<1>2. n \in 1 .. MaxCalls
  BY DEF TypeOK
<1>3. Edited(base["source"].val) \in Values
  BY <1>1, <1>2 DEF Edited, Values
<1>4. QED
  BY <1>2, <1>3, EntryParts DEF Candidate

LEMMA UndoneIs ==
    ASSUME TypeOK, NEW e \in Maybe(Entries)
    PROVE  /\ Undone(e) \in Maybe(Entries)
           /\ Undone(e) = Absent <=> e = Absent
           /\ e # Absent => Undone(e).val = e.val /\ Undone(e).id = n
<1>1. n \in (0..MaxCalls) \cup Foreign
  BY DEF TypeOK
<1>2. e # Absent => Undone(e) = Entry(e.val, n) /\ e.val \in Values
  BY EntryParts DEF Undone
<1>3. QED
  BY <1>1, <1>2, EntryParts DEF Undone, Maybe

LEMMA MineIs ==
    ASSUME TypeOK, n > 0
    PROVE  /\ Mine \subseteq [val : Values, by : 1..MaxCalls]
           /\ before[Target] # Absent => Mine = {[val |-> before[Target].val, by |-> n]}
           /\ before[Target] = Absent => Mine = {}
<1>1. n \in 1 .. MaxCalls
  BY DEF TypeOK
<1>2. before[Target] # Absent => before[Target].val \in Values
  BY Parts, EntryParts
<1>3. QED
  BY <1>1, <1>2 DEF Mine

Moves == Executes \/ Adapts \/ Fault \/ StateFails

LEMMA Steps ==
    ASSUME [Next]_vars
    PROVE  \/ \E k \in Kinds, r \in Requests, t \in Paths, d \in BOOLEAN, e \in {Absent, Content(file["source"])} :
                 Begin(k, r, t, d, e)
           \/ Moves \/ Crash
           \/ \E v \in Foreign, p \in Paths, same \in BOOLEAN : External(v, p, same)
           \/ UNCHANGED vars
BY DEF Next, Moves

-----------------------------------------------------------------------------
\* A call that moves keeps its number and what it asks.
LEMMA Inside ==
    ASSUME Moves
    PROVE  /\ pc \notin Ended
           /\ UNCHANGED <<n, call, written, touched>>
           /\ unseen' \in {unseen, unseen \ {"source"}, unseen \ {Target}}
<1>1. ASSUME Executes
      PROVE  /\ pc \notin Ended
             /\ UNCHANGED <<n, call, written, touched>>
             /\ unseen' \in {unseen, unseen \ {"source"}, unseen \ {Target}}
  BY <1>1 DEF Executes, Lookup, ReadInput, Open, AssertSource, Reserve, Cas, Recheck, ReadBack,
     Store, Unsure, Rollback, State, Validate, Looks, Blind, Still, Ended, others
<1>2. ASSUME Adapts
      PROVE  /\ pc \notin Ended
             /\ UNCHANGED <<n, call, written, touched>>
             /\ unseen' \in {unseen, unseen \ {"source"}, unseen \ {Target}}
  BY <1>2 DEF Adapts, Snapshot, Capture, ReadSource, Execute, Look, Final, Watch, Undo, Verdict,
     Settle, Clean, Answer, Except, Judge, Observes, Looks, Blind, Still, Ended, others, First, Second
<1>3. ASSUME Fault \/ StateFails
      PROVE  /\ pc \notin Ended
             /\ UNCHANGED <<n, call, written, touched>>
             /\ unseen' \in {unseen, unseen \ {"source"}, unseen \ {Target}}
  BY <1>3 DEF Fault, StateFails, Fails, Ended
<1>4. QED
  BY <1>1, <1>2, <1>3 DEF Moves

\* How the files change.
Publish == /\ pc \in {"cas", "execute"} /\ pc' \in {"recheck", "look"}
           /\ file[Target] = IF pc = "cas" /\ call.kind # "form" THEN base[Target] ELSE before[Target]
           /\ pc = "execute" => ~call.dry
           /\ token' = Candidate
           /\ file' = [file EXCEPT ![Target] = Candidate]
Withdraw == /\ pc \in {"rollback", "undo", "except"}
            /\ file[Target] = token
            /\ pc = "rollback" \/ Published
            /\ \/ pc = "rollback" /\ file' = [file EXCEPT ![Target] = Undone(base[Target])]
               \/ pc # "rollback" /\ file' = [file EXCEPT ![Target] = Undone(before[Target])]
            /\ token' = token

LEMMA FileSteps ==
    ASSUME Moves
    PROVE  Publish \/ Withdraw \/ UNCHANGED <<file, token>>
<1>1. ASSUME Executes
      PROVE  Publish \/ Withdraw \/ UNCHANGED <<file, token>>
  BY <1>1 DEF Executes, Lookup, ReadInput, Open, AssertSource, Reserve, Cas, Recheck, ReadBack,
     Store, Unsure, Rollback, State, Validate, Settles, Answers, outcome, Publish, Withdraw, Publishes, Goes
<1>2. ASSUME Adapts
      PROVE  Publish \/ Withdraw \/ UNCHANGED <<file, token>>
  BY <1>2 DEF Adapts, Snapshot, Capture, ReadSource, Execute, Look, Final, Watch, Undo, Verdict,
     Settle, Clean, Answer, Except, Judge, Loses, Answers, outcome, Publish, Withdraw, Publishes, Goes
<1>3. ASSUME Fault \/ StateFails
      PROVE  Publish \/ Withdraw \/ UNCHANGED <<file, token>>
  BY <1>3 DEF Fault, StateFails, Fails, Settles, Answers, Withdraws, outcome
<1>4. QED
  BY <1>1, <1>2, <1>3 DEF Moves

\* How the snapshots change.
Reads(p) ==
    \/ /\ pc \in {"snapshot", "precondition"} /\ pc' # pc
       /\ before' = [before EXCEPT ![p] = file[p]] /\ UNCHANGED <<base, seen>>
    \/ /\ pc \in {"source", "output", "read"}
       /\ base' = [base EXCEPT ![p] = file[p]] /\ UNCHANGED <<before, seen>>
    \/ /\ pc \in {"look", "judge", "final", "settle", "again", "answer"}
       /\ seen' = [seen EXCEPT ![p] = file[p]] /\ UNCHANGED <<before, base>>

LEMMA ReadSteps ==
    ASSUME TypeOK, Moves
    PROVE  \/ \E p \in Paths : Reads(p) /\ UNCHANGED file
           \/ UNCHANGED snapshots
<1>1. ASSUME Executes
      PROVE  \/ \E p \in Paths : Reads(p) /\ UNCHANGED file
             \/ UNCHANGED snapshots
  <2>1. CASE ReadInput
    BY <2>1, Parts DEF ReadInput, Open, Reads
  <2>2. CASE ~ReadInput
    BY <1>1, <2>2 DEF Executes, Lookup, AssertSource, Reserve, Cas, Recheck, ReadBack,
       Store, Unsure, Rollback, State, Validate
  <2>3. QED
    BY <2>1, <2>2
<1>2. ASSUME Adapts
      PROVE  \/ \E p \in Paths : Reads(p) /\ UNCHANGED file
             \/ UNCHANGED snapshots
  <2>1. CASE Snapshot
    BY <2>1, Parts DEF Snapshot, Capture, Reads, Goes
  <2>2. CASE ReadSource
    BY <2>2, Parts DEF ReadSource, Reads
  <2>3. CASE Look \/ Final
    BY <2>3, Parts DEF Look, Final, Watch, Observes, Reads, First
  <2>4. CASE Settle \/ Answer \/ \E gate \in BOOLEAN : Judge(gate)
    BY <2>4, Parts DEF Settle, Answer, Judge, Observes, Reads, Second
  <2>5. CASE Execute \/ Undo \/ Verdict \/ Clean \/ Except
    BY <2>5 DEF Execute, Undo, Verdict, Clean, Except
  <2>6. QED
    BY <1>2, <2>1, <2>2, <2>3, <2>4, <2>5 DEF Adapts
<1>3. ASSUME Fault \/ StateFails
      PROVE  UNCHANGED snapshots
  BY <1>3 DEF Fault, StateFails, Fails
<1>4. QED
  BY <1>1, <1>2, <1>3 DEF Moves

\* How the records and the sidecars change.
LEMMA StoreSteps ==
    ASSUME Moves
    PROVE  \/ UNCHANGED store
           \/ call.kind = "form" /\ store' = [store EXCEPT !["form"] = Absent]
           \/ /\ pc = "store" /\ Store
              /\ store' = [store EXCEPT ![call.kind] = [call |-> call, by |-> n, claim |-> Candidate.val]]
<1>1. ASSUME Executes
      PROVE  UNCHANGED store \/ Store
  BY <1>1 DEF Executes, Lookup, ReadInput, Open, AssertSource, Reserve, Cas, Recheck, ReadBack,
     Unsure, Rollback, State, Validate
<1>2. ASSUME Adapts
      PROVE  \/ UNCHANGED store
             \/ call.kind = "form" /\ store' = [store EXCEPT !["form"] = Absent]
  BY <1>2 DEF Adapts, Snapshot, Capture, ReadSource, Execute, Look, Final, Watch, Undo, Verdict,
     Settle, Clean, Answer, Except, Judge, Loses, Withdraws, Forget
<1>3. ASSUME Fault \/ StateFails
      PROVE  \/ UNCHANGED store
             \/ call.kind = "form" /\ store' = [store EXCEPT !["form"] = Absent]
  BY <1>3 DEF Fault, StateFails, Withdraws, Forget
<1>4. Store => pc = "store" /\ store' = [store EXCEPT ![call.kind] = [call |-> call, by |-> n, claim |-> Candidate.val]]
  BY DEF Store
<1>5. QED
  BY <1>1, <1>2, <1>3, <1>4 DEF Moves

LEMMA RecovSteps ==
    ASSUME Moves
    PROVE  recov' \in {recov, recov \cup Mine, recov \ Mine}
<1>1. ASSUME Executes
      PROVE  recov' \in {recov, recov \cup Mine, recov \ Mine}
  BY <1>1 DEF Executes, Lookup, ReadInput, Open, AssertSource, Reserve, Cas, Recheck, ReadBack,
     Store, Unsure, Rollback, State, Validate
<1>2. ASSUME Adapts
      PROVE  recov' \in {recov, recov \cup Mine, recov \ Mine}
  BY <1>2 DEF Adapts, Snapshot, Capture, ReadSource, Execute, Look, Final, Watch, Undo, Verdict,
     Settle, Clean, Answer, Except, Judge, Loses, Withdraws
<1>3. ASSUME Fault \/ StateFails
      PROVE  recov' \in {recov, recov \cup Mine, recov \ Mine}
  BY <1>3 DEF Fault, StateFails, Withdraws
<1>4. QED
  BY <1>1, <1>2, <1>3 DEF Moves

\* Where a step goes, and what it makes of the answer.
Places == Core \cup Adapter \cup Ended \cup {"reserve", "cas", "read", "execute", "unsure", "rollback", "state"}
ControlOK ==
    /\ pc \in Places
    /\ result \in {"none", "ok", "replay", "failed"}
    /\ rolled \in BOOLEAN
    /\ reply \in Replies
    /\ trouble \in 0..MaxTrouble

LEMMA ControlSteps ==
    ASSUME TypeOK, Moves
    PROVE  ControlOK'
<1>0. ControlOK /\ call.kind \in Kinds /\ trouble \in Nat /\ MaxTrouble \in Nat
  BY Parts, BatchAssumption DEF TypeOK, ControlOK, Places
<1>1. ASSUME Executes
      PROVE  ControlOK'
  BY <1>0, <1>1 DEF Executes, Lookup, ReadInput, Open, AssertSource, Reserve, Cas, Recheck, ReadBack,
     Store, Unsure, Rollback, State, Validate, Settles, Settled, Answers, Refusal, outcome, others, Looks, Blind,
     Goes, ControlOK, Places, Core, Adapter, Ended, Replies
<1>2. ASSUME Adapts
      PROVE  ControlOK'
  <2>1. CASE Snapshot \/ ReadSource \/ Execute \/ Look \/ Final \/ Clean
    BY <1>0, <2>1 DEF Snapshot, Capture, ReadSource, Execute, Look, Final, Watch, Clean, Observes,
       Looks, Blind, outcome, others, Goes, ControlOK, Places, Core, Adapter, Ended, Replies
  <2>2. CASE Undo \/ Verdict \/ Except
    BY <1>0, <2>2 DEF Undo, Verdict, Except, Looks, Blind, Answers, others, Goes,
       ControlOK, Places, Core, Adapter, Ended, Replies
  <2>3. CASE Settle \/ Answer
    BY <1>0, <2>3 DEF Settle, Answer, Loses, Withdraws, Observes, Answers, Looks, outcome, Goes,
       ControlOK, Places, Core, Adapter, Ended, Replies
  <2>4. CASE \E gate \in BOOLEAN : Judge(gate)
    BY <1>0, <2>4 DEF Judge, Withdraws, Observes, Looks, outcome, Goes,
       ControlOK, Places, Core, Adapter, Ended, Replies
  <2>5. QED
    BY <1>2, <2>1, <2>2, <2>3, <2>4 DEF Adapts
<1>3. ASSUME Fault \/ StateFails
      PROVE  ControlOK'
  <2>1. trouble < MaxTrouble /\ trouble' = trouble + 1
    BY <1>3 DEF Fault, StateFails, Fails
  <2>2. trouble' \in 0 .. MaxTrouble
    BY <1>0, <2>1
  <2>3. QED
    BY <1>0, <1>3, <2>2 DEF Fault, StateFails, Fails, Settles, Settled, Answers, Withdraws, outcome, Goes,
       ControlOK, Places, Core, Adapter, Ended, Replies
<1>4. QED
  BY <1>1, <1>2, <1>3 DEF Moves

\* A publication happens where its candidate exists.
LEMMA Publishing ==
    ASSUME IInv, Moves, Publish
    PROVE  /\ base["source"] # Absent /\ n > 0 /\ ~rolled /\ ~Published
           /\ pc \notin Ended /\ InCall
<1>1. pc \notin Ended /\ pc \in {"cas", "execute"}
  BY DEF Publish, Ended
<1>2. QED
  BY <1>1 DEF IInv, InCall, PhaseOK, OpenOK, Opened, Early, Published

LEMMA MovesTyped ==
    ASSUME IInv, Moves
    PROVE  TypeOK'
<1>0. TypeOK /\ n > 0 /\ pc \notin Ended /\ UNCHANGED <<n, call, written, touched>>
  BY Inside DEF IInv, InCall, PhaseOK
<1>1. file' \in [Paths -> Maybe(Entries)] /\ token' \in Maybe(Entries)
  <2>1. CASE Publish
    <3>1. Candidate \in Maybe(Entries)
      BY <1>0, <2>1, Publishing, CandidateIs DEF Maybe
    <3>2. QED
      BY <1>0, <2>1, <3>1 DEF Publish, TypeOK
  <2>2. CASE Withdraw
    <3>1. Undone(base[Target]) \in Maybe(Entries) /\ Undone(before[Target]) \in Maybe(Entries)
      BY <1>0, Parts, UndoneIs
    <3>2. QED
      BY <1>0, <2>2, <3>1 DEF Withdraw, TypeOK
  <2>3. QED
    BY <1>0, <2>1, <2>2, FileSteps DEF TypeOK
<1>2. /\ before' \in [Paths -> Maybe(Entries)]
      /\ base' \in [Paths -> Maybe(Entries)]
      /\ seen' \in [Paths -> Maybe(Entries)]
  <2>1. ASSUME NEW p \in Paths, Reads(p)
        PROVE  /\ before' \in [Paths -> Maybe(Entries)]
               /\ base' \in [Paths -> Maybe(Entries)]
               /\ seen' \in [Paths -> Maybe(Entries)]
    BY <1>0, <2>1, Parts DEF Reads, TypeOK
  <2>2. QED
    BY <1>0, <2>1, ReadSteps DEF TypeOK, snapshots
<1>3. store' \in [Kinds -> Maybe([call : Calls, by : 1..MaxCalls, claim : Maybe(Values)])]
  <2>1. CASE pc = "store"
    <3>1. Candidate.val \in Maybe(Values) /\ n \in 1..MaxCalls /\ call \in Calls
      BY <1>0, <2>1, CandidateIs DEF IInv, InCall, OpenOK, Opened, Maybe, TypeOK
    <3>2. [call |-> call, by |-> n, claim |-> Candidate.val] \in
             Maybe([call : Calls, by : 1..MaxCalls, claim : Maybe(Values)])
      BY <3>1 DEF Maybe
    <3>3. QED
      BY <1>0, <3>2, StoreSteps DEF TypeOK, Maybe
  <2>2. CASE pc # "store"
    BY <1>0, <2>2, StoreSteps DEF TypeOK, Maybe
  <2>3. QED
    BY <2>1, <2>2
<1>4. recov' \subseteq [val : Values, by : 1..MaxCalls]
  BY <1>0, MineIs, RecovSteps DEF TypeOK
<1>5. ControlOK' /\ unseen' \subseteq Paths
  BY <1>0, ControlSteps, Inside DEF TypeOK
<1>6. QED
  BY <1>0, <1>1, <1>2, <1>3, <1>4, <1>5 DEF TypeOK, ControlOK, Places

LEMMA BeginTyped ==
    ASSUME TypeOK, NEW k \in Kinds, NEW r \in Requests, NEW t \in Paths, NEW d \in BOOLEAN,
           NEW e \in {Absent, Content(file["source"])}, Begin(k, r, t, d, e)
    PROVE  TypeOK'
<1>1. e \in Maybe(Values)
  BY Parts, EntryParts DEF Maybe
<1>2. call' \in Calls
  BY <1>1 DEF Begin, Calls
<1>3. n' \in 0 .. MaxCalls /\ 0 \in 0 .. MaxTrouble
  BY Parts, BatchAssumption DEF Begin
<1>4. Nothing \in [Paths -> Maybe(Entries)]
  BY DEF Nothing, Maybe
<1>5. pc' \in {"lookup", "snapshot"}
  BY DEF Begin, Goes
<1>6. QED
  BY <1>2, <1>3, <1>4, <1>5 DEF Begin, TypeOK, Core, Adapter, Maybe, Replies

LEMMA ExternalIs ==
    ASSUME TypeOK, NEW v \in Foreign, NEW p \in Paths, NEW same \in BOOLEAN, External(v, p, same)
    PROVE  \E w \in Values :
              /\ Entry(w, v) \in Entries
              /\ file' = [file EXCEPT ![p] = Entry(w, v)]
              /\ w.by = {} \/ (file[p] # Absent /\ w = file[p].val)
<1>1. [base |-> v, by |-> {}] \in Values
  BY DEF Values
<1>2. same => file[p].val \in Values /\ file[p] # Absent
  BY Parts, EntryParts DEF External
<1>3. QED
  BY <1>1, <1>2, EntryParts DEF External

LEMMA ExternalTyped ==
    ASSUME TypeOK, NEW v \in Foreign, NEW p \in Paths, NEW same \in BOOLEAN, External(v, p, same)
    PROVE  TypeOK'
<1>1. file' \in [Paths -> Maybe(Entries)]
  BY ExternalIs DEF TypeOK, Maybe
<1>2. trouble' \in 0 .. MaxTrouble
  BY Parts, BatchAssumption DEF External, TypeOK
<1>3. QED
  BY <1>1, <1>2 DEF External, TypeOK, snapshots, outcome

LEMMA CrashTyped ==
    ASSUME TypeOK, Crash
    PROVE  TypeOK'
<1>1. trouble' \in 0 .. MaxTrouble
  BY Parts, BatchAssumption DEF Crash, TypeOK
<1>2. store' \in [Kinds -> Maybe([call : Calls, by : 1..MaxCalls, claim : Maybe(Values)])]
  BY DEF Crash, Maybe
<1>3. QED
  BY <1>1, <1>2 DEF Crash, TypeOK, snapshots, outcome, Ended

LEMMA NextTyped ==
    ASSUME IInv, [Next]_vars
    PROVE  TypeOK'
<1>1. CASE UNCHANGED vars
  BY <1>1 DEF vars, snapshots, outcome, others, IInv, TypeOK
<1>2. QED
  BY <1>1, Steps, MovesTyped, BeginTyped, ExternalTyped, CrashTyped DEF IInv

-----------------------------------------------------------------------------
\* Where the kinds of call are.
LEMMA KindNext ==
    ASSUME IInv, Moves, pc' \notin Ended
    PROVE  /\ call.kind = "batch" => pc' \in Executing \cup {"state"}
           /\ call.kind = "form" => pc' \in Executing \cup Adapter
           /\ call.kind = "special" => pc' \in Adapter \cup {"reserve", "read", "execute"} /\ result' \in {"none", "ok"}
<1>0. PhaseOK
  BY Inside DEF IInv, InCall
<1>1. CASE Executes
  BY <1>0, <1>1 DEF Executes, Lookup, ReadInput, Open, AssertSource, Reserve, Cas, Recheck, ReadBack,
     Store, Unsure, Rollback, State, Validate, Settles, Settled, Answers, outcome,
     Goes, PhaseOK, Executing, Core, Adapter, Ended
<1>2. CASE Adapts
  <2>1. CASE Snapshot \/ ReadSource \/ Execute \/ Look \/ Final \/ Clean
    BY <1>0, <2>1 DEF Snapshot, Capture, ReadSource, Execute, Look, Final, Watch, Clean,
       outcome, Goes, PhaseOK, Executing, Core, Adapter, Ended
  <2>2. CASE Undo \/ Verdict \/ Except
    BY <1>0, <2>2 DEF Undo, Verdict, Except, Answers, Goes, PhaseOK, Executing, Core, Adapter, Ended
  <2>3. CASE Settle \/ Answer
    BY <1>0, <2>3 DEF Settle, Answer, Loses, Withdraws, Answers, outcome, Goes,
       PhaseOK, Executing, Core, Adapter, Ended
  <2>4. CASE \E gate \in BOOLEAN : Judge(gate)
    BY <1>0, <2>4 DEF Judge, Withdraws, outcome, Goes, PhaseOK, Executing, Core, Adapter, Ended
  <2>5. QED
    BY <1>2, <2>1, <2>2, <2>3, <2>4 DEF Adapts
<1>3. CASE Fault \/ StateFails
  BY <1>0, <1>3 DEF Fault, StateFails, Fails, Settles, Settled, Answers, Withdraws, outcome, Goes,
     PhaseOK, Executing, Core, Adapter, Ended
<1>4. QED
  BY <1>1, <1>2, <1>3 DEF Moves

\* Early steps lead to early steps, to a publication or away without one.
LEMMA EarlyNext ==
    ASSUME IInv, Moves, pc' \in Early
    PROVE  pc \in Early /\ UNCHANGED <<token, rolled>> /\ (result # "replay" => result' # "replay")
<1>0. call.kind \in Kinds
  BY Parts DEF IInv
<1>1. CASE Executes
  BY <1>0, <1>1 DEF Executes, Lookup, ReadInput, Open, AssertSource, Reserve, Cas, Recheck, ReadBack,
     Store, Unsure, Rollback, State, Validate, Settles, Settled, Answers, outcome, Goes, Early
<1>2. CASE Adapts
  BY <1>0, <1>2 DEF Adapts, Snapshot, Capture, ReadSource, Execute, Look, Final, Watch, Clean,
     Undo, Verdict, Except, Settle, Answer, Judge, Loses, Withdraws, Answers, outcome, Goes, Early
<1>3. CASE Fault \/ StateFails
  BY <1>0, <1>3 DEF Fault, StateFails, Fails, Settles, Settled, Answers, Withdraws, outcome, Goes, Early
<1>4. QED
  BY <1>1, <1>2, <1>3 DEF Moves

\* unsure, recheck, readback and rollback come from where it is known what was published.
LEMMA KnownNext ==
    ASSUME IInv, Moves
    PROVE  /\ pc' = "unsure" => pc \in {"reserve", "cas"} /\ UNCHANGED token
           /\ pc' = "recheck" => Publish
           /\ pc' \in {"readback", "rollback"} => pc \in {"recheck", "readback"} /\ UNCHANGED token
<1>0. call.kind \in Kinds
  BY Parts DEF IInv
<1>k. PhaseOK
  BY Inside DEF IInv, InCall
<1>1. CASE Executes
  BY <1>0, <1>1 DEF Executes, Lookup, ReadInput, Open, AssertSource, Reserve, Cas, Recheck, ReadBack,
     Store, Unsure, Rollback, State, Validate, Settles, Settled, Answers, outcome, Goes, Publish, Publishes
<1>2. CASE Adapts
  BY <1>0, <1>2 DEF Adapts, Snapshot, Capture, ReadSource, Execute, Look, Final, Watch, Clean,
     Undo, Verdict, Except, Settle, Answer, Judge, Loses, Withdraws, Answers, outcome, Goes
<1>3. CASE Fault \/ StateFails
  BY <1>0, <1>k, <1>3 DEF Fault, StateFails, Fails, Settles, Settled, Answers, Withdraws, outcome, Goes,
     PhaseOK, Adapter, Executing, Core, Kinds, Ended
<1>4. QED
  BY <1>1, <1>2, <1>3 DEF Moves

\* What the executor answers stays.
LEMMA ResultSteps ==
    ASSUME IInv, Moves
    PROVE  \/ UNCHANGED result
           \/ pc = "lookup" /\ result' \in {"replay", "failed"} /\ UNCHANGED token
           \/ pc = "store" /\ Store /\ result' = "ok"
           \/ pc = "execute" /\ result' = "ok"
           \/ pc \in {"source", "output", "validate", "publish", "unsure", "rollback"}
                \cup {"recheck", "readback"} /\ result' = "failed"
<1>1. CASE Executes
  BY <1>1 DEF Executes, Lookup, ReadInput, Open, AssertSource, Reserve, Cas, Recheck, ReadBack,
     Store, Unsure, Rollback, State, Validate, Settles, Answers, outcome
<1>2. CASE Adapts
  BY <1>2 DEF Adapts, Snapshot, Capture, ReadSource, Execute, Look, Final, Watch, Clean,
     Undo, Verdict, Except, Settle, Answer, Judge, Loses, Answers, outcome
<1>3. CASE Fault \/ StateFails
  BY <1>3 DEF Fault, StateFails, Fails, Settles, Answers, outcome
<1>4. QED
  BY <1>1, <1>2, <1>3 DEF Moves

\* A dry run of the executor publishes nothing.
LEMMA DryNext ==
    ASSUME IInv, Moves, call.dry, call.kind # "special"
    PROVE  pc' \notin {"reserve", "cas"}
<1>0. call.kind \in Kinds /\ PhaseOK
  BY Parts, Inside DEF IInv, InCall
<1>1. CASE Executes
  BY <1>0, <1>1 DEF Executes, Lookup, ReadInput, Open, AssertSource, Reserve, Cas, Recheck, ReadBack,
     Store, Unsure, Rollback, State, Validate, Settles, Settled, Answers, outcome, Goes, PhaseOK
<1>2. CASE Adapts
  BY <1>0, <1>2 DEF Adapts, Snapshot, Capture, ReadSource, Execute, Look, Final, Watch, Clean,
     Undo, Verdict, Except, Settle, Answer, Judge, Loses, Withdraws, Answers, outcome, Goes,
     PhaseOK, Executing, Core, Kinds, Ended
<1>3. CASE Fault \/ StateFails
  BY <1>0, <1>3 DEF Fault, StateFails, Fails, Settles, Settled, Answers, Withdraws, outcome, Goes
<1>4. QED
  BY <1>1, <1>2, <1>3 DEF Moves

LEMMA PhaseNext ==
    ASSUME IInv, Moves, pc' \notin Ended
    PROVE  PhaseOK'
<1>0. PhaseOK /\ UNCHANGED <<n, call>> /\ TypeOK
  BY Inside DEF IInv, InCall
<1>1. Published' => Published \/ Publish
  BY FileSteps DEF Withdraw, Published
<1>2. ASSUME Publish
      PROVE  Published' /\ ~call.dry /\ pc \in Early /\ ~(pc' \in Early \cup {"unsure"})
  <2>1. Candidate # Absent
    BY <1>0, <1>2, Publishing, CandidateIs
  <2>2. pc \in {"cas", "execute"} /\ pc' \in {"recheck", "look"}
    BY <1>2 DEF Publish
  <2>3. ~call.dry
    BY <1>0, <1>2, <2>2 DEF Publish, PhaseOK, Adapter, Ended
  <2>4. QED
    BY <1>2, <2>1, <2>2, <2>3 DEF Publish, Published, Early
<1>3. Target' = Target
  BY <1>0 DEF Target
<1>4. /\ call.kind = "batch" => pc' \in Executing \cup {"state"}
      /\ call.kind = "form" => pc' \in Executing \cup Adapter /\ ~InPlace'
      /\ call.kind = "special" => pc' \in Adapter \cup {"reserve", "read", "execute"} /\ result' \in {"none", "ok"}
  BY <1>0, <1>3, KindNext DEF PhaseOK, InPlace
<1>5. pc' \in Early => ~Published' /\ ~rolled' /\ result' # "replay"
  BY <1>0, EarlyNext DEF PhaseOK, Published
<1>6. pc' = "unsure" => ~Published'
  BY <1>0, KnownNext DEF PhaseOK, Published, Early
<1>7. pc' \in {"recheck", "readback", "rollback"} => Published'
  BY <1>0, <1>2, KnownNext DEF PhaseOK, Published
<1>8. Published' => ~call.dry
  BY <1>0, <1>1, <1>2 DEF PhaseOK
<1>9. result' = "replay" => ~Published'
  <2>1. CASE Publish
    <3>1. result # "replay" => result' # "replay"
      BY <2>1, ResultSteps DEF Publish
    <3>2. QED
      BY <1>0, <1>2, <2>1, <3>1, EarlyNext DEF PhaseOK, Early
  <2>2. CASE ~Publish
    BY <1>0, <1>1, <2>2, ResultSteps DEF PhaseOK, Published, Early
  <2>3. QED
    BY <2>1, <2>2
<1>10. call.dry /\ call.kind # "special" => pc' \notin {"reserve", "cas"}
  BY DryNext
<1>11. QED
  BY <1>0, <1>4, <1>5, <1>6, <1>7, <1>8, <1>9, <1>10 DEF PhaseOK

-----------------------------------------------------------------------------
\* What is written is as old as the call, and what is put back is older.
LEMMA Ages ==
    ASSUME TypeOK, NEW e \in Maybe(Entries), e # Absent
    PROVE  /\ \A c \in e.val.by : c \in Nat
           /\ Old(e) => Young(e)
<1>1. e.val.by \subseteq 1..MaxCalls
  BY EntryParts DEF Values
<1>2. \A c \in e.val.by : c \in Nat
  BY <1>1, BatchAssumption
<1>3. QED
  BY <1>2, Parts DEF Old, Young

LEMMA CandidateAge ==
    ASSUME TypeOK, n > 0, base["source"] # Absent, Old(base["source"])
    PROVE  /\ Young(Candidate) /\ Candidate.id \in 0..MaxCalls
<1>1. Candidate.val.by = base["source"].val.by \cup {n}
  BY CandidateIs DEF Edited
<1>2. \A c \in base["source"].val.by : c \in Nat /\ c < n
  BY Ages, Parts DEF Old
<1>3. Candidate.id = n /\ n \in 0..MaxCalls /\ n \in Nat
  BY CandidateIs, Parts DEF TypeOK
<1>4. \A c \in Candidate.val.by : c <= n
  BY <1>1, <1>2, <1>3
<1>5. QED
  BY <1>3, <1>4 DEF Young

LEMMA UndoneAge ==
    ASSUME TypeOK, NEW e \in Maybe(Entries), Old(e)
    PROVE  /\ Old(Undone(e)) /\ Young(Undone(e))
           /\ Undone(e) # Absent => Undone(e).id \in 0..MaxCalls
<1>1. n \in 0..MaxCalls
  BY DEF TypeOK
<1>2. Undone(e) \in Maybe(Entries) /\ (Undone(e) # Absent => e # Absent /\ Undone(e).val = e.val /\ Undone(e).id = n)
  BY UndoneIs
<1>3. Old(Undone(e))
  BY <1>2 DEF Old
<1>4. Young(Undone(e))
  BY <1>2, <1>3, Ages DEF Young
<1>5. QED
  BY <1>1, <1>2, <1>3, <1>4

\* Where a publication is taken back, there is one, and what it goes back to.
LEMMA Withdrawing ==
    ASSUME IInv, Moves, Withdraw
    PROVE  /\ Published /\ n > 0 /\ InCall
           /\ pc # "rollback" => call.kind # "batch"
           /\ \E e \in {base[Target], before[Target]} :
                 /\ e \in Maybe(Entries) /\ Old(e)
                 /\ InPlace => e # Absent
                 /\ file' = [file EXCEPT ![Target] = Undone(e)]
                 /\ pc = "rollback" => e = base[Target]
                 /\ pc # "rollback" => e = before[Target]
<1>1. pc \notin Ended /\ PhaseOK /\ AgeOK /\ OpenOK /\ TypeOK /\ InCall
  BY Inside DEF IInv, InCall
<1>2. Published /\ n > 0 /\ (pc # "rollback" => call.kind # "batch")
  BY <1>1 DEF Withdraw, PhaseOK, Executing, Core
<1>3. InPlace => base[Target] # Absent /\ (pc # "rollback" => before[Target] # Absent)
  BY <1>1, <1>2 DEF InPlace, OpenOK, Withdraw
<1>4. Old(base[Target]) /\ Old(before[Target])
  BY <1>1, Parts DEF AgeOK
<1>6. QED
  BY <1>1, <1>2, <1>3, <1>4, Parts DEF Withdraw

LEMMA MovesFiles ==
    ASSUME IInv, Moves
    PROVE  FilesOK'
<1>0. /\ TypeOK /\ FilesOK /\ InCall /\ n > 0 /\ UNCHANGED <<n, written, call>> /\ pc \notin Ended
      /\ file \in [Paths -> Maybe(Entries)] /\ n \in Nat
  BY Inside, Parts DEF IInv, InCall, PhaseOK, TypeOK
<1>1. ASSUME NEW e, file' = [file EXCEPT ![Target] = e], InPlace => e # Absent, Young(e),
             e # Absent => e.id \in 0..MaxCalls
      PROVE  file'["source"] # Absent /\ \A p \in Paths : Young(file[p])' /\ Known(file[p])'
  BY <1>0, <1>1 DEF FilesOK, Young, Known, InPlace, Paths
<1>2. file'["source"] # Absent /\ \A p \in Paths : Young(file[p])' /\ Known(file[p])'
  <2>1. CASE Publish
    <3>1. base["source"] # Absent /\ Old(base["source"])
      BY <1>0, <2>1, Publishing, Parts DEF InCall, AgeOK
    <3>2. Candidate # Absent /\ Young(Candidate) /\ Candidate.id \in 0..MaxCalls
      BY <1>0, <3>1, CandidateIs, CandidateAge
    <3>3. QED
      BY <1>1, <2>1, <3>2 DEF Publish
  <2>2. CASE Withdraw
    <3>1. PICK e \in Maybe(Entries) : /\ Old(e) /\ (InPlace => e # Absent)
                                      /\ file' = [file EXCEPT ![Target] = Undone(e)]
      BY <2>2, Withdrawing
    <3>2. Young(Undone(e)) /\ (Undone(e) # Absent => Undone(e).id \in 0..MaxCalls) /\ (InPlace => Undone(e) # Absent)
      BY <1>0, <3>1, UndoneAge, UndoneIs
    <3>3. QED
      BY <1>1, <3>1, <3>2
  <2>3. CASE UNCHANGED file
    BY <1>0, <2>3 DEF FilesOK, Young, Known
  <2>4. QED
    BY <2>1, <2>2, <2>3, FileSteps
<1>3. \A k \in Kinds : store'[k] # Absent => store'[k].by <= n
  <2>1. CASE pc = "store" /\ store' = [store EXCEPT ![call.kind] = [call |-> call, by |-> n, claim |-> Candidate.val]]
    BY <1>0, <2>1 DEF FilesOK, TypeOK
  <2>2. CASE store' = [store EXCEPT !["form"] = Absent] \/ UNCHANGED store
    BY <1>0, <2>2 DEF FilesOK, TypeOK
  <2>3. QED
    BY <2>1, <2>2, StoreSteps
<1>4. QED
  BY <1>0, <1>2, <1>3 DEF FilesOK

LEMMA NextFiles ==
    ASSUME IInv, [Next]_vars
    PROVE  FilesOK'
<1>0. TypeOK /\ FilesOK /\ n \in Nat
  BY Parts DEF IInv
<1>1. CASE UNCHANGED vars
  BY <1>0, <1>1 DEF vars, snapshots, outcome, others, FilesOK, Young, Known
<1>2. ASSUME NEW k \in Kinds, NEW r \in Requests, NEW t \in Paths, NEW d \in BOOLEAN,
             NEW e \in {Absent, Content(file["source"])}, Begin(k, r, t, d, e)
      PROVE  FilesOK'
  <2>1. n' = n + 1 /\ UNCHANGED <<file, store, written>>
    BY <1>2 DEF Begin
  <2>2. ASSUME NEW p \in Paths
        PROVE  Young(file[p])'
    <3>1. file[p] # Absent => \A c \in file[p].val.by : c \in Nat /\ c <= n
      BY <1>0, Parts, Ages DEF FilesOK, Young
    <3>2. file[p] # Absent => \A c \in file[p].val.by : c <= n + 1
      BY <1>0, <3>1
    <3>3. QED
      BY <2>1, <3>2 DEF Young
  <2>3. ASSUME NEW j \in Kinds, store[j] # Absent
        PROVE  store[j].by <= n + 1
    <3>1. store[j].by \in 1..MaxCalls /\ store[j].by <= n
      BY <1>0, <2>3 DEF TypeOK, Maybe, FilesOK
    <3>2. QED
      BY <1>0, <3>1, BatchAssumption
  <2>4. QED
    BY <1>0, <2>1, <2>2, <2>3 DEF FilesOK, Known
<1>3. ASSUME NEW v \in Foreign, NEW p \in Paths, NEW same \in BOOLEAN, External(v, p, same)
      PROVE  FilesOK'
  <2>1. PICK w \in Values : /\ Entry(w, v) \in Entries
                            /\ file' = [file EXCEPT ![p] = Entry(w, v)]
                            /\ w.by = {} \/ (file[p] # Absent /\ w = file[p].val)
    BY <1>0, <1>3, ExternalIs
  <2>2. UNCHANGED <<store, n>> /\ written' = written \cup {v}
    BY <1>3 DEF External
  <2>3. Entry(w, v).val = w /\ Entry(w, v).id = v /\ Entry(w, v) # Absent
    BY <2>1, EntryParts
  <2>4. \A q \in Paths : file'[q] = IF q = p THEN Entry(w, v) ELSE file[q]
    BY <1>0, <2>1 DEF TypeOK
  <2>5. \A q \in Paths : Young(file[q])' /\ Known(file[q])'
    BY <1>0, <2>1, <2>2, <2>3, <2>4 DEF FilesOK, Young, Known
  <2>6. QED
    BY <1>0, <2>2, <2>3, <2>4, <2>5 DEF FilesOK, Paths
<1>4. CASE Crash
  BY <1>0, <1>4 DEF Crash, FilesOK, Young, Known
<1>5. QED
  BY <1>1, <1>2, <1>3, <1>4, MovesFiles, Steps

-----------------------------------------------------------------------------
\* How rolledBack comes about.
LEMMA RolledSteps ==
    ASSUME TypeOK, Moves, rolled'
    PROVE  \/ rolled
           \/ pc \in {"lookup", "source", "output", "validate", "publish"} /\ UNCHANGED <<file, token>>
           \/ pc = "unsure" /\ file[Target] = base[Target] /\ UNCHANGED <<file, token>>
           \/ Withdraw
<1>1. CASE Executes
  BY <1>1, Parts DEF Executes, Lookup, ReadInput, Open, AssertSource, Reserve, Cas, Recheck, ReadBack,
     Store, Unsure, Rollback, State, Validate, Settles, Answers, outcome, Withdraw, Publishes
<1>2. CASE Adapts
  BY <1>2 DEF Adapts, Snapshot, Capture, ReadSource, Execute, Look, Final, Watch, Clean,
     Undo, Verdict, Except, Settle, Answer, Judge, Loses, Answers, outcome, Withdraw, Publishes
<1>3. CASE Fault \/ StateFails
  BY <1>3 DEF Fault, StateFails, Fails, Settles, Answers, outcome
<1>4. QED
  BY <1>1, <1>2, <1>3 DEF Moves

\* Once something is published, or just now, the snapshots stay.
LEMMA SnapshotsStay ==
    ASSUME IInv, Moves, Published \/ Publish
    PROVE  UNCHANGED <<before, base>>
<1>1. pc \notin {"snapshot", "precondition", "source", "output", "read"} /\ TypeOK
  BY Inside DEF IInv, InCall, PhaseOK, Early, Publish
<1>2. QED
  BY <1>1, ReadSteps DEF Reads, snapshots

LEMMA PublishedSteps ==
    ASSUME IInv, Moves
    PROVE  /\ Published' <=> Published \/ Publish
           /\ Published => token' = token
<1>0. TypeOK
  BY DEF IInv
<1>1. CASE Publish
  <2>1. Candidate # Absent
    BY <1>0, <1>1, Publishing, CandidateIs
  <2>2. QED
    BY <1>1, <2>1, Publishing DEF Publish, Published
<1>2. CASE ~Publish
  BY <1>2, FileSteps DEF Withdraw, Published
<1>3. QED
  BY <1>1, <1>2

\* A snapshot is taken of a file that this call has not published yet.
LEMMA Captured ==
    ASSUME IInv, Moves, NEW p \in Paths, before'[p] # before[p] \/ base'[p] # base[p]
    PROVE  /\ ~Published /\ ~Publish /\ UNCHANGED <<file, token>>
           /\ before'[p] # before[p] => before'[p] = file[p]
           /\ base'[p] # base[p] => base'[p] = file[p]
<1>0. TypeOK /\ pc \notin Ended /\ PhaseOK
  BY Inside DEF IInv, InCall
<1>1. PICK q \in Paths : Reads(q) /\ UNCHANGED file
  BY <1>0, ReadSteps DEF snapshots
<1>2. ~Published /\ ~Publish
  BY SnapshotsStay
<1>3. token' = token
  BY <1>1, <1>2, FileSteps DEF Withdraw, Reads
<1>4. QED
  BY <1>0, <1>1, <1>2, <1>3 DEF Reads, TypeOK

LEMMA MovesAge ==
    ASSUME IInv, Moves
    PROVE  AgeOK'
<1>0. /\ TypeOK /\ FilesOK /\ AgeOK /\ PhaseOK /\ n > 0
      /\ UNCHANGED <<n, written, call>> /\ Target' = Target
  BY Inside DEF IInv, InCall, PhaseOK, Target
<1>1. ASSUME NEW p \in Paths
      PROVE  Old(before[p])' /\ Known(before[p])' /\ Old(base[p])'
  <2>1. CASE before'[p] # before[p] \/ base'[p] # base[p]
    <3>1. Old(file[p]) /\ Known(file[p])
      BY <1>0, <2>1, Captured DEF AgeOK, FilesOK
    <3>2. Old(before[p]) /\ Known(before[p]) /\ Old(base[p])
      BY <1>0 DEF AgeOK
    <3>3. before'[p] \in {before[p], file[p]} /\ base'[p] \in {base[p], file[p]}
      BY <2>1, Captured
    <3>4. QED
      BY <1>0, <3>1, <3>2, <3>3 DEF Old, Known
  <2>2. CASE before'[p] = before[p] /\ base'[p] = base[p]
    BY <1>0, <2>2 DEF AgeOK, Old, Known
  <2>3. QED
    BY <2>1, <2>2
<1>2. ASSUME NEW p \in Paths, p # Target \/ ~Published' \/ rolled'
      PROVE  Old(file[p])'
  <2>1. CASE Publish
    <3>1. ~rolled /\ Published' /\ ~Published
      BY <2>1, Publishing, PublishedSteps
    <3>2. ~rolled'
      BY <1>0, <2>1, <3>1, RolledSteps DEF Publish, Withdraw, PhaseOK
    <3>3. p # Target /\ file'[p] = file[p]
      BY <1>0, <1>2, <2>1, <3>1, <3>2 DEF Publish, TypeOK
    <3>4. QED
      BY <1>0, <3>3 DEF AgeOK, Old
  <2>2. CASE Withdraw
    <3>1. PICK e \in Maybe(Entries) : Old(e) /\ file' = [file EXCEPT ![Target] = Undone(e)]
      BY <2>2, Withdrawing
    <3>2. Old(Undone(e))
      BY <1>0, <3>1, UndoneAge
    <3>3. p # Target => file'[p] = file[p] /\ Old(file[p])
      BY <1>0, <3>1 DEF AgeOK, TypeOK
    <3>4. p = Target => file'[p] = Undone(e)
      BY <1>0, <3>1 DEF TypeOK
    <3>5. QED
      BY <1>0, <3>2, <3>3, <3>4 DEF Old
  <2>3. CASE ~Publish /\ ~Withdraw
    <3>1. UNCHANGED <<file, token>>
      BY <2>3, FileSteps
    <3>2. rolled' => rolled \/ ~Published
      BY <1>0, <2>3, RolledSteps DEF PhaseOK, Early
    <3>3. Old(file[p])
      BY <1>0, <1>2, <3>1, <3>2 DEF AgeOK, Published
    <3>4. QED
      BY <1>0, <3>1, <3>3 DEF Old
  <2>4. QED
    BY <2>1, <2>2, <2>3
<1>3. QED
  BY <1>0, <1>1, <1>2 DEF AgeOK

-----------------------------------------------------------------------------
LEMMA OpenedNext ==
    ASSUME IInv, Moves, pc' \notin Ended
    PROVE  /\ Opened' => \/ Opened
                         \/ pc \in {"source", "read"} /\ base' = [base EXCEPT !["source"] = file["source"]]
           /\ call.kind # "batch" /\ pc = "snapshot" /\ pc' # "snapshot" =>
                 before' = [before EXCEPT !["source"] = file["source"]]
<1>0. call.kind \in Kinds /\ PhaseOK /\ UNCHANGED call
  BY Parts, Inside DEF IInv, InCall
<1>1. CASE Executes
  BY <1>0, <1>1 DEF Executes, Lookup, ReadInput, Open, AssertSource, Reserve, Cas, Recheck, ReadBack,
     Store, Unsure, Rollback, State, Validate, Settles, Settled, Answers, outcome, Goes, Opened
<1>2. CASE Adapts
  BY <1>0, <1>2 DEF Adapts, Snapshot, Capture, ReadSource, Execute, Look, Final, Watch, Clean,
     Undo, Verdict, Except, Settle, Answer, Judge, Loses, Withdraws, Answers, outcome, Goes,
     PhaseOK, Executing, Core, Kinds, Ended, Opened
<1>3. CASE Fault \/ StateFails
  BY <1>0, <1>3 DEF Fault, StateFails, Fails, Settles, Settled, Answers, Withdraws, outcome, Goes, Opened, Ended
<1>4. QED
  BY <1>1, <1>2, <1>3 DEF Moves

LEMMA StartNext ==
    ASSUME IInv, Moves, pc' \in {"snapshot", "precondition"}
    PROVE  pc = "snapshot"
<1>0. call.kind \in Kinds
  BY Parts DEF IInv
<1>1. CASE Executes
  BY <1>0, <1>1 DEF Executes, Lookup, ReadInput, Open, AssertSource, Reserve, Cas, Recheck, ReadBack,
     Store, Unsure, Rollback, State, Validate, Settles, Settled, Answers, outcome, Goes
<1>2. CASE Adapts
  BY <1>0, <1>2 DEF Adapts, Snapshot, Capture, ReadSource, Execute, Look, Final, Watch, Clean,
     Undo, Verdict, Except, Settle, Answer, Judge, Loses, Withdraws, Answers, outcome, Goes
<1>3. CASE Fault \/ StateFails
  BY <1>0, <1>3 DEF Fault, StateFails, Fails, Settles, Settled, Answers, Withdraws, outcome, Goes
<1>4. QED
  BY <1>1, <1>2, <1>3 DEF Moves

LEMMA MovesOpen ==
    ASSUME IInv, Moves, pc' \notin Ended
    PROVE  OpenOK'
<1>0. /\ TypeOK /\ FilesOK /\ OpenOK /\ PhaseOK /\ n > 0
      /\ UNCHANGED <<n, written, call>>
  BY Inside DEF IInv, InCall, PhaseOK
<1>1. base["source"] # Absent => base'["source"] # Absent
  BY <1>0, Captured, Parts DEF FilesOK
<1>2. before["source"] # Absent => before'["source"] # Absent
  BY <1>0, Captured, Parts DEF FilesOK
<1>3. Opened' \/ Published' => base'["source"] # Absent
  BY <1>0, <1>1, OpenedNext, PublishedSteps, Publishing, Parts DEF OpenOK, FilesOK, TypeOK
<1>4. call.kind # "batch" /\ pc' # "snapshot" => before'["source"] # Absent
  BY <1>0, <1>2, OpenedNext, Parts DEF OpenOK, FilesOK, TypeOK
<1>5. Published' => token' = Candidate'
  <2>1. CASE Published
    BY <1>0, <2>1, PublishedSteps, SnapshotsStay DEF OpenOK, Candidate, Edited
  <2>2. CASE Publish
    BY <1>0, <2>2, SnapshotsStay DEF Publish, Candidate, Edited
  <2>3. QED
    BY <2>1, <2>2, PublishedSteps
<1>6. pc' \in {"snapshot", "precondition"} => base'["source"] = Absent
  BY <1>0, EarlyNext, ReadSteps, StartNext DEF Reads, snapshots, OpenOK
<1>7. pc' \in Early => seen'["source"] = Absent
  BY <1>0, EarlyNext, ReadSteps DEF Reads, snapshots, OpenOK, Early
<1>8. QED
  BY <1>0, <1>3, <1>4, <1>5, <1>6, <1>7 DEF OpenOK

-----------------------------------------------------------------------------
LEMMA ComparedNext ==
    ASSUME IInv, Moves, call.kind = "form", pc' \in Compared
    PROVE  \/ pc \in Compared
           \/ pc = "output" /\ base' = [base EXCEPT ![Target] = file[Target]] /\ UNCHANGED before
<1>0. PhaseOK
  BY Inside DEF IInv, InCall
<1>1. CASE Executes
  BY <1>0, <1>1 DEF Executes, Lookup, ReadInput, Open, AssertSource, Reserve, Cas, Recheck, ReadBack,
     Store, Unsure, Rollback, State, Validate, Settles, Settled, Answers, outcome, Goes, Compared
<1>2. CASE Adapts
  BY <1>0, <1>2 DEF Adapts, Snapshot, Capture, ReadSource, Execute, Look, Final, Watch, Clean,
     Undo, Verdict, Except, Settle, Answer, Judge, Loses, Withdraws, Answers, outcome, Goes,
     PhaseOK, Executing, Adapter, Core, Compared, Ended
<1>3. CASE Fault \/ StateFails
  BY <1>0, <1>3 DEF Fault, StateFails, Fails, Settles, Settled, Answers, Withdraws, outcome, Goes, Compared
<1>4. QED
  BY <1>1, <1>2, <1>3 DEF Moves

LEMMA MovesKept ==
    ASSUME IInv, Moves, pc' \notin Ended
    PROVE  KeptOK'
<1>0. /\ TypeOK /\ KeptOK /\ PhaseOK /\ pc \notin Ended
      /\ UNCHANGED <<n, written, call, touched>> /\ Target' = Target
  BY Inside DEF IInv, InCall, PhaseOK, Target
<1>1. ASSUME NEW p \in Paths \ touched, p # Target \/ ~Published'
      PROVE  /\ before'[p] # Absent => file'[p] = before'[p]
             /\ base'[p] # Absent => file'[p] = base'[p]
  <2>1. file'[p] = file[p] /\ (p # Target \/ ~Published)
    <3>1. Publish \/ Withdraw => p # Target
      BY <1>1, PublishedSteps, Withdrawing
    <3>2. file'[p] = file[p]
      BY <1>0, <3>1, FileSteps DEF Publish, Withdraw, TypeOK
    <3>3. QED
      BY <1>1, <3>2, PublishedSteps
  <2>2. CASE before'[p] # before[p] \/ base'[p] # base[p]
    <3>1. /\ before[p] # Absent => file[p] = before[p]
          /\ base[p] # Absent => file[p] = base[p]
      BY <1>0, <2>1 DEF KeptOK
    <3>2. before'[p] \in {before[p], file[p]} /\ base'[p] \in {base[p], file[p]}
      BY <2>2, Captured
    <3>3. QED
      BY <2>1, <3>1, <3>2
  <2>3. CASE before'[p] = before[p] /\ base'[p] = base[p]
    BY <1>0, <2>1, <2>3 DEF KeptOK
  <2>4. QED
    BY <2>2, <2>3
<1>2. ASSUME call.kind = "form", Target \notin touched, before'[Target] # Absent, pc' \in Compared
      PROVE  base'[Target] = before'[Target]
  <2>1. CASE pc \in Compared
    <3>1. UNCHANGED <<before, base>>
      BY <1>0, <2>1, ReadSteps DEF Reads, snapshots, Compared
    <3>2. QED
      BY <1>0, <1>2, <2>1, <3>1 DEF KeptOK, Compared
  <2>2. CASE pc = "output" /\ base' = [base EXCEPT ![Target] = file[Target]] /\ UNCHANGED before
    <3>1. file[Target] = before[Target]
      BY <1>0, <1>2, <2>2, Parts DEF KeptOK, PhaseOK, Early
    <3>2. QED
      BY <1>0, <2>2, <3>1, Parts DEF TypeOK
  <2>3. QED
    BY <1>2, <2>1, <2>2, ComparedNext
<1>3. QED
  BY <1>0, <1>1, <1>2 DEF KeptOK, Compared

-----------------------------------------------------------------------------
LEMMA MovesRolled ==
    ASSUME IInv, Moves, pc' \notin Ended
    PROVE  RolledOK'
<1>0. /\ TypeOK /\ KeptOK /\ PhaseOK /\ RolledOK /\ AgeOK /\ pc \notin Ended
      /\ UNCHANGED <<n, written, call, touched>> /\ Target' = Target
  BY Inside DEF IInv, InCall, PhaseOK, Target
<1>1. SUFFICES ASSUME rolled', Target \notin touched
               PROVE  Found'[Target] = Absent \/ Content(file'[Target]) = Found'[Target].val
  BY <1>0 DEF RolledOK
<1>2. CASE ~Published'
  <2>1. /\ before'[Target] # Absent => file'[Target] = before'[Target]
        /\ base'[Target] # Absent => file'[Target] = base'[Target]
    BY <1>0, <1>1, <1>2, MovesKept, Parts DEF KeptOK
  <2>2. Found'[Target] # Absent => file'[Target] = Found'[Target]
    BY <1>0, <2>1 DEF Found
  <2>3. QED
    BY <2>2 DEF Content
<1>3. CASE Withdraw
  <2>1. PICK e \in {base[Target], before[Target]} :
                 /\ e \in Maybe(Entries)
                 /\ file' = [file EXCEPT ![Target] = Undone(e)]
                 /\ pc = "rollback" => e = base[Target]
                 /\ pc # "rollback" => e = before[Target]
    BY <1>3, Withdrawing
  <2>2. UNCHANGED <<before, base>> /\ (pc # "rollback" => call.kind # "batch")
    BY <1>3, Withdrawing, SnapshotsStay
  <2>3. Found'[Target] # Absent => e = Found'[Target]
    <3>1. call.kind \in Kinds /\ (pc = "rollback" => call.kind # "special")
      BY <1>0, Parts DEF PhaseOK, Adapter
    <3>2. CASE pc = "rollback" /\ call.kind = "form"
      BY <1>0, <1>1, <2>1, <2>2, <3>2 DEF Found, KeptOK, Compared
    <3>3. CASE pc = "rollback" /\ call.kind = "batch"
      BY <1>0, <2>1, <2>2, <3>3 DEF Found
    <3>4. CASE pc # "rollback"
      BY <1>0, <2>1, <2>2, <3>4 DEF Found
    <3>5. QED
      BY <3>1, <3>2, <3>3, <3>4 DEF Kinds
  <2>4. file'[Target] = Undone(e)
    BY <1>0, <2>1, Parts DEF TypeOK
  <2>5. QED
    BY <1>0, <2>1, <2>3, <2>4, UndoneIs DEF Content
<1>4. CASE Published' /\ ~Withdraw
  <2>1. Published \/ Publish
    BY <1>4, PublishedSteps
  <2>2. rolled
    BY <1>0, <1>1, <1>4, <2>1, RolledSteps DEF PhaseOK, Early, Publish, Withdraw
  <2>3. ~Publish
    BY <2>2, Publishing
  <2>4. UNCHANGED <<file, before, base>>
    BY <1>4, <2>1, <2>3, FileSteps, SnapshotsStay
  <2>5. QED
    BY <1>0, <1>1, <2>2, <2>4 DEF RolledOK, Found
<1>5. QED
  BY <1>2, <1>3, <1>4

-----------------------------------------------------------------------------
\* A call that recorded its key goes on, or gives the key up.
LEMMA KeyMoves ==
    ASSUME IInv, Moves, pc' \notin Ended, call.kind = "form", result = "ok", pc \in Looking \cup {"except"}
    PROVE  \/ store' = [store EXCEPT !["form"] = Absent]
           \/ result' = "ok" /\ (pc' \in Looking \/ (pc' = "except" /\ trouble' > 0))
<1>0. trouble \in Nat
  BY Parts DEF IInv
<1>1. CASE Executes
  BY <1>1 DEF Executes, Lookup, ReadInput, Open, AssertSource, Reserve, Cas, Recheck, ReadBack,
     Store, Unsure, Rollback, State, Validate, Looking
<1>2. CASE Adapts
  <2>1. CASE Look \/ Final \/ Clean
    BY <2>1 DEF Look, Final, Watch, Clean, outcome, Goes, Looking
  <2>2. CASE Settle \/ Answer
    BY <2>2 DEF Settle, Answer, Loses, Withdraws, Forget, Answers, outcome, Goes, Looking, Ended
  <2>3. CASE \E gate \in BOOLEAN : Judge(gate)
    BY <2>3 DEF Judge, Withdraws, Forget, outcome, Goes, Looking
  <2>4. CASE Except
    BY <2>4 DEF Except, Answers, Goes, Ended
  <2>5. CASE Snapshot \/ ReadSource \/ Execute \/ Undo \/ Verdict
    BY <2>5 DEF Snapshot, Capture, ReadSource, Execute, Undo, Verdict, Looking
  <2>6. QED
    BY <1>2, <2>1, <2>2, <2>3, <2>4, <2>5 DEF Adapts
<1>3. CASE Fault \/ StateFails
  <2>1. trouble' = trouble + 1
    BY <1>3 DEF Fault, StateFails, Fails
  <2>2. trouble' > 0
    BY <1>0, <2>1
  <2>3. QED
    BY <1>3, <2>2 DEF Fault, StateFails, Fails, Settles, Answers, Withdraws, Forget, outcome, Goes, Looking, Ended
<1>4. QED
  BY <1>1, <1>2, <1>3 DEF Moves

LEMMA StateEnds ==
    ASSUME IInv, Moves, pc = "state"
    PROVE  pc' \in Ended
<1>1. CASE Executes
  BY <1>1 DEF Executes, Lookup, ReadInput, Open, AssertSource, Reserve, Cas, Recheck, ReadBack,
     Store, Unsure, Rollback, State, Validate, Answers, Goes, Ended
<1>2. CASE Adapts
  BY <1>2 DEF Adapts, Snapshot, Capture, ReadSource, Execute, Look, Final, Watch, Clean,
     Undo, Verdict, Except, Settle, Answer, Judge
<1>3. CASE Fault \/ StateFails
  BY <1>3 DEF Fault, StateFails, Fails, Answers, Goes, Ended
<1>4. QED
  BY <1>1, <1>2, <1>3 DEF Moves

LEMMA MovesKey ==
    ASSUME IInv, Moves, pc' \notin Ended
    PROVE  KeyOK'
<1>0. /\ TypeOK /\ KeyOK /\ PhaseOK /\ pc \notin Ended
      /\ UNCHANGED <<n, call>> /\ call.kind \in Kinds
  BY Inside, Parts DEF IInv, InCall, PhaseOK
<1>1. SUFFICES ASSUME NEW k \in Kinds, store'[k] # Absent, store'[k].by = n
               PROVE  /\ k = call.kind
                      /\ result' = "ok"
                      /\ \/ k = "batch" /\ pc' = "state"
                         \/ k = "form" /\ pc' \in Looking
                         \/ k = "form" /\ pc' = "except" /\ trouble' > 0
  BY <1>0 DEF KeyOK
<1>2. CASE Store
  <2>1. k = call.kind
    BY <1>0, <1>1, <1>2 DEF Store, KeyOK, TypeOK
  <2>2. k # "special"
    BY <1>0, <1>2, <2>1 DEF Store, PhaseOK, Adapter
  <2>3. result' = "ok" /\ pc' = IF call.kind = "form" THEN "look" ELSE "state"
    BY <1>2 DEF Store, Settles, Settled, Goes
  <2>4. QED
    BY <1>0, <2>1, <2>2, <2>3 DEF Kinds, Looking
<1>3. CASE ~Store
  <2>1. store'[k] = store[k] /\ ~(k = "form" /\ store' = [store EXCEPT !["form"] = Absent])
    BY <1>0, <1>1, <1>3, StoreSteps DEF TypeOK
  <2>2. /\ k = call.kind
        /\ result = "ok"
        /\ \/ k = "batch" /\ pc = "state"
           \/ k = "form" /\ pc \in Looking
           \/ k = "form" /\ pc = "except" /\ trouble > 0
    BY <1>0, <1>1, <2>1 DEF KeyOK
  <2>3. QED
    BY <2>1, <2>2, KeyMoves, StateEnds
<1>4. QED
  BY <1>2, <1>3

LEMMA ExceptEnds ==
    ASSUME Moves, pc = "except"
    PROVE  pc' \in Ended
<1>1. CASE Executes
  BY <1>1 DEF Executes, Lookup, ReadInput, Open, AssertSource, Reserve, Cas, Recheck, ReadBack,
     Store, Unsure, Rollback, State, Validate
<1>2. CASE Adapts
  BY <1>2 DEF Adapts, Snapshot, Capture, ReadSource, Execute, Look, Final, Watch, Clean,
     Undo, Verdict, Except, Settle, Answer, Judge, Answers, Goes, Ended
<1>3. CASE Fault \/ StateFails
  BY <1>3 DEF Fault, StateFails, Fails, Answers, Goes, Ended
<1>4. QED
  BY <1>1, <1>2, <1>3 DEF Moves

\* The executor goes to its record by way of a publication, or of a dry run.
LEMMA PlacedNext ==
    ASSUME Moves, pc' \in Placed
    PROVE  \/ Publish
           \/ pc \in Placed /\ UNCHANGED <<file, token>>
           \/ pc = "publish" /\ call.dry /\ pc' = "store" /\ UNCHANGED <<file, token>>
<1>1. CASE Executes
  BY <1>1 DEF Executes, Lookup, ReadInput, Open, AssertSource, Reserve, Cas, Recheck, ReadBack, Publish, Publishes,
     Store, Unsure, Rollback, State, Validate, Settles, Settled, Answers, outcome, Goes, Placed
<1>2. CASE Adapts
  BY <1>2 DEF Adapts, Snapshot, Capture, ReadSource, Execute, Look, Final, Watch, Clean,
     Undo, Verdict, Except, Settle, Answer, Judge, Loses, Withdraws, Answers, outcome, Goes, Placed
<1>3. CASE Fault \/ StateFails
  BY <1>3 DEF Fault, StateFails, Fails, Settles, Settled, Answers, Withdraws, outcome, Goes, Placed
<1>4. QED
  BY <1>1, <1>2, <1>3 DEF Moves

LEMMA MovesPlaced ==
    ASSUME IInv, Moves, pc' \notin Ended
    PROVE  PlacedOK'
<1>0. /\ TypeOK /\ KeyOK /\ PlacedOK /\ PhaseOK /\ pc \notin Ended
      /\ UNCHANGED <<n, call, touched>> /\ Target' = Target /\ Target \in Paths
  BY Inside, Parts DEF IInv, InCall, PhaseOK, Target
<1>1. Kept' => Kept \/ pc = "store"
  BY <1>0, StoreSteps DEF Kept, TypeOK
<1>2. Kept => pc \notin {"rollback", "undo"}
  BY <1>0 DEF Kept, KeyOK, Looking
<1>3. CASE Publish
  <2>1. Published' /\ file'[Target] = token'
    BY <1>0, <1>3, PublishedSteps DEF Publish, TypeOK
  <2>2. QED
    BY <1>0, <2>1 DEF PlacedOK
<1>4. CASE Withdraw
  <2>1. pc # "except"
    BY <1>4, ExceptEnds
  <2>2. pc \in {"rollback", "undo"}
    BY <1>4, <2>1 DEF Withdraw
  <2>3. pc' \notin Placed
    BY <2>2, PlacedNext DEF Publish, Placed
  <2>4. ~Kept'
    BY <1>1, <1>2, <2>2
  <2>5. QED
    BY <2>3, <2>4 DEF PlacedOK, Placed
<1>5. CASE ~Publish /\ UNCHANGED <<file, token>>
  <2>1. pc' \in Placed => pc \in Placed \/ (call.dry /\ pc' = "store")
    BY <1>5, PlacedNext
  <2>2. Published' = Published /\ (call.dry => ~Published)
    BY <1>0, <1>5 DEF Published, PhaseOK
  <2>3. pc' = "store" => call.dry \/ pc \in Placed
    BY <2>1 DEF Placed
  <2>4. pc' = "store" \/ Kept' => call.dry \/ Published
    BY <1>0, <1>1, <2>3 DEF PlacedOK, PhaseOK, Placed
  <2>5. pc' \in Placed \/ Kept' => (Published /\ Target \notin touched => file[Target] = token)
    BY <1>0, <1>1, <2>1, <2>2 DEF PlacedOK, Placed
  <2>6. QED
    BY <1>0, <1>5, <2>2, <2>4, <2>5 DEF PlacedOK
<1>6. QED
  BY <1>3, <1>4, <1>5, FileSteps

-----------------------------------------------------------------------------
\* Where the sidecar is written and dropped.
LEMMA SideMoves ==
    ASSUME IInv, Moves, call.kind # "batch", ~call.dry, pc' \notin Ended
    PROVE  /\ \/ recov \subseteq recov'
              \/ pc = "clean" /\ pc' = "again"
           /\ pc \in {"again", "answer"} =>
                 Mine \subseteq recov' \/ pc' = "answer" \/ (pc' = "except" /\ trouble' > 0)
           /\ pc # "except"
           /\ pc' \in {"cas", "read", "execute"} =>
                 /\ Mine \subseteq recov' \/ pc \in {"cas", "read", "execute"}
                 /\ UNCHANGED <<before, token>>
<1>0. trouble \in Nat /\ PhaseOK
  BY Parts, Inside DEF IInv, InCall
<1>1. CASE Executes
  BY <1>0, <1>1 DEF Executes, Lookup, ReadInput, Open, AssertSource, Reserve, Cas, Recheck, ReadBack,
     Store, Unsure, Rollback, State, Validate, Settles, Settled, Answers, outcome, Goes, snapshots
<1>2. CASE Adapts
  BY <1>0, <1>2 DEF Adapts, Snapshot, Capture, ReadSource, Execute, Look, Final, Watch, Clean,
     Undo, Verdict, Except, Settle, Answer, Judge, Loses, Withdraws, Answers, outcome, Goes, Ended, snapshots
<1>3. CASE Fault \/ StateFails
  <2>1. trouble' = trouble + 1
    BY <1>3 DEF Fault, StateFails, Fails
  <2>2. trouble' > 0
    BY <1>0, <2>1
  <2>3. QED
    BY <1>0, <1>3, <2>2 DEF Fault, StateFails, Fails, Settles, Settled, Answers, Withdraws, outcome, Goes, Ended
<1>4. QED
  BY <1>1, <1>2, <1>3 DEF Moves

LEMMA MovesSide ==
    ASSUME IInv, Moves, pc' \notin Ended
    PROVE  SideOK'
<1>0. /\ TypeOK /\ SideOK /\ PhaseOK /\ pc \notin Ended
      /\ UNCHANGED <<n, call>> /\ Target' = Target
  BY Inside, Parts DEF IInv, InCall, PhaseOK, Target
<1>1. SUFFICES ASSUME call.kind # "batch", ~call.dry, Published' \/ pc' \in {"cas", "read", "execute"}
               PROVE  \/ Mine' \subseteq recov'
                      \/ pc' \in {"again", "answer"}
                      \/ pc' = "except" /\ trouble' > 0
  BY <1>0 DEF SideOK
<1>2. Mine' = Mine
  <2>1. before' = before
    BY <1>1, PublishedSteps, SnapshotsStay, SideMoves
  <2>2. QED
    BY <1>0, <2>1 DEF Mine
<1>3. Published \/ pc \in {"cas", "read", "execute"} \/ Mine \subseteq recov'
  BY <1>1, PublishedSteps, SideMoves DEF Publish
<1>4. QED
  BY <1>0, <1>1, <1>2, <1>3, SideMoves DEF SideOK

-----------------------------------------------------------------------------
LEMMA MovesSource ==
    ASSUME IInv, Moves, pc' \notin Ended
    PROVE  SourceOK'
<1>0. /\ TypeOK /\ SourceOK /\ PhaseOK /\ OpenOK /\ pc \notin Ended
      /\ UNCHANGED <<n, call>> /\ Target' = Target /\ "source" \in Paths
  BY Inside, Parts DEF IInv, InCall, PhaseOK, Target
<1>1. SUFFICES ASSUME call.kind # "batch", base'["source"] # Absent, base'["source"] # before'["source"]
               PROVE  /\ ~(InPlace /\ Published')
                      /\ file'["source"] # before'["source"]
                      /\ seen'["source"] # before'["source"]
  BY <1>0 DEF SourceOK, InPlace
<1>2. CASE base'["source"] = base["source"] /\ before'["source"] = before["source"]
  <2>1. ~(InPlace /\ Published) /\ file["source"] # before["source"] /\ seen["source"] # before["source"]
    BY <1>0, <1>1, <1>2 DEF SourceOK
  <2>2. ~(InPlace /\ Publish)
    <3>1. Publish => pc # "cas" \/ call.kind = "form"
      BY <1>0, <1>1, Parts DEF Publish, PhaseOK, Adapter, Kinds
    <3>2. QED
      BY <1>0, <2>1, <3>1 DEF Publish, InPlace, PhaseOK
  <2>3. ~(InPlace /\ Published')
    BY <2>1, <2>2, PublishedSteps
  <2>4. file'["source"] = file["source"]
    BY <1>0, <2>1, <2>2, FileSteps, Withdrawing DEF Publish, Withdraw, InPlace, TypeOK
  <2>5. seen'["source"] \in {seen["source"], file["source"]}
    BY <1>0, ReadSteps DEF Reads, TypeOK, snapshots
  <2>6. QED
    BY <1>2, <2>1, <2>3, <2>4, <2>5
<1>3. CASE base'["source"] # base["source"] \/ before'["source"] # before["source"]
  <2>1. PICK p \in Paths : Reads(p) /\ UNCHANGED file
    BY <1>0, <1>3, ReadSteps DEF snapshots
  <2>2. ~Published /\ ~Published'
    BY <1>0, <1>3, Captured, PublishedSteps
  <2>3. pc \in {"source", "output", "read"}
    BY <1>0, <1>1, <1>3, <2>1 DEF Reads, OpenOK
  <2>4. base'["source"] = file["source"] /\ UNCHANGED <<before, seen>>
    BY <1>0, <1>3, <2>1, <2>3 DEF Reads, TypeOK
  <2>5. seen["source"] = Absent /\ before["source"] # Absent
    BY <1>0, <1>1, <2>3 DEF OpenOK, Early
  <2>6. QED
    BY <1>1, <2>1, <2>2, <2>4, <2>5
<1>4. QED
  BY <1>2, <1>3

-----------------------------------------------------------------------------
\* A batch comes this far by its own steps alone.
LEMMA BatchMoves ==
    ASSUME IInv, Moves, call.kind = "batch",
           \/ pc' \in {"reserve", "cas", "recheck", "readback", "store"}
           \/ pc' = "state" /\ result' = "ok"
    PROVE  AssertSource \/ Reserve \/ Cas \/ Recheck \/ ReadBack \/ Store
<1>0. PhaseOK
  BY Inside DEF IInv, InCall
<1>1. CASE Executes
  BY <1>1 DEF Executes, Lookup, ReadInput, Open, Unsure, Rollback, State, Validate, Settles, Settled,
     Answers, outcome, Goes
<1>2. CASE Adapts
  <2>1. CASE ReadSource \/ Execute
    BY <1>0, <2>1 DEF PhaseOK, Executing, Core, ReadSource, Execute, Ended
  <2>2. CASE ~(ReadSource \/ Execute)
    BY <1>0, <1>2, <2>2 DEF Adapts, Snapshot, Capture, Look, Final, Watch, Clean,
       Undo, Verdict, Except, Settle, Answer, Judge, PhaseOK, Executing, Core, Ended
  <2>3. QED
    BY <2>1, <2>2
<1>3. CASE Fault \/ StateFails
  BY <1>0, <1>3 DEF Fault, StateFails, Fails, Settles, Settled, Answers, Withdraws, outcome, Goes, PhaseOK,
     Executing, Core, Ended
<1>4. QED
  BY <1>1, <1>2, <1>3 DEF Moves

LEMMA MovesBatch ==
    ASSUME IInv, Moves, pc' \notin Ended
    PROVE  BatchOK'
<1>0. /\ TypeOK /\ PhaseOK /\ OpenOK /\ pc \notin Ended
      /\ UNCHANGED <<n, call>> /\ Target' = Target /\ "source" \in Paths /\ Target \in Paths
  BY Inside, Parts DEF IInv, InCall, PhaseOK, Target
<1>1. SUFFICES ASSUME call.kind = "batch",
                      \/ pc' \in {"reserve", "cas", "recheck", "readback", "store"}
                      \/ pc' = "state" /\ result' = "ok"
               PROVE  /\ "source" \notin unseen' /\ (~InPlace \/ ~Published') => file'["source"] = base'["source"]
                      /\ Published' /\ Target \notin unseen' /\ pc' \notin {"reserve", "cas"} => file'[Target] = token'
  BY <1>0 DEF BatchOK, InPlace, Published
<1>2. BatchOK
  BY <1>0 DEF IInv, InCall
<1>3. CASE AssertSource
  BY <1>0, <1>1, <1>3 DEF AssertSource, Looks, Settles, Settled, Goes, snapshots, outcome, PhaseOK, Early, Published
<1>4. CASE Reserve
  BY <1>0, <1>1, <1>2, <1>4 DEF Reserve, Blind, Goes, snapshots, outcome, others, BatchOK, Published
<1>5. CASE Cas
  <2>1. /\ pc = "cas" /\ ~Published /\ UNCHANGED snapshots
        /\ \/ /\ file' = [file EXCEPT ![Target] = Candidate] /\ token' = Candidate
              /\ unseen' = unseen \ {Target}
           \/ pc' = "unsure"
    BY <1>0, <1>5 DEF Cas, Publishes, Goes, PhaseOK, Early
  <2>2. file' = [file EXCEPT ![Target] = Candidate] /\ token' = Candidate /\ unseen' = unseen \ {Target}
    BY <1>1, <2>1
  <2>3. Candidate # Absent
    BY <1>0, <2>1, CandidateIs DEF OpenOK, Opened, PhaseOK
  <2>4. file'[Target] = token' /\ Published'
    BY <1>0, <2>2, <2>3 DEF TypeOK, Published
  <2>5. Target # "source" => file'["source"] = file["source"]
    BY <1>0, <2>2 DEF TypeOK
  <2>6. QED
    BY <1>1, <1>2, <2>1, <2>2, <2>4, <2>5 DEF BatchOK, InPlace, snapshots
<1>6. CASE Recheck
  BY <1>0, <1>1, <1>2, <1>6 DEF Recheck, Looks, Blind, Goes, snapshots, outcome, others, BatchOK, Published, InPlace
<1>7. CASE ReadBack
  BY <1>0, <1>1, <1>2, <1>7 DEF ReadBack, Looks, Goes, snapshots, outcome, BatchOK, PhaseOK, Published, InPlace
<1>8. CASE Store
  BY <1>0, <1>1, <1>2, <1>8 DEF Store, Settles, Blind, Goes, snapshots, others, BatchOK, Published, InPlace
<1>9. QED
  BY <1>1, <1>3, <1>4, <1>5, <1>6, <1>7, <1>8, BatchMoves

-----------------------------------------------------------------------------
\* The last looks are the adapter's own steps.
LEMMA LookMoves ==
    ASSUME IInv, Moves
    PROVE  /\ pc' \in {"settle", "answer"} => Final
           /\ pc' \in {"final", "settle", "clean", "again", "answer"} =>
                 Final \/ Settle \/ Clean \/ \E gate \in BOOLEAN : Judge(gate)
<1>0. call.kind \in Kinds
  BY Parts DEF IInv
<1>1. CASE Executes
  BY <1>0, <1>1 DEF Executes, Lookup, ReadInput, Open, AssertSource, Reserve, Cas, Recheck, ReadBack,
     Store, Unsure, Rollback, State, Validate, Settles, Settled, Answers, outcome, Goes
<1>2. CASE Adapts
  BY <1>0, <1>2 DEF Adapts, Snapshot, Capture, ReadSource, Execute, Look, Watch, Clean,
     Undo, Verdict, Except, Settle, Answer, Judge, Loses, Withdraws, Answers, outcome, Goes
<1>3. CASE Fault \/ StateFails
  BY <1>0, <1>3 DEF Fault, StateFails, Fails, Settles, Settled, Answers, Withdraws, outcome, Goes
<1>4. QED
  BY <1>1, <1>2, <1>3 DEF Moves

LEMMA MovesLook ==
    ASSUME IInv, Moves, pc' \notin Ended
    PROVE  LookOK'
<1>0. /\ TypeOK /\ PhaseOK /\ LookOK /\ pc \notin Ended
      /\ UNCHANGED <<n, call>> /\ Target' = Target /\ "source" \in Paths /\ Target \in Paths
  BY Inside, Parts DEF IInv, InCall, PhaseOK, Target
<1>1. pc' \in {"settle", "answer"} => seen'["source"] = file'["source"]
  BY <1>0, LookMoves DEF Final, Watch, Observes, TypeOK
<1>2. ASSUME call.kind = "form", result' = "replay", ~call.dry,
             pc' \in {"final", "settle", "clean", "again", "answer"}
      PROVE  Content(seen'[Target]) = store'["form"].claim
  <2>0. Target = "output"
    BY <1>0, <1>2 DEF PhaseOK, InPlace, Paths
  <2>1. CASE Final
    BY <1>0, <1>2, <2>0, <2>1 DEF Final, Watch, Observes, outcome, Goes, LookOK, TypeOK
  <2>2. CASE Clean
    BY <1>0, <1>2, <2>2 DEF Clean, outcome, snapshots, Goes, LookOK
  <2>3. CASE Settle
    <3>1. pc = "settle" /\ UNCHANGED <<store, result>> /\ OutputStands
      BY <1>2, <2>3 DEF Settle, Loses, Withdraws, Answers, outcome, Goes
    <3>2. seen'[Target] = seen[Target]
      BY <1>0, <1>2, <3>1 DEF OutputStands, PhaseOK
    <3>3. QED
      BY <1>0, <1>2, <3>1, <3>2 DEF LookOK
  <2>4. CASE \E gate \in BOOLEAN : Judge(gate)
    BY <1>0, <1>2, <2>4 DEF Judge, Sound, Claim, Withdraws, outcome, Goes
  <2>5. QED
    BY <1>2, <2>1, <2>2, <2>3, <2>4, LookMoves
<1>3. QED
  BY <1>0, <1>1, <1>2 DEF LookOK

-----------------------------------------------------------------------------
\* A call begins with nothing.
LEMMA BeginInCall ==
    ASSUME IInv, NEW k \in Kinds, NEW r \in Requests, NEW t \in Paths, NEW d \in BOOLEAN,
           NEW e \in {Absent, Content(file["source"])}, Begin(k, r, t, d, e)
    PROVE  InCall'
<1>0. TypeOK /\ FilesOK /\ n \in Nat /\ MaxCalls \in Nat
  BY Parts, BatchAssumption DEF IInv
<1>1. /\ n' = n + 1 /\ n' > 0
      /\ call'.kind = k /\ call'.target = t /\ call'.dry = d /\ (k = "form" => t = "output")
      /\ pc' = IF k = "batch" THEN "lookup" ELSE "snapshot"
      /\ before' = Nothing /\ base' = Nothing /\ seen' = Nothing
      /\ token' = Absent /\ result' = "none" /\ rolled' = FALSE
      /\ UNCHANGED <<file, store, recov, written>>
  BY <1>0 DEF Begin, Goes
<1>2. \A p \in Paths : before'[p] = Absent /\ base'[p] = Absent /\ seen'[p] = Absent
  BY <1>1 DEF Nothing
<1>3. \A p \in Paths : Old(file[p])'
  <2>1. \A p \in Paths : file[p] # Absent => \A c \in file[p].val.by : c \in Nat /\ c <= n
    BY <1>0, Parts, Ages DEF FilesOK, Young
  <2>2. \A p \in Paths : file[p] # Absent => \A c \in file[p].val.by : c < n + 1
    BY <1>0, <2>1
  <2>3. QED
    BY <1>1, <2>2 DEF Old
<1>4. \A j \in Kinds : store'[j] # Absent => store'[j].by # n'
  <2>1. \A j \in Kinds : store[j] # Absent => store[j].by \in 1..MaxCalls /\ store[j].by <= n
    BY <1>0 DEF TypeOK, Maybe, FilesOK
  <2>2. \A j \in Kinds : store[j] # Absent => store[j].by # n + 1
    BY <1>0, <2>1
  <2>3. QED
    BY <1>1, <2>2
<1>5. ~Published' /\ Target' = t /\ t \in Paths /\ "source" \in Paths
  BY <1>1 DEF Published, Target, Paths
<1>6. PhaseOK'
  BY <1>1, <1>5 DEF PhaseOK, Executing, Core, Adapter, InPlace
<1>7. AgeOK'
  BY <1>2, <1>3 DEF AgeOK, Old, Known
<1>8. OpenOK' /\ KeptOK' /\ SourceOK'
  BY <1>1, <1>2, <1>5 DEF OpenOK, Opened, KeptOK, SourceOK
<1>9. RolledOK' /\ KeyOK' /\ PlacedOK' /\ SideOK' /\ BatchOK' /\ LookOK'
  BY <1>1, <1>4, <1>5 DEF RolledOK, KeyOK, PlacedOK, Placed, Kept, SideOK, BatchOK, LookOK
<1>10. QED
  BY <1>6, <1>7, <1>8, <1>9 DEF InCall

\* An external write during a call is one it has not seen, and is new.
LEMMA ExternalInCall ==
    ASSUME IInv, NEW v \in Foreign, NEW p \in Paths, NEW same \in BOOLEAN, External(v, p, same), pc \notin Ended
    PROVE  InCall'
<1>0. TypeOK /\ FilesOK /\ InCall /\ trouble \in Nat /\ "source" \in Paths /\ Target \in Paths
  BY Parts DEF IInv
<1>1. /\ v \notin written /\ written' = written \cup {v} /\ trouble' = trouble + 1 /\ trouble' > 0
      /\ touched' = touched \cup {p} /\ unseen' = unseen \cup {p}
      /\ UNCHANGED <<store, recov, n, call, pc, snapshots, outcome>>
  BY <1>0 DEF External
<1>2. PICK w \in Values : /\ Entry(w, v) \in Entries
                          /\ file' = [file EXCEPT ![p] = Entry(w, v)]
                          /\ w.by = {} \/ (file[p] # Absent /\ w = file[p].val)
  BY <1>0, ExternalIs
<1>3. \A q \in Paths : file'[q] = IF q = p THEN Entry(w, v) ELSE file[q]
  BY <1>0, <1>2 DEF TypeOK
<1>4. Entry(w, v).val = w /\ Entry(w, v).id = v /\ Entry(w, v) # Absent
  BY <1>2, EntryParts
<1>5. UNCHANGED <<before, base, seen, token, result, rolled, reply>> /\ Target' = Target
  BY <1>1 DEF snapshots, outcome, Target
<1>6. PhaseOK' /\ OpenOK'
  BY <1>0, <1>1, <1>5 DEF InCall, PhaseOK, OpenOK, Opened, InPlace, Published, Candidate, Edited
<1>7. AgeOK'
  <2>1. \A q \in Paths : Old(file[q]) => Old(file[q])'
    BY <1>1, <1>2, <1>3, <1>4 DEF Old
  <2>2. QED
    BY <1>0, <1>1, <1>5, <2>1 DEF InCall, AgeOK, Old, Known, Published
<1>8. KeptOK'
  BY <1>0, <1>1, <1>3, <1>5 DEF InCall, KeptOK, Published
<1>9. RolledOK'
  BY <1>0, <1>1, <1>3, <1>5 DEF InCall, RolledOK, Found
<1>10. KeyOK' /\ SideOK'
  BY <1>0, <1>1, <1>5 DEF InCall, KeyOK, SideOK, Mine, Published
<1>11. SourceOK'
  <2>1. SUFFICES ASSUME call.kind # "batch", base["source"] # Absent, base["source"] # before["source"]
                 PROVE  /\ ~(InPlace /\ Published)
                        /\ file'["source"] # before["source"]
                        /\ seen["source"] # before["source"]
    BY <1>1, <1>5 DEF SourceOK, InPlace, Published
  <2>2. before["source"] # Absent /\ before["source"].id \in (0..MaxCalls) \cup written
    BY <1>0, <2>1 DEF InCall, OpenOK, AgeOK, Known
  <2>3. v \notin (0..MaxCalls) \cup written
    BY <1>1, BatchAssumption
  <2>4. QED
    BY <1>0, <1>3, <1>4, <2>1, <2>2, <2>3 DEF InCall, SourceOK
<1>12. PlacedOK'
  BY <1>0, <1>1, <1>3, <1>5 DEF InCall, PlacedOK, Placed, Kept, Published
<1>13. BatchOK' /\ LookOK'
  BY <1>0, <1>1, <1>3, <1>5 DEF InCall, BatchOK, LookOK, InPlace, Published
<1>14. QED
  BY <1>6, <1>7, <1>8, <1>9, <1>10, <1>11, <1>12, <1>13 DEF InCall

LEMMA NextInv == IInv /\ [Next]_vars => IInv'
<1>1. SUFFICES ASSUME IInv, [Next]_vars, pc' \notin Ended
               PROVE  InCall'
  BY NextTyped, NextFiles DEF IInv
<1>2. CASE UNCHANGED vars
  BY <1>1, <1>2 DEF vars, snapshots, outcome, others, IInv, InCall, PhaseOK, AgeOK, OpenOK, Opened, KeptOK,
     RolledOK, KeyOK, PlacedOK, Placed, Kept, SideOK, SourceOK, BatchOK, LookOK, Old, Known, InPlace, Target, Published,
     Candidate, Edited, Found, Mine
<1>3. CASE Moves
  BY <1>1, <1>3, PhaseNext, MovesAge, MovesOpen, MovesKept, MovesRolled, MovesKey, MovesPlaced, MovesSide,
     MovesSource, MovesBatch, MovesLook DEF InCall
<1>4. ASSUME NEW v \in Foreign, NEW p \in Paths, NEW same \in BOOLEAN, External(v, p, same)
      PROVE  InCall'
  BY <1>1, <1>4, ExternalInCall DEF External
<1>5. CASE Crash
  BY <1>1, <1>5 DEF Crash, Ended
<1>6. QED
  BY <1>1, <1>2, <1>3, <1>4, <1>5, Steps, BeginInCall

LEMMA InitInv == Init => IInv
<1>1. SUFFICES ASSUME Init
               PROVE  IInv
  OBVIOUS
<1>2. pc \in Ended /\ n = 0 /\ written = {} /\ MaxCalls \in Nat /\ MaxTrouble \in Nat
  BY <1>1, BatchAssumption DEF Init, Ended
<1>3. PICK there \in {{"source"}, Paths} :
         file = [p \in Paths |-> IF p \in there THEN Entry(Document(p), 0) ELSE Absent]
  BY <1>1 DEF Init
<1>4. \A p \in Paths : /\ Document(p) \in Values
                       /\ Entry(Document(p), 0) \in Entries /\ Entry(Document(p), 0) # Absent
                       /\ Entry(Document(p), 0).val.by = {} /\ Entry(Document(p), 0).id = 0
  <2>1. \A p \in Paths : Document(p) \in Values /\ Document(p).by = {}
    BY DEF Document, Values
  <2>2. 0 \in (0..MaxCalls) \cup Foreign
    BY <1>2
  <2>3. QED
    BY <2>1, <2>2, EntryParts
<1>5. file \in [Paths -> Maybe(Entries)]
  BY <1>3, <1>4 DEF Maybe
<1>6. call \in Calls
  BY <1>1 DEF Init, Calls, Kinds, Paths, Maybe
<1>7. before \in [Paths -> Maybe(Entries)] /\ base = before /\ seen = before
  BY <1>1 DEF Init, Nothing, Maybe
<1>8. store \in [Kinds -> Maybe([call : Calls, by : 1..MaxCalls, claim : Maybe(Values)])]
      /\ \A k \in Kinds : store[k] = Absent
  BY <1>1 DEF Init, Maybe
<1>9. TypeOK
  <2>1. /\ recov = {} /\ pc = "replied" /\ token = Absent /\ result = "none" /\ rolled = FALSE
        /\ reply = "none" /\ trouble = 0 /\ touched = {} /\ unseen = {}
    BY <1>1 DEF Init
  <2>2. 0 \in 0..MaxCalls /\ 0 \in 0..MaxTrouble
    BY <1>2
  <2>3. QED
    BY <1>2, <1>5, <1>6, <1>7, <1>8, <2>1, <2>2 DEF TypeOK, Ended, Maybe, Replies
<1>10. FilesOK
  BY <1>2, <1>3, <1>4, <1>8 DEF FilesOK, Young, Known, Paths
<1>11. QED
  BY <1>2, <1>9, <1>10 DEF IInv

LEMMA Invariance == Spec => []IInv
  BY InitInv, NextInv, PTL DEF Spec

-----------------------------------------------------------------------------
\* Files, records, sidecars and what a call knows are always what they are said to
\* be (apply_document_commands, _apply_canonical_mixed_form_plan_locked).
THEOREM TypeCorrect == Spec => []TypeOK
<1>1. IInv => TypeOK
  BY DEF IInv
<1>2. QED
  BY <1>1, Invariance, PTL

\* A call that ends does so by a step of its own, or dies.
LEMMA Ending ==
    ASSUME [Next]_vars, Finishes
    PROVE  /\ Moves \/ Crash
           /\ pc' = "replied" => Moves
BY Steps DEF Finishes, Begin, External, Crash, vars, Ended

\* rolledBack is answered where it is believed, by a step that writes nothing.
LEMMA RolledReply ==
    ASSUME Moves, pc' = "replied", reply' = "rolled back", pc = "state" => rolled
    PROVE  rolled /\ UNCHANGED file
<1>1. CASE Executes
  BY <1>1 DEF Executes, Lookup, ReadInput, Open, AssertSource, Reserve, Cas, Recheck, ReadBack,
     Store, Unsure, Rollback, State, Validate, Settles, Settled, Answers, outcome, Goes
<1>2. CASE Adapts
  BY <1>2 DEF Adapts, Snapshot, Capture, ReadSource, Execute, Look, Final, Watch, Clean,
     Undo, Verdict, Except, Settle, Answer, Judge, Loses, Withdraws, Answers, outcome, Goes
<1>3. CASE Fault \/ StateFails
  BY <1>3 DEF Fault, StateFails, Fails, Settles, Settled, Answers, Withdraws, outcome, Goes
<1>4. QED
  BY <1>1, <1>2, <1>3 DEF Moves

\* rolledBack is true of the files, whatever was written meanwhile: the executor's
\* word, and the adapters' where they check it or withdraw themselves
\* (BatchPublication.rollback, _finalize_canonical_apply).  It is not claimed of the
\* answer of a batch handler that cannot read the document's state: that says
\* rolledBack of whatever the executor has done (batch_error_payload).
THEOREM RolledBackHolds == Spec => RolledBackIsTrue
<1>1. ASSUME IInv, [Next]_vars, Replied, reply' = "rolled back", pc = "state" => rolled
      PROVE  Withdrawn
  <2>1. Moves
    BY <1>1, Ending DEF Replied, Finishes, Ended
  <2>2. rolled /\ file' = file
    BY <1>1, <2>1, RolledReply DEF Replied
  <2>3. Old(file[Target]) /\ RolledOK /\ TypeOK
    BY <1>1, <2>2, Parts DEF Replied, IInv, InCall, AgeOK
  <2>4. ~OfCall(file[Target])
    BY <2>3, Parts DEF Old, OfCall
  <2>5. QED
    BY <2>2, <2>3, <2>4 DEF Withdrawn, OfCall, RolledOK
<1>2. IInv /\ [Next]_vars =>
        [Replied /\ reply' = "rolled back" /\ (pc = "state" => rolled) => Withdrawn]_vars
  BY <1>1
<1>3. QED
  BY <1>2, Invariance, PTL DEF Spec, RolledBackIsTrue

-----------------------------------------------------------------------------
\* A form that recorded its key ends with ok, gives the key up, or fails twice.
LEMMA KeyEnds ==
    ASSUME Moves, pc' = "replied", call.kind = "form", result = "ok", pc \in Looking \cup {"except"}
    PROVE  \/ store' = [store EXCEPT !["form"] = Absent]
           \/ UNCHANGED <<file, token>> /\ (reply' = "ok" \/ (pc = "except" /\ trouble' = trouble + 1))
<1>1. CASE Executes
  BY <1>1 DEF Executes, Lookup, ReadInput, Open, AssertSource, Reserve, Cas, Recheck, ReadBack,
     Store, Unsure, Rollback, State, Validate, Looking
<1>2. CASE Adapts
  BY <1>2 DEF Adapts, Snapshot, Capture, ReadSource, Execute, Look, Final, Watch, Clean, Forget,
     Undo, Verdict, Except, Settle, Answer, Judge, Loses, Withdraws, Answers, outcome, Goes, Looking
<1>3. CASE Fault \/ StateFails
  BY <1>3 DEF Fault, StateFails, Fails, Settles, Settled, Answers, Withdraws, Forget, outcome, Goes, Looking
<1>4. QED
  BY <1>1, <1>2, <1>3 DEF Moves

\* A batch that recorded its key ends with ok, or with what a failed look at the
\* document's state makes of it.
LEMMA BatchEnds ==
    ASSUME Moves, pc = "state", result = "ok"
    PROVE  UNCHANGED <<file, token>> /\ (reply' = "ok" \/ trouble' = trouble + 1)
<1>1. CASE Executes
  BY <1>1 DEF Executes, Lookup, ReadInput, Open, AssertSource, Reserve, Cas, Recheck, ReadBack,
     Store, Unsure, Rollback, State, Validate, Answers
<1>2. CASE Adapts
  BY <1>2 DEF Adapts, Snapshot, Capture, ReadSource, Execute, Look, Final, Watch, Clean,
     Undo, Verdict, Except, Settle, Answer, Judge
<1>3. CASE Fault \/ StateFails
  BY <1>3 DEF Fault, StateFails, Fails, Answers
<1>4. QED
  BY <1>1, <1>2, <1>3 DEF Moves

\* A key that is recorded when the call has answered stands for a publication, or a
\* dry run, that succeeded, for batches (ScopedIdempotencyStore, the record after
\* BatchPublication.publish) and for forms (_forget_fresh_idempotency).
THEOREM KeyHolds == Spec => KeyMeansDone
<1>1. ASSUME IInv, [Next]_vars, Replied, NEW k \in Kinds, Recorded(k)
      PROVE  /\ k = call.kind /\ result = "ok"
             /\ call.dry \/ Published
             /\ Published /\ Target \notin touched => file'[Target] = token
             /\ reply' = "ok" \/ (k = "batch" /\ FailsAt("state")) \/ (k = "form" /\ FailsAt("except"))
  <2>1. Moves /\ pc' = "replied" /\ pc \notin Ended
    BY <1>1, Ending DEF Replied, Finishes, Ended
  <2>2. TypeOK /\ KeyOK /\ PlacedOK /\ trouble \in Nat
    BY <1>1, <2>1, Parts DEF IInv, InCall
  <2>3. ~Store
    BY <2>1 DEF Store, Settles, Settled, Goes
  <2>4. store'[k] = store[k] /\ ~(k = "form" /\ store' = [store EXCEPT !["form"] = Absent])
    BY <1>1, <2>1, <2>2, <2>3, StoreSteps DEF TypeOK, Recorded
  <2>5. /\ k = call.kind /\ result = "ok" /\ Kept
        /\ \/ k = "batch" /\ pc = "state"
           \/ k = "form" /\ pc \in Looking \cup {"except"}
    BY <1>1, <2>2, <2>4 DEF KeyOK, Recorded, Kept
  <2>6. /\ UNCHANGED <<file, token>>
        /\ \/ reply' = "ok"
           \/ k = "batch" /\ pc = "state" /\ trouble' = trouble + 1
           \/ k = "form" /\ pc = "except" /\ trouble' = trouble + 1
    BY <2>1, <2>4, <2>5, KeyEnds, BatchEnds
  <2>7. call.dry \/ Published
    BY <2>2, <2>5 DEF PlacedOK
  <2>8. Published /\ Target \notin touched => file'[Target] = token
    BY <2>2, <2>5, <2>6 DEF PlacedOK
  <2>9. trouble' = trouble + 1 => trouble' > trouble
    BY <2>2
  <2>10. QED
    BY <2>5, <2>6, <2>7, <2>8, <2>9 DEF FailsAt
<1>2. IInv /\ [Next]_vars =>
        [Replied => \A k \in Kinds : Recorded(k) =>
            /\ k = call.kind /\ result = "ok"
            /\ call.dry \/ Published
            /\ Published /\ Target \notin touched => file'[Target] = token
            /\ reply' = "ok" \/ (k = "batch" /\ FailsAt("state")) \/ (k = "form" /\ FailsAt("except"))]_vars
  BY <1>1
<1>3. QED
  BY <1>2, Invariance, PTL DEF Spec, KeyMeansDone

-----------------------------------------------------------------------------
\* Where ok is answered, and after which look.
LEMMA OkReply ==
    ASSUME Moves, pc' = "replied", reply' = "ok"
    PROVE  /\ UNCHANGED file
           /\ \/ pc = "state" /\ result # "failed" /\ UNCHANGED unseen
              \/ /\ pc \in {"settle", "answer"}
                 /\ Observes(Target)
                 /\ SourceStands /\ OutputStands
<1>1. CASE Executes
  BY <1>1 DEF Executes, Lookup, ReadInput, Open, AssertSource, Reserve, Cas, Recheck, ReadBack, Refusal,
     Store, Unsure, Rollback, State, Validate, Settles, Settled, Answers, outcome, others, Blind, Goes
<1>2. CASE Adapts
  <2>1. CASE Settle
    BY <2>1 DEF Settle, Loses, Withdraws, outcome, Goes
  <2>2. CASE Answer
    BY <2>2 DEF Answer, Loses, Withdraws, outcome, Goes
  <2>3. CASE ~Settle /\ ~Answer
    BY <1>2, <2>3 DEF Adapts, Snapshot, Capture, ReadSource, Execute, Look, Final, Watch, Clean,
       Undo, Verdict, Except, Judge, Withdraws, Answers, outcome, Goes
  <2>4. QED
    BY <2>1, <2>2, <2>3
<1>3. CASE Fault \/ StateFails
  BY <1>3 DEF Fault, StateFails, Fails, Settles, Settled, Answers, Withdraws, outcome, Goes
<1>4. QED
  BY <1>1, <1>2, <1>3 DEF Moves

Claimed ==
    /\ "source" \notin unseen' /\ (~InPlace \/ ~Published) => file'["source"] = Found["source"]
    /\ Published => token.val = Edited(Found["source"].val)
    /\ Published /\ Target \notin unseen' => file'[Target] = token
    /\ result = "replay" /\ ~call.dry /\ Target \notin unseen' =>
          Content(file'[Target]) = store["form"].claim

LEMMA BatchClaims ==
    ASSUME IInv, Moves, pc = "state", result = "ok", UNCHANGED <<file, unseen>>
    PROVE  Claimed
<1>1. PhaseOK /\ BatchOK /\ OpenOK /\ TypeOK
  BY Inside DEF IInv, InCall
<1>2. call.kind = "batch" /\ n > 0
  BY <1>1, Parts DEF PhaseOK, Executing, Core, Adapter, Kinds, Ended
<1>3. Published => token.val = Edited(base["source"].val)
  BY <1>1, <1>2, CandidateIs DEF OpenOK
<1>4. QED
  BY <1>1, <1>2, <1>3 DEF BatchOK, Claimed, Found

LEMMA AdapterClaims ==
    ASSUME IInv, Moves, pc \in {"settle", "answer"}, Observes(Target), SourceStands, OutputStands, UNCHANGED file
    PROVE  Claimed
<1>1. /\ PhaseOK /\ SourceOK /\ OpenOK /\ LookOK /\ TypeOK /\ n > 0
      /\ Target \in Paths /\ "source" \in Paths
  BY Inside, Parts DEF IInv, InCall, PhaseOK
<1>2. call.kind # "batch"
  BY <1>1 DEF PhaseOK, Executing, Core
<1>3. /\ seen'[Target] = file[Target]
      /\ Target # "source" => seen'["source"] = seen["source"]
      /\ unseen' = unseen \ {Target}
  BY <1>1 DEF Observes, Looks, TypeOK
<1>4. ~(InPlace /\ Published) => seen'["source"] = before["source"]
  BY DEF SourceStands, SourceKept
<1>5. "source" \notin unseen' /\ (~InPlace \/ ~Published) => file'["source"] = Found["source"]
  <2>1. CASE InPlace
    BY <1>2, <1>3, <1>4, <2>1 DEF InPlace, Found
  <2>2. CASE ~InPlace
    BY <1>1, <1>2, <1>3, <1>4, <2>2 DEF InPlace, Found, LookOK
  <2>3. QED
    BY <2>1, <2>2
<1>6. ASSUME Published
      PROVE  token.val = Edited(Found["source"].val)
  <2>1. base["source"] # Absent /\ token.val = Edited(base["source"].val)
    BY <1>1, <1>6, CandidateIs DEF OpenOK
  <2>2. base["source"] = before["source"]
    BY <1>1, <1>2, <1>3, <1>4, <1>6, <2>1 DEF SourceOK, InPlace
  <2>3. QED
    BY <1>2, <2>1, <2>2 DEF Found
<1>7. Published => file'[Target] = token
  <2>1. SUFFICES ASSUME Published
                 PROVE  file'[Target] = token
    OBVIOUS
  <2>2. Owned
    BY <1>1, <2>1 DEF OutputStands, Owned, PhaseOK
  <2>3. QED
    BY <1>3, <2>2 DEF Owned
<1>8. ASSUME result = "replay", ~call.dry
      PROVE  Content(file'[Target]) = store["form"].claim
  <2>1. ~Published /\ call.kind = "form"
    BY <1>1, <1>2, <1>8, Parts DEF PhaseOK, Kinds
  <2>2. seen'[Target] = seen[Target]
    BY <1>8, <2>1 DEF OutputStands
  <2>3. QED
    BY <1>1, <1>3, <1>8, <2>1, <2>2 DEF LookOK
<1>9. QED
  BY <1>5, <1>6, <1>7, <1>8 DEF Claimed

\* An answer ok tells the truth about the files, as far as the call can know: it was
\* made from the source it found, and stands where it says (the last observations of
\* _finalize_canonical_apply, the read-back of BatchPublication.publish).
THEOREM OkHolds == Spec => OkIsTrue
<1>1. ASSUME IInv, [Next]_vars, Replied, reply' = "ok", call.kind = "batch" => result = "ok"
      PROVE  Claimed
  <2>1. Moves /\ pc' = "replied" /\ pc \notin Ended
    BY <1>1, Ending DEF Replied, Finishes, Ended
  <2>2. PhaseOK
    BY <1>1, <2>1 DEF IInv, InCall
  <2>3. CASE pc = "state"
    <3>1. result = "ok"
      BY <1>1, <2>2, <2>3, Parts DEF IInv, PhaseOK, Executing, Core, Adapter, Kinds, Ended
    <3>2. QED
      BY <1>1, <2>1, <2>3, <3>1, OkReply, BatchClaims
  <2>4. CASE pc # "state"
    BY <1>1, <2>1, <2>4, OkReply, AdapterClaims
  <2>5. QED
    BY <2>3, <2>4
<1>2. IInv /\ [Next]_vars =>
        [Replied /\ reply' = "ok" /\ (call.kind = "batch" => result = "ok") =>
            /\ "source" \notin unseen' /\ (~InPlace \/ ~Published) => file'["source"] = Found["source"]
            /\ Published => token.val = Edited(Found["source"].val)
            /\ Published /\ Target \notin unseen' => file'[Target] = token
            /\ result = "replay" /\ ~call.dry /\ Target \notin unseen' =>
                  Content(file'[Target]) = store["form"].claim]_vars
  BY <1>1 DEF Claimed
<1>3. QED
  BY <1>2, Invariance, PTL DEF Spec, OkIsTrue

-----------------------------------------------------------------------------
LEMMA SideEnds ==
    ASSUME IInv, Moves, pc' \in Ended, reply' # "ok"
    PROVE  /\ recov \subseteq recov'
           /\ pc = "except" => Mine \subseteq recov' \/ trouble' = trouble + 1
<1>1. CASE Executes
  BY <1>1 DEF Executes, Lookup, ReadInput, Open, AssertSource, Reserve, Cas, Recheck, ReadBack,
     Store, Unsure, Rollback, State, Validate
<1>2. CASE Adapts
  BY <1>2 DEF Adapts, Snapshot, Capture, ReadSource, Execute, Look, Final, Watch, Clean, Goes, Ended,
     Undo, Verdict, Except, Settle, Answer, Judge, Loses, Withdraws
<1>3. CASE Fault \/ StateFails
  BY <1>3 DEF Fault, StateFails, Fails, Withdraws
<1>4. QED
  BY <1>1, <1>2, <1>3 DEF Moves

\* What a form has replaced can be had again from its place or its sidecar, when the
\* call does not succeed: reserve before the publication, cleanup after the last look
\* but one, and again in every withdrawal (_FailurePreimagePreserver).
THEOREM PreimageKept == Spec => PreimageSurvives
<1>1. ASSUME IInv, [Next]_vars, Finishes, call.kind # "batch", Published, before[Target] # Absent, reply' # "ok"
      PROVE  \/ \E r \in recov' : r.val = before[Target].val
             \/ pc \in {"again", "answer"}
             \/ pc = "except" /\ trouble' > 1
  <2>1. (Moves \/ Crash) /\ pc \notin Ended /\ pc' \in Ended
    BY <1>1, Ending DEF Finishes
  <2>2. TypeOK /\ SideOK /\ PhaseOK /\ trouble \in Nat /\ n > 0
    BY <1>1, <2>1, Parts DEF IInv, InCall, PhaseOK
  <2>3. \/ Mine \subseteq recov
        \/ pc \in {"again", "answer"}
        \/ pc = "except" /\ trouble > 0
    BY <1>1, <2>2 DEF SideOK, PhaseOK
  <2>4. Mine \subseteq recov' => \E r \in recov' : r.val = before[Target].val
    <3>1. [val |-> before[Target].val, by |-> n] \in Mine
      BY <1>1, <2>2, MineIs
    <3>2. [val |-> before[Target].val, by |-> n].val = before[Target].val
      OBVIOUS
    <3>3. QED
      BY <3>1, <3>2
  <2>5. trouble > 0 /\ trouble' = trouble + 1 => trouble' > 1
    BY <2>2
  <2>6. CASE Moves
    BY <1>1, <2>1, <2>3, <2>4, <2>5, <2>6, SideEnds
  <2>7. CASE Crash
    BY <2>3, <2>4, <2>5, <2>7 DEF Crash
  <2>8. QED
    BY <2>1, <2>6, <2>7
<1>2. IInv /\ [Next]_vars =>
        [Finishes /\ call.kind # "batch" /\ Published /\ before[Target] # Absent /\ reply' # "ok" =>
            \/ Content(file'[Target]) = before[Target].val
            \/ \E r \in recov' : r.val = before[Target].val
            \/ pc \in {"again", "answer"}
            \/ pc = "except" /\ trouble' > 1]_vars
  BY <1>1
<1>3. QED
  BY <1>2, Invariance, PTL DEF Spec, PreimageSurvives

=============================================================================
