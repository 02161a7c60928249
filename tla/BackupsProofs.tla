----------------------------- MODULE BackupsProofs -----------------------------
(***************************************************************************)
(* Theorems about a document and its backup generations, for any depth,    *)
(* any number of calls, faults, crashes and external writes.               *)
(***************************************************************************)
EXTENDS Backups, TLAPS

PatchSteps == {"preserve", "capture", "write", "readback", "inspect", "clean", "recheck", "restore"}
UndoSteps == {"preserve", "target", "backup", "inspect", "clean", "recheck", "restore", "restorebak"}

\* How far each kind of call may be, and at which slot.
PhaseOK ==
    /\ kind = "patch" => pc \in PatchSteps \cup Ended
    /\ kind = "undo" => pc \in UndoSteps \cup Ended
    /\ kind \in Plain => pc \in Rotating \cup Ended
    /\ pc \in {"again", "recopying"} => kind = "tool"
    /\ pc \notin Ended => op > 0
    /\ touched => trouble > 0
    /\ pc \in {"preserve", "capture", "target", "backup", "inspect", "clean", "recheck",
               "restorebak"} => pos = 0
    /\ pc \in {"write", "readback"} => pos \in Slots
    /\ pc = "restore" /\ kind = "undo" => pos \in {0, 1}
    /\ pc = "rotate" => pos \in 1 .. Depth

\* What a call has captured: an undo the two files it swaps, both whole; a patch its
\* document, and the generations once it is past their capture.
CaptureOK ==
    pc \notin Ended =>
        /\ kind = "undo" =>
              /\ Had(0) /\ Had(1) /\ pre[0].val # Torn /\ pre[1].val # Torn
              /\ \A s \in Slots : s > 1 => ~Had(s)
        /\ kind = "patch" =>
              /\ Had(0) => pre[0].val # Torn
              /\ ~Had(0) \/ pc \in {"preserve", "capture"} => \A s \in Slots : s > 0 => ~Had(s)
        /\ kind \in Plain => There(0)

Base == TypeOK /\ PhaseOK /\ CaptureOK /\ TargetWhole

-----------------------------------------------------------------------------
LEMMA SlotsAre ==
    /\ Slots \subseteq Nat /\ 0 \in Slots /\ 1 \in Slots /\ Oldest \in Slots /\ Depth \in Slots
    /\ Depth \in Nat /\ Depth > 0
    /\ \A s \in Slots : s # 0 => s - 1 \in Slots
    /\ \A s \in Slots : s # Oldest => s + 1 \in Slots
    /\ \A s \in 1 .. Depth : s \in Slots /\ s + 1 \in Slots /\ s - 1 \in Slots
    /\ \A s \in Slots : s \in 0 .. Oldest
    /\ \A s \in 0 .. Oldest : s \in Slots
    /\ \A s \in Slots : s \in 0 .. Depth + 2
    /\ 0 \in 0 .. MaxTrouble
BY BackupsAssumption DEF Slots, Oldest

\* Files and captures are entries, and an entry is what Entry makes of its parts.
LEMMA Typed ==
    ASSUME TypeOK
    PROVE  /\ \A s \in Slots : There(s) => /\ slot[s] \in Entries
                                           /\ slot[s].val \in Versions \cup {Torn}
                                           /\ slot[s] = Entry(slot[s].val, slot[s].op)
           /\ \A s \in Slots : Had(s) => /\ pre[s] \in Entries
                                         /\ pre[s].val \in Versions \cup {Torn}
                                         /\ pre[s] = Entry(pre[s].val, pre[s].op)
           /\ \A v \in Versions \cup {Torn} :
                 /\ Ours(v) \in Entries /\ Ours(v).val = v /\ Ours(v).op = op /\ Ours(v) # Absent
           /\ op > 0 => New \in Versions
           /\ \A w \in Foreign : Version("foreign", w) \in Versions
                                 /\ Entry(Version("foreign", w), 0) \in Entries
BY BackupsAssumption DEF TypeOK, There, Had, Entries, Entry, Ours, New, Version, Versions

\* A call never wants the torn copy at the document.
LEMMA Wants ==
    ASSUME Base, pc \notin Ended, kind \in Exact, NEW s \in Mutated
    PROVE  /\ s \in Slots
           /\ Result(s) \in Entries \cup {Absent}
           /\ Result(s) # Absent => Result(s) = Ours(Wanted(s).val)
           /\ Content(Result(s)) = Content(Wanted(s))
           /\ s = 0 => Content(Result(s)) # Torn
           /\ kind = "undo" => s \in {0, 1} /\ Wanted(s) = pre[1 - s]
           /\ kind = "patch" => Wanted(s) = IF s = 0 THEN Entry(New, op) ELSE pre[s - 1]
<1>1. s \in Slots
  BY SlotsAre DEF Mutated, Exact
<1>2. op > 0
  BY DEF Base, PhaseOK
<1>3. CASE kind = "undo"
  <2>1. s \in {0, 1} /\ Wanted(s) = pre[1 - s]
    BY <1>3 DEF Mutated, Wanted
  <2>2. 1 - s \in {0, 1} /\ (s = 0 => 1 - s = 1)
    BY <2>1
  <2>3. pre[0] # Absent /\ pre[1] # Absent /\ pre[1].val # Torn
    BY <1>3 DEF Base, CaptureOK, Had
  <2>4. Wanted(s) # Absent /\ Wanted(s).val \in Versions \cup {Torn}
    BY <2>1, <2>2, <2>3, Typed, SlotsAre DEF Base, Had
  <2>5. Result(s) = Ours(Wanted(s).val)
    BY <2>4 DEF Result
  <2>6. Result(s) \in Entries /\ Result(s).val = Wanted(s).val /\ Result(s) # Absent
    BY <2>4, <2>5, Typed DEF Base
  <2>7. s = 0 => Wanted(s).val # Torn
    BY <2>1, <2>2, <2>3
  <2>8. QED
    BY <1>1, <1>3, <2>1, <2>4, <2>5, <2>6, <2>7 DEF Content
<1>4. CASE kind = "patch"
  <2>1. Wanted(s) = IF s = 0 THEN Entry(New, op) ELSE pre[s - 1]
    BY <1>1, <1>4, SlotsAre DEF Wanted
  <2>2. Entry(New, op) = Ours(New) /\ New \in Versions /\ New # Torn
    BY <1>2, Typed, BackupsAssumption DEF Base, Ours
  <2>3. Ours(New) # Absent /\ Ours(New).val = New
    BY <2>2, Typed DEF Base
  <2>4. Wanted(s) # Absent => Wanted(s).val \in Versions \cup {Torn}
    BY <1>1, <2>1, <2>2, <2>3, Typed, SlotsAre DEF Base, Had
  <2>5. Result(s) = IF Wanted(s) = Absent THEN Absent ELSE Ours(Wanted(s).val)
    BY DEF Result
  <2>6. Result(s) # Absent => Result(s) \in Entries /\ Result(s).val = Wanted(s).val
    BY <2>4, <2>5, Typed DEF Base
  <2>7. Wanted(s) # Absent => Result(s) # Absent
    BY <2>4, <2>5, Typed DEF Base
  <2>8. s = 0 => Content(Result(s)) # Torn
    BY <2>1, <2>2, <2>3, <2>5, <2>6, <2>7 DEF Content
  <2>9. QED
    BY <1>1, <1>4, <2>1, <2>5, <2>6, <2>7, <2>8 DEF Content
<1>5. QED
  BY <1>3, <1>4 DEF Exact

\* One write.
LEMMA Written ==
    ASSUME Base, NEW s \in Slots, NEW e \in Entries \cup {Absent}, Writes(s, e),
           s = 0 => Content(e) # Torn
    PROVE  /\ slot' \in [Slots -> Entries \cup {Absent}]
           /\ slot'[s] = e
           /\ \A t \in Slots : t # s => slot'[t] = slot[t]
           /\ TargetWhole'
<1>1. slot \in [Slots -> Entries \cup {Absent}]
  BY DEF Base, TypeOK
<1>2. QED
  BY <1>1, SlotsAre DEF Base, Writes, TargetWhole, Content

LEMMA RecoveriesTyped ==
    ASSUME TypeOK, NEW f \in [Slots -> Entries \cup {Absent}], NEW S \in SUBSET Slots
    PROVE  Recoveries(f, S) \subseteq [slot : Slots, val : Versions \cup {Torn}, op : 0..MaxOps]
BY DEF TypeOK, Recoveries, Entries

LEMMA StartBase ==
    ASSUME Base, NEW k \in Kinds, Start(k)
    PROVE  Base'
<1> USE DEF Base
<1>1. /\ pc \in Ended /\ op' = op + 1 /\ op' \in 1..MaxOps /\ kind' = k /\ trouble' = 0
      /\ touched' = FALSE /\ pos' = 0
      /\ pre' = [s \in Slots |-> IF s \in Captures(k) THEN slot[s] ELSE Absent]
      /\ pc' = IF Opens(k) THEN (IF k \in Plain THEN "unlink" ELSE "preserve") ELSE "failed"
      /\ UNCHANGED <<slot, recov, written>>
  BY BackupsAssumption DEF Start, TypeOK
<1>2. pre' \in [Slots -> Entries \cup {Absent}]
  BY <1>1 DEF TypeOK
<1>3. pc' \in {"unlink", "preserve", "failed"}
  BY <1>1
<1>4. TypeOK'
  <2>1. pc' \in Steps
    BY <1>3 DEF Steps, Ended, Rotating
  <2>2. pos' \in 0..Depth + 2 /\ trouble' \in 0..MaxTrouble /\ op' \in 0..MaxOps
    BY <1>1, SlotsAre
  <2>3. QED
    BY <1>1, <1>2, <2>1, <2>2 DEF TypeOK
<1>5. PhaseOK'
  BY <1>1 DEF PhaseOK, PatchSteps, UndoSteps, Rotating, Ended, Kinds, Plain, Exact
<1>6. CaptureOK'
  <2>1. CASE pc' = "failed"
    BY <2>1 DEF CaptureOK, Ended
  <2>2. CASE k \in Plain /\ Opens(k)
    BY <1>1, <2>2 DEF CaptureOK, Opens, There, Safe, Plain
  <2>3. CASE k = "undo" /\ Opens(k)
    BY <1>1, <2>3, SlotsAre DEF CaptureOK, Opens, Captures, Had, There, Safe, Plain
  <2>4. CASE k = "patch" /\ Opens(k)
    BY <1>1, <2>4, SlotsAre DEF CaptureOK, Opens, Captures, Had, There, Safe, Plain
  <2>5. QED
    BY <1>1, <2>1, <2>2, <2>3, <2>4 DEF Kinds, Exact
<1>7. QED
  BY <1>1, <1>4, <1>5, <1>6 DEF TargetWhole, Content

\* The steps of the exact calls.
LEMMA ExactBase ==
    ASSUME Base, Preserve \/ CaptureSlots \/ WriteSlot \/ ReadBack \/ SwapTarget \/ SwapBackup
                 \/ Inspect \/ Clean \/ Recheck
    PROVE  Base'
<1> USE DEF Base
<1>0. UNCHANGED call /\ pc \notin Ended /\ kind \in Exact /\ op > 0
  BY DEF Preserve, CaptureSlots, WriteSlot, ReadBack, SwapTarget, SwapBackup, Inspect, Clean,
         Recheck, Moves, Goes, PhaseOK, Ended, Rotating, Plain, Exact, Kinds, TypeOK
<1> USE <1>0 DEF call
<1>1. CASE Preserve
  <2>1. recov' = recov \cup Recoveries(pre, {0, 1}) /\ UNCHANGED <<slot, pre, pos>>
        /\ pc = "preserve" /\ pc' = (IF kind = "undo" THEN "target" ELSE "capture")
    BY <1>1 DEF Preserve, Goes
  <2>2. recov' \subseteq [slot : Slots, val : Versions \cup {Torn}, op : 0..MaxOps]
    BY <2>1, RecoveriesTyped, SlotsAre DEF TypeOK
  <2>3. TypeOK'
    BY <2>1, <2>2 DEF TypeOK, Steps
  <2>4. QED
    BY <2>1, <2>3 DEF PhaseOK, PatchSteps, UndoSteps, Ended, Exact, Plain, CaptureOK, Had,
                      TargetWhole, Content
<1>2. CASE CaptureSlots
  <2>1. CASE slot[0] # pre[0]
    BY <1>2, <2>1 DEF CaptureSlots, Moves, Goes, TypeOK, Steps, Ended, PhaseOK, CaptureOK,
                      TargetWhole, Content
  <2>2. CASE slot[0] = pre[0]
    <3>1. /\ pre' = (IF Had(0) THEN slot ELSE pre)
          /\ recov' = recov \cup Recoveries(pre', Slots \ {0})
          /\ pos' = (IF Had(0) THEN Oldest ELSE 0)
          /\ pc' = "write" /\ pc = "capture" /\ slot' = slot
      BY <1>2, <2>2 DEF CaptureSlots, Goes
    <3>2. pre' \in [Slots -> Entries \cup {Absent}]
      BY <3>1 DEF TypeOK
    <3>3. recov' \subseteq [slot : Slots, val : Versions \cup {Torn}, op : 0..MaxOps]
      BY <3>1, <3>2, RecoveriesTyped DEF TypeOK
    <3>4. TypeOK'
      <4>1. pos' \in 0..Depth + 2
        BY <3>1, SlotsAre
      <4>2. QED
        BY <3>1, <3>2, <3>3, <4>1 DEF TypeOK, Steps
    <3>5. kind = "patch"
      BY <3>1 DEF PhaseOK, UndoSteps, Ended, Exact
    <3>6. PhaseOK' /\ CaptureOK' /\ TargetWhole'
      BY <2>2, <3>1, <3>5, SlotsAre DEF PhaseOK, PatchSteps, Ended, Exact, Plain, CaptureOK, Had,
                                        TargetWhole, Content
    <3>7. QED
      BY <3>4, <3>6
  <2>3. QED
    BY <2>1, <2>2
<1>3. CASE WriteSlot
  <2>0. kind = "patch" /\ pos \in Slots /\ UNCHANGED <<recov, pre>>
    BY <1>3 DEF WriteSlot, Moves, Goes, PhaseOK, UndoSteps, Ended, Exact
  <2>1. CASE pos \in Mutated /\ slot[pos] = pre[pos]
    <3>1. Writes(pos, Result(pos)) /\ pc' = "readback" /\ pos' = pos
      BY <1>3, <2>1 DEF WriteSlot, Goes
    <3>2. slot' \in [Slots -> Entries \cup {Absent}] /\ TargetWhole'
      BY <2>1, <3>1, Wants, Written
    <3>3. QED
      BY <2>0, <3>1, <3>2 DEF TypeOK, Steps, PhaseOK, PatchSteps, CaptureOK, Had, Ended, Plain, Exact
  <2>2. CASE ~(pos \in Mutated /\ slot[pos] = pre[pos])
    <3>1. slot' = slot /\ \/ pc' = "readback" /\ pos' = pos
                          \/ pc' = "restore" /\ pos' = pos + 1
      BY <1>3, <2>2 DEF WriteSlot, Moves, Goes
    <3>2. pos' \in 0..Depth + 2
      BY <2>0, <3>1, SlotsAre DEF Oldest
    <3>3. QED
      BY <2>0, <3>1, <3>2 DEF TypeOK, Steps, PhaseOK, PatchSteps, CaptureOK, Had, Ended, Plain, Exact,
                              TargetWhole, Content
  <2>3. QED
    BY <2>1, <2>2
<1>4. CASE ReadBack
  <2>0. kind = "patch" /\ pos \in Slots /\ UNCHANGED <<slot, recov, pre>>
    BY <1>4 DEF ReadBack, Moves, Goes, PhaseOK, UndoSteps, Ended, Exact
  <2>1. \/ pc' = "restore" /\ pos' = pos
        \/ pc' = "inspect" /\ pos = 0 /\ pos' = 0
        \/ pc' = "write" /\ pos # 0 /\ pos' = pos - 1
    BY <1>4 DEF ReadBack, Moves, Goes
  <2>2. pos' \in Slots /\ pos' \in 0..Depth + 2
    BY <2>0, <2>1, SlotsAre DEF Oldest
  <2>3. QED
    BY <2>0, <2>1, <2>2 DEF TypeOK, Steps, PhaseOK, PatchSteps, CaptureOK, Had, Ended, Plain, Exact,
                            TargetWhole, Content
<1>5. CASE SwapTarget
  <2>0. kind = "undo" /\ pos = 0 /\ UNCHANGED <<recov, pre, pos>>
    BY <1>5 DEF SwapTarget, Moves, Goes, PhaseOK, PatchSteps, Ended, Exact
  <2>1. CASE slot[0] = pre[0]
    <3>1. Writes(0, Result(0)) /\ pc' = "backup"
      BY <1>5, <2>1 DEF SwapTarget, Goes
    <3>2. slot' \in [Slots -> Entries \cup {Absent}] /\ TargetWhole'
      BY <2>0, <3>1, Wants, Written DEF Mutated
    <3>3. QED
      BY <2>0, <3>1, <3>2 DEF TypeOK, Steps, PhaseOK, UndoSteps, CaptureOK, Had, Ended, Plain, Exact
  <2>2. CASE slot[0] # pre[0]
    BY <1>5, <2>0, <2>2 DEF SwapTarget, Moves, Goes, TypeOK, Steps, Ended, PhaseOK, CaptureOK,
                            TargetWhole, Content
  <2>3. QED
    BY <2>1, <2>2
<1>6. CASE SwapBackup
  <2>0. kind = "undo" /\ pos = 0 /\ UNCHANGED <<recov, pre>>
    BY <1>6 DEF SwapBackup, Moves, Goes, PhaseOK, PatchSteps, Ended, Exact
  <2>1. CASE slot[1] = pre[1]
    <3>1. Writes(1, Result(1)) /\ pc' = "inspect" /\ pos' = pos
      BY <1>6, <2>1 DEF SwapBackup, Goes
    <3>2. slot' \in [Slots -> Entries \cup {Absent}] /\ TargetWhole'
      BY <2>0, <3>1, Wants, Written DEF Mutated
    <3>3. QED
      BY <2>0, <3>1, <3>2 DEF TypeOK, Steps, PhaseOK, UndoSteps, CaptureOK, Had, Ended, Plain, Exact
  <2>2. CASE slot[1] # pre[1]
    BY <1>6, <2>0, <2>2, SlotsAre DEF SwapBackup, Goes, TypeOK, Steps, Ended, PhaseOK, UndoSteps,
       CaptureOK, Had, TargetWhole, Content, Plain, Exact, Slots
  <2>3. QED
    BY <2>1, <2>2
<1>7. CASE Inspect
  BY <1>7 DEF Inspect, Moves, Goes, TypeOK, Steps, PhaseOK, PatchSteps, UndoSteps, Ended, Plain,
     Exact, CaptureOK, Had, TargetWhole, Content
<1>8. CASE Clean
  BY <1>8 DEF Clean, Moves, Goes, TypeOK, Steps, PhaseOK, PatchSteps, UndoSteps, Ended, Plain,
     Exact, CaptureOK, Had, TargetWhole, Content
<1>9. CASE Recheck
  <2>1. UNCHANGED <<slot, pre, pos>> /\ pc = "recheck"
        /\ \/ pc' = "ok" /\ recov' = recov
           \/ pc' = "restore" /\ recov' = recov \cup Recoveries(pre, Slots)
    BY <1>9 DEF Recheck, Moves, Goes, Republish
  <2>2. TypeOK'
    BY <2>1, RecoveriesTyped DEF TypeOK, Steps, Ended
  <2>3. QED
    BY <2>1, <2>2 DEF PhaseOK, PatchSteps, UndoSteps, Ended, Plain, Exact, CaptureOK, Had,
                      TargetWhole, Content
<1>10. QED
  BY <1>1, <1>2, <1>3, <1>4, <1>5, <1>6, <1>7, <1>8, <1>9

LEMMA RollbackBase ==
    ASSUME Base, Restore \/ RestoreTarget \/ RestoreBackup
    PROVE  Base'
<1> USE DEF Base
<1>0. UNCHANGED <<call, recov, pre>> /\ pc \notin Ended /\ kind \in Exact /\ op > 0
      /\ pc \in {"restore", "restorebak"}
  BY DEF Restore, RestoreSlot, RestoreTarget, RestoreBackup, Moves, Goes, PhaseOK, Ended, Rotating,
         Plain, Exact, Kinds, TypeOK
<1> USE <1>0 DEF call
<1>1. \A s \in Slots : Had(s) => Ours(pre[s].val) \in Entries /\ Ours(pre[s].val) # Absent
                                 /\ Ours(pre[s].val).val = pre[s].val
  BY Typed
<1>2. Had(0) => pre[0].val # Torn
  BY DEF CaptureOK, Exact
<1>3. Content(Absent) # Torn
  BY BackupsAssumption DEF Content
<1>4. CASE Restore
  <2>1. kind = "patch" /\ pc = "restore"
    BY <1>4 DEF Restore, RestoreSlot
  <2>2. \/ pc' = "restore" /\ pos' = pos + 1 /\ pos < Oldest
        \/ pc' = "failed" /\ pos' = 0
    BY <1>4 DEF Restore, RestoreSlot, Goes
  <2>3. pos' \in 0..Depth + 2
    BY <2>2, SlotsAre DEF TypeOK, Oldest
  <2>4. slot' \in [Slots -> Entries \cup {Absent}] /\ TargetWhole'
    <3>1. CASE pos \in Mutated /\ Owned(pos)
      <4>1. pos \in Slots
        BY <3>1, Wants
      <4>2. PICK e : e = IF Had(pos) THEN Ours(pre[pos].val) ELSE Absent
        OBVIOUS
      <4>3. Writes(pos, e) /\ e \in Entries \cup {Absent} /\ (pos = 0 => Content(e) # Torn)
        BY <1>1, <1>2, <1>3, <1>4, <3>1, <4>1, <4>2 DEF Restore, RestoreSlot, Content
      <4>4. QED
        BY <4>1, <4>3, Written
    <3>2. CASE ~(pos \in Mutated /\ Owned(pos))
      BY <1>4, <3>2 DEF Restore, RestoreSlot, TypeOK, TargetWhole, Content
    <3>3. QED
      BY <3>1, <3>2
  <2>5. QED
    BY <2>1, <2>2, <2>3, <2>4 DEF TypeOK, Steps, PhaseOK, PatchSteps, CaptureOK, Had, Ended, Plain, Exact
<1>5. CASE RestoreTarget
  <2>1. kind = "undo" /\ pc = "restore"
    BY <1>5 DEF RestoreTarget
  <2>2. pos' = pos /\ pos \in {0, 1} /\ (pc' = "failed" \/ (pc' = "restorebak" /\ pos = 0))
    BY <1>5, <2>1 DEF RestoreTarget, Moves, Goes, PhaseOK
  <2>3. slot' = slot \/ Writes(0, Ours(pre[0].val))
    BY <1>5 DEF RestoreTarget, Moves, Goes
  <2>4. slot' \in [Slots -> Entries \cup {Absent}] /\ TargetWhole'
    <3>1. CASE slot' = slot
      BY <3>1 DEF TypeOK, TargetWhole, Content
    <3>2. CASE Writes(0, Ours(pre[0].val))
      <4>1. PICK e : e = Ours(pre[0].val)
        OBVIOUS
      <4>2. Had(0)
        BY <2>1 DEF CaptureOK
      <4>3. e \in Entries /\ Content(e) # Torn
        BY <1>1, <1>2, <4>1, <4>2, SlotsAre DEF Content
      <4>4. QED
        BY <3>2, <4>1, <4>3, Written, SlotsAre
    <3>3. QED
      BY <2>3, <3>1, <3>2
  <2>5. QED
    BY <2>1, <2>2, <2>4 DEF TypeOK, Steps, PhaseOK, UndoSteps, CaptureOK, Had, Ended, Plain, Exact
<1>6. CASE RestoreBackup
  <2>1. kind = "undo" /\ pc = "restorebak" /\ pos' = pos /\ pc' = "failed"
    BY <1>6 DEF RestoreBackup, Goes, PhaseOK, PatchSteps, Ended, Exact
  <2>2. slot' \in [Slots -> Entries \cup {Absent}] /\ TargetWhole'
    <3>1. CASE slot' = slot
      BY <3>1 DEF TypeOK, TargetWhole, Content
    <3>2. CASE Writes(1, Ours(pre[1].val))
      <4>1. PICK e : e = Ours(pre[1].val)
        OBVIOUS
      <4>2. Had(1)
        BY <2>1 DEF CaptureOK, Ended
      <4>3. e \in Entries
        BY <1>1, <4>1, <4>2, SlotsAre
      <4>4. QED
        BY <3>2, <4>1, <4>3, Written, SlotsAre
    <3>3. QED
      BY <1>6, <3>1, <3>2 DEF RestoreBackup
  <2>3. QED
    BY <2>1, <2>2 DEF TypeOK, Steps, PhaseOK, CaptureOK, Had, Ended, Plain, Exact
<1>7. QED
  BY <1>4, <1>5, <1>6

LEMMA SavingBase ==
    ASSUME Base, Saving
    PROVE  Base'
<1> USE DEF Base
<1>0. UNCHANGED <<call, recov>> /\ pc \notin Ended /\ kind \in Plain /\ op > 0 /\ There(0)
      /\ pc \in Rotating
  BY DEF Saving, UnlinkOldest, Rotate, Copy, CaptureAtSave, Install, Moves, Goes, PhaseOK, Ended,
         Rotating, Plain, Exact, Kinds, TypeOK, PatchSteps, UndoSteps, CaptureOK
<1> USE <1>0 DEF call
<1>1. CASE UnlinkOldest
  <2>1. Writes(Oldest, Absent) /\ pos' = Depth /\ pc' = "rotate" /\ pre' = pre
    BY <1>1 DEF UnlinkOldest, Goes
  <2>2. slot' \in [Slots -> Entries \cup {Absent}] /\ TargetWhole' /\ slot'[0] = slot[0]
    BY <2>1, Written, SlotsAre DEF Oldest
  <2>3. pos' \in 0..Depth + 2 /\ pos' \in 1 .. Depth
    BY <2>1, SlotsAre
  <2>4. QED
    BY <2>1, <2>2, <2>3 DEF TypeOK, Steps, PhaseOK, Rotating, CaptureOK, There, Ended, Plain
<1>2. CASE Rotate
  <2>1. /\ pos \in 1 .. Depth /\ pos' = pos - 1 /\ pre' = pre
        /\ pc' = (IF pos > 1 THEN "rotate" ELSE "copy")
        /\ slot' = IF There(pos) THEN [slot EXCEPT ![pos + 1] = slot[pos], ![pos] = Absent] ELSE slot
    BY <1>2 DEF Rotate, Goes, PhaseOK
  <2>2. pos \in Slots /\ pos + 1 \in Slots /\ pos # 0 /\ pos + 1 # 0
    BY <2>1, SlotsAre
  <2>3. slot' \in [Slots -> Entries \cup {Absent}] /\ slot'[0] = slot[0]
    BY <2>1, <2>2, SlotsAre DEF TypeOK
  <2>4. pos' \in 0..Depth + 2 /\ (pos > 1 => pos' \in 1 .. Depth)
    BY <2>1, SlotsAre
  <2>5. QED
    BY <2>1, <2>3, <2>4 DEF TypeOK, Steps, PhaseOK, Rotating, CaptureOK, There, Ended, Plain,
       TargetWhole, Content
<1>3. ASSUME NEW from, NEW during, NEW to, Copy(from, during, to),
             <<from, during, to>> \in {<<"copy", "copying", "save">>, <<"again", "recopying", "install">>}
      PROVE  Base'
  <2>1. UNCHANGED <<pre, pos>> /\ \/ pc = from /\ pc' = during
                                  \/ pc = during /\ pc' = to
    BY <1>3 DEF Copy, Goes
  <2>2. slot' = slot \/ Writes(1, Ours(Torn)) \/ Writes(1, Ours(slot[0].val))
    BY <1>3 DEF Copy
  <2>3. slot' \in [Slots -> Entries \cup {Absent}] /\ TargetWhole' /\ slot'[0] = slot[0]
    <3>1. CASE slot' = slot
      BY <3>1 DEF TypeOK, TargetWhole, Content
    <3>2. CASE Writes(1, Ours(Torn)) \/ Writes(1, Ours(slot[0].val))
      <4>1. PICK e \in Entries : Writes(1, e)
        BY <3>2, Typed, SlotsAre
      <4>2. QED
        BY <4>1, Written, SlotsAre
    <3>3. QED
      BY <2>2, <3>1, <3>2
  <2>4. pc' \in Rotating /\ (pc' \in {"again", "recopying"} => kind = "tool") /\ pc' # "rotate"
    BY <1>3, <2>1 DEF PhaseOK, Rotating
  <2>5. QED
    BY <2>1, <2>3, <2>4 DEF TypeOK, Steps, PhaseOK, Rotating, CaptureOK, There, Ended, Plain
<1>4. CASE CaptureAtSave
  <2>1. /\ pre' = [pre EXCEPT ![0] = slot[0]] /\ UNCHANGED <<slot, pos>>
        /\ pc' = (IF kind = "tool" THEN "again" ELSE "install")
    BY <1>4 DEF CaptureAtSave, Goes
  <2>2. pre' \in [Slots -> Entries \cup {Absent}]
    BY <2>1, SlotsAre DEF TypeOK
  <2>3. QED
    BY <2>1, <2>2 DEF TypeOK, Steps, PhaseOK, Rotating, CaptureOK, There, Ended, Plain,
       TargetWhole, Content
<1>5. CASE Install
  <2>1. UNCHANGED <<pre, pos>> /\ pc' \in {"ok", "failed"} /\ (slot' = slot \/ Writes(0, Ours(New)))
    BY <1>5 DEF Install, Moves, Goes
  <2>2. slot' \in [Slots -> Entries \cup {Absent}] /\ TargetWhole'
    <3>1. CASE slot' = slot
      BY <3>1 DEF TypeOK, TargetWhole, Content
    <3>2. CASE Writes(0, Ours(New))
      <4>1. PICK e : e = Ours(New)
        OBVIOUS
      <4>2. e \in Entries /\ Content(e) # Torn
        BY <4>1, Typed, BackupsAssumption DEF Content
      <4>3. QED
        BY <3>2, <4>1, <4>2, Written, SlotsAre
    <3>3. QED
      BY <2>1, <3>1, <3>2
  <2>3. QED
    BY <2>1, <2>2 DEF TypeOK, Steps, PhaseOK, CaptureOK, Ended, Rotating
<1>6. QED
  BY <1>1, <1>2, <1>3, <1>4, <1>5 DEF Saving

LEMMA TroubleBase ==
    ASSUME Base, (\E v \in Foreign, s \in Slots : External(v, s)) \/ Crash \/ Fault \/ Unready
    PROVE  Base'
<1> USE DEF Base
<1>1. ASSUME NEW v \in Foreign, NEW s \in Slots, External(v, s)
      PROVE  Base'
  <2>1. PICK e : e = Entry(Version("foreign", v), 0)
    OBVIOUS
  <2>2. e \in Entries /\ e # Absent /\ Content(e) # Torn
    BY <2>1, Typed, BackupsAssumption DEF Content, Entry
  <2>3. Writes(s, e) /\ UNCHANGED <<recov, op, kind, pc, pre, pos>>
        /\ written' \subseteq Foreign
        /\ trouble' = (IF pc \in Ended THEN trouble ELSE trouble + 1)
        /\ (pc \in Ended \/ trouble < MaxTrouble)
        /\ touched' = (touched \/ pc \notin Ended)
    BY <1>1, <2>1 DEF External, TypeOK
  <2>4. slot' \in [Slots -> Entries \cup {Absent}] /\ TargetWhole' /\ (There(0) => slot'[0] # Absent)
    BY <2>2, <2>3, Written, SlotsAre DEF There
  <2>5. trouble' \in 0..MaxTrouble /\ (touched' => trouble' > 0) /\ touched' \in BOOLEAN
    BY <2>3, BackupsAssumption DEF TypeOK, PhaseOK
  <2>6. QED
    BY <2>3, <2>4, <2>5 DEF TypeOK, PhaseOK, CaptureOK, There, Had
<1>2. CASE Crash
  BY <1>2, BackupsAssumption DEF Crash, TypeOK, Steps, PhaseOK, CaptureOK, TargetWhole, Content, Ended,
     Rotating
<1>3. ASSUME NEW from, NEW to \in Steps, NEW cost \in 1..2, Raises(from, to, cost), UNCHANGED <<slot, pre>>,
             from \subseteq Steps \ Ended,
             recov' \subseteq [slot : Slots, val : Versions \cup {Torn}, op : 0..MaxOps],
             pos' \in 0..Depth + 2,
             \/ to = "failed"
             \/ to = "restore" /\ kind \in Exact /\ (kind = "undo" => pos' \in {0, 1})
                /\ pc \notin {"preserve", "capture"}
      PROVE  Base'
  <2>1. /\ pc \in from /\ pc' = to /\ trouble' = trouble + cost /\ trouble + cost <= MaxTrouble
        /\ UNCHANGED <<op, kind, written, touched>>
    BY <1>3 DEF Raises
  <2>2. trouble' \in 0..MaxTrouble /\ trouble' > 0
    BY <2>1, BackupsAssumption DEF TypeOK
  <2>3. TypeOK'
    BY <1>3, <2>1, <2>2 DEF TypeOK
  <2>4. CASE to = "failed"
    BY <2>1, <2>2, <2>3, <2>4, <1>3 DEF PhaseOK, CaptureOK, Ended, TargetWhole, Content, Rotating
  <2>5. CASE to = "restore"
    BY <2>1, <2>2, <2>3, <2>5, <1>3 DEF PhaseOK, PatchSteps, UndoSteps, CaptureOK, Ended, TargetWhole,
       Content, Exact, Plain, Had, Rotating
  <2>6. QED
    BY <1>3, <2>4, <2>5
<1>4. CASE Fault
  <2>0. {"failed", "restore"} \subseteq Steps
        /\ ({"preserve", "capture", "target", "restorebak"} \cup Rotating) \subseteq Steps \ Ended
        /\ {"write", "backup"} \subseteq Steps \ Ended
        /\ {"readback", "inspect"} \subseteq Steps \ Ended
        /\ {"clean", "recheck"} \subseteq Steps \ Ended
    BY DEF Steps, Ended, Rotating
  <2>1. CASE Raises({"preserve", "capture", "target", "restorebak"} \cup Rotating, "failed", 1) /\ Unwritten
    BY <1>3, <2>0, <2>1 DEF Unwritten, TypeOK
  <2>2. CASE Raises({"write", "backup"}, "restore", 1) /\ pos' = pos + 1 /\ UNCHANGED <<slot, recov, pre>>
    <3>1. pc \in {"write", "backup"}
      BY <2>2 DEF Raises
    <3>2. pos' \in 0..Depth + 2 /\ kind \in Exact /\ (kind = "undo" => pos' \in {0, 1})
      BY <2>2, <3>1, SlotsAre DEF PhaseOK, UndoSteps, Oldest, Ended, Rotating, TypeOK, Kinds, Exact
    <3>3. QED
      BY <1>3, <2>0, <2>2, <3>1, <3>2 DEF TypeOK
  <2>3. CASE Raises({"readback", "inspect"}, "restore", 1) /\ Unwritten
    <3>1. pc \in {"readback", "inspect"}
      BY <2>3 DEF Raises
    <3>2. kind \in Exact /\ (kind = "undo" => pos \in {0, 1})
      BY <3>1 DEF PhaseOK, UndoSteps, Ended, Rotating, TypeOK, Kinds, Exact
    <3>3. QED
      BY <1>3, <2>0, <2>3, <3>1, <3>2 DEF TypeOK, Unwritten
  <2>4. CASE Raises({"clean", "recheck"}, "restore", 1) /\ Republish
    <3>1. pc \in {"clean", "recheck"}
      BY <2>4 DEF Raises
    <3>2. kind \in Exact /\ (kind = "undo" => pos \in {0, 1})
      BY <3>1 DEF PhaseOK, UndoSteps, Ended, Rotating, TypeOK, Kinds, Exact
    <3>3. recov' \subseteq [slot : Slots, val : Versions \cup {Torn}, op : 0..MaxOps]
      BY <2>4, RecoveriesTyped DEF Republish, TypeOK
    <3>4. QED
      BY <1>3, <2>0, <2>4, <3>1, <3>2, <3>3 DEF TypeOK, Republish
  <2>5. QED
    BY <1>4, <2>1, <2>2, <2>3, <2>4 DEF Fault
<1>5. CASE Unready
  <2>0. {"failed", "restore"} \subseteq Steps
        /\ {"clean", "recheck"} \subseteq Steps \ Ended
        /\ {"restore"} \subseteq Steps \ Ended
    BY DEF Steps, Ended
  <2>1. CASE Raises({"clean", "recheck"}, "failed", 2) /\ Unwritten
    BY <1>3, <2>0, <2>1 DEF Unwritten, TypeOK
  <2>2. CASE Raises({"restore"}, "failed", 1) /\ Unwritten
    BY <1>3, <2>0, <2>2 DEF Unwritten, TypeOK
  <2>3. CASE /\ kind = "patch"
             /\ Raises({"restore"}, IF pos < Oldest THEN "restore" ELSE "failed", 1)
             /\ pos' = (IF pos < Oldest THEN pos + 1 ELSE 0)
             /\ UNCHANGED <<slot, recov, pre>>
    <3>1. PICK to : to = IF pos < Oldest THEN "restore" ELSE "failed"
      OBVIOUS
    <3>2. pos' \in 0..Depth + 2 /\ pc = "restore" /\ to \in Steps
      BY <2>0, <2>3, <3>1, SlotsAre DEF TypeOK, Oldest, Raises
    <3>3. QED
      BY <1>3, <2>0, <2>3, <3>1, <3>2 DEF TypeOK, Exact
  <2>4. QED
    BY <1>5, <2>1, <2>2, <2>3 DEF Unready
<1>6. QED
  BY <1>1, <1>2, <1>4, <1>5

LEMMA InitBase == Init => Base
<1> SUFFICES ASSUME Init
             PROVE  Base
  OBVIOUS
<1>1. PICK there \in SUBSET Slots :
         slot = [s \in Slots |-> IF s \in there THEN Entry(Version("old", s), 0) ELSE Absent]
  BY DEF Init
<1>2. \A s \in Slots : Entry(Version("old", s), 0) \in Entries
                       /\ Entry(Version("old", s), 0).val \in Versions
  BY BackupsAssumption DEF Entries, Entry, Version, Versions
<1>3. slot \in [Slots -> Entries \cup {Absent}] /\ TargetWhole
  BY <1>1, <1>2, SlotsAre, BackupsAssumption DEF TargetWhole, Content
<1>4. TypeOK
  <2>1. 0 \in 0..MaxOps /\ 0 \in 0..MaxTrouble /\ 0 \in 0..Depth + 2
    BY BackupsAssumption
  <2>2. pre \in [Slots -> Entries \cup {Absent}]
    BY DEF Init
  <2>3. QED
    BY <1>3, <2>1, <2>2 DEF Init, TypeOK, Kinds, Plain, Steps, Ended
<1>5. QED
  BY <1>3, <1>4 DEF Base, Init, PhaseOK, CaptureOK, Ended, Plain, PatchSteps

LEMMA NextBase ==
    ASSUME Base, [Next]_vars
    PROVE  Base'
<1>1. CASE UNCHANGED vars
  BY <1>1 DEF vars, Base, TypeOK, PhaseOK, CaptureOK, TargetWhole, Content, Had, There
<1>2. QED
  BY <1>1, StartBase, ExactBase, RollbackBase, SavingBase, TroubleBase DEF Next, Patching, Undoing

LEMMA BaseInvariance == Spec => []Base
BY InitBase, NextBase, PTL DEF Spec

\* The files, the sidecars and the call are always what they are said to be.
THEOREM TypeCorrect == Spec => []TypeOK
<1>1. Base => TypeOK
  BY DEF Base
<1>2. QED
  BY <1>1, BaseInvariance, PTL

\* A backup torn by a crash in shutil.copy2 never becomes the document, by an undo,
\* a rollback or any later call: undo_last_edit opens both files first.
THEOREM DocumentWhole == Spec => []TargetWhole
<1>1. Base => TargetWhole
  BY DEF Base
<1>2. QED
  BY <1>1, BaseInvariance, PTL

-----------------------------------------------------------------------------
(* The recoveries.                                                         *)

\* Where a call that wrote anything has preserved what it captured.
Saved == {"capture", "write", "readback", "target", "backup", "inspect", "restore", "restorebak"}

\* The sidecars of a call are those of what it captured, and they are dropped in
\* the order of their slots.
RecovOK ==
    /\ \A r \in recov : r.op <= op
    /\ pc \notin Ended =>
          IF kind \in Plain THEN Mine = {} ELSE Mine \subseteq Recoveries(pre, Slots)
    /\ pc \in Saved => Recoveries(pre, Slots) \subseteq recov
    /\ pc = "preserve" => Mine = {}
    /\ pc = "clean" =>
          \A r \in Recoveries(pre, Slots) : r \in recov \/ \A q \in Mine : q.slot > r.slot

\* The steps that leave captures and sidecars alone.
Calmly ==
    /\ UNCHANGED <<recov, pre, op, kind>>
    /\ pc \in Ended => pc' = pc
    /\ pc' \in Saved => pc \in Saved
    /\ pc' = "clean" => pc \in {"clean", "inspect"}
    /\ pc' = "preserve" => pc = "preserve"

Republishes == pc \in {"clean", "recheck"} /\ pc' = "restore" /\ Republish /\ UNCHANGED <<op, kind>>

LEMMA CalmSteps ==
    ASSUME Base, [Next]_vars
    PROVE  \/ \E k \in Kinds : Start(k)
           \/ Preserve \/ (CaptureSlots /\ slot[0] = pre[0]) \/ (Clean /\ Mine # {}) \/ CaptureAtSave
           \/ Republishes
           \/ Calmly
<1> USE DEF Calmly, Saved, Ended
<1>1. CASE CaptureSlots \/ WriteSlot \/ ReadBack
  BY <1>1 DEF CaptureSlots, WriteSlot, ReadBack, Moves, Goes, call
<1>2. CASE SwapTarget \/ SwapBackup \/ RestoreTarget \/ RestoreBackup
  BY <1>2 DEF SwapTarget, SwapBackup, RestoreTarget, RestoreBackup, Moves, Goes, call
<1>3. CASE Inspect \/ Clean \/ Restore
  BY <1>3 DEF Inspect, Clean, Restore, RestoreSlot, Moves, Goes, call
<1>4. CASE Recheck
  BY <1>4 DEF Recheck, Republishes, Moves, Goes, call
<1>5. CASE Saving
  BY <1>5 DEF Saving, UnlinkOldest, Rotate, Copy, Install, Moves, Goes, call
<1>6. CASE (\E v \in Foreign, s \in Slots : External(v, s)) \/ Crash \/ UNCHANGED vars
  BY <1>6 DEF External, Crash, vars
<1>7. CASE Fault
  BY <1>7 DEF Fault, Raises, Republishes, Republish, Unwritten, Rotating
<1>8. CASE Unready
  BY <1>8 DEF Unready, Raises, Unwritten
<1>9. QED
  BY <1>1, <1>2, <1>3, <1>4, <1>5, <1>6, <1>7, <1>8 DEF Next, Patching, Undoing

LEMMA InRecoveries ==
    ASSUME NEW f, NEW S
    PROVE  \A r : r \in Recoveries(f, S) <=>
              \E s \in S : f[s] # Absent /\ r = [slot |-> s, val |-> f[s].val, op |-> op]
BY DEF Recoveries

LEMMA NextRecov ==
    ASSUME Base, RecovOK, [Next]_vars
    PROVE  RecovOK'
<1>p. PICK R : R = Recoveries(pre, Slots)
  OBVIOUS
<1>0. \A r \in R : r.op = op /\ r.slot \in Slots /\ pre[r.slot] # Absent
                   /\ r = [slot |-> r.slot, val |-> pre[r.slot].val, op |-> op]
  BY <1>p, InRecoveries
<1>t. op \in Nat /\ pre \in [Slots -> Entries \cup {Absent}]
  BY DEF Base, TypeOK
<1>s. \A s \in Slots : s \in Nat
  BY SlotsAre
<1>1. CASE Calmly
  <2>1. Mine' = Mine /\ Recoveries(pre, Slots)' = R
    BY <1>1, <1>p DEF Calmly, Mine, Recoveries
  <2>2. QED
    BY <1>1, <1>p, <2>1 DEF Calmly, RecovOK, Ended, Saved
<1>2. CASE \E k \in Kinds : Start(k)
  <2>1. op' = op + 1 /\ recov' = recov /\ pc' \in {"unlink", "preserve", "failed"}
    BY <1>2 DEF Start
  <2>2. Mine' = {}
    BY <1>t, <2>1 DEF Mine, RecovOK
  <2>3. \A r \in recov' : r.op <= op'
    <3>1. \A r \in recov : r.op \in Nat
      BY DEF Base, TypeOK
    <3>2. QED
      BY <1>t, <2>1, <3>1 DEF RecovOK
  <2>4. QED
    BY <2>1, <2>2, <2>3 DEF RecovOK, Saved
<1>3. CASE Preserve
  <2>1. recov' = recov \cup Recoveries(pre, {0, 1}) /\ UNCHANGED <<pre, op, kind>>
        /\ pc = "preserve" /\ pc' \in {"target", "capture"}
    BY <1>3 DEF Preserve, Goes, call
  <2>2. kind \in Exact
    BY <2>1 DEF Base, PhaseOK, TypeOK, Kinds, Exact, Plain, Rotating, Ended
  <2>3. \A s \in Slots : Had(s) => s \in {0, 1}
    BY <1>s, <2>1, <2>2 DEF Base, CaptureOK, Ended, Exact
  <2>4. Recoveries(pre, {0, 1}) = R
    BY <1>p, <2>3, SlotsAre DEF Recoveries, Had
  <2>5. Mine' = R /\ Recoveries(pre, Slots)' = R
    BY <1>0, <1>p, <2>1, <2>4 DEF Mine, RecovOK, Recoveries
  <2>6. \A r \in recov' : r.op <= op'
    BY <1>0, <1>t, <2>1, <2>4 DEF RecovOK
  <2>7. QED
    BY <2>1, <2>2, <2>4, <2>5, <2>6 DEF RecovOK, Exact, Plain
<1>4. CASE CaptureSlots /\ slot[0] = pre[0]
  <2>1. /\ pc = "capture" /\ pc' = "write" /\ UNCHANGED <<op, kind>>
        /\ pre' = (IF Had(0) THEN slot ELSE pre)
        /\ recov' = recov \cup Recoveries(pre', Slots \ {0})
    BY <1>4 DEF CaptureSlots, Goes, call
  <2>2. PICK N : N = Recoveries(pre', Slots)
    OBVIOUS
  <2>3. pre'[0] = pre[0]
    BY <1>4, <2>1
  <2>4. kind \in Exact /\ \A s \in Slots : s > 0 => ~Had(s)
    BY <2>1 DEF Base, PhaseOK, CaptureOK, TypeOK, Kinds, Exact, Plain, Rotating, Ended, UndoSteps
  <2>5. R \subseteq N
    <3>1. \A r \in R : r.slot = 0
      BY <1>0, <1>s, <2>4 DEF Had
    <3>2. QED
      BY <1>0, <2>2, <2>3, <3>1, InRecoveries, SlotsAre
  <2>6. \A r \in N : r \in R \/ r \in Recoveries(pre', Slots \ {0})
    <3>1. \A r \in N : \E s \in Slots : pre'[s] # Absent /\ r = [slot |-> s, val |-> pre'[s].val, op |-> op]
      BY <2>2, InRecoveries
    <3>2. \A r : (\E s \in Slots \ {0} : pre'[s] # Absent
                                        /\ r = [slot |-> s, val |-> pre'[s].val, op |-> op])
                 => r \in Recoveries(pre', Slots \ {0})
      BY InRecoveries
    <3>3. \A r : (pre[0] # Absent /\ r = [slot |-> 0, val |-> pre[0].val, op |-> op]) => r \in R
      BY <1>p, InRecoveries, SlotsAre
    <3>4. QED
      BY <2>3, <3>1, <3>2, <3>3
  <2>7. Recoveries(pre', Slots \ {0}) \subseteq N /\ \A r \in N : r.op = op
    BY <2>2 DEF Recoveries
  <2>8. R \subseteq recov /\ Mine \subseteq R
    BY <1>p, <2>1, <2>4 DEF RecovOK, Saved, Ended, Exact, Plain
  <2>9. recov' = recov \cup N
    BY <2>1, <2>5, <2>6, <2>7, <2>8
  <2>10. Recoveries(pre, Slots)' = N
    BY <2>1, <2>2 DEF Recoveries
  <2>11. Mine' \subseteq N
    BY <2>1, <2>5, <2>8, <2>9 DEF Mine
  <2>12. \A r \in recov' : r.op <= op'
    BY <1>t, <2>1, <2>7, <2>9 DEF RecovOK
  <2>13. QED
    BY <2>1, <2>4, <2>9, <2>10, <2>11, <2>12 DEF RecovOK, Exact, Plain
<1>5. CASE Clean /\ Mine # {}
  <2>1. PICK r \in Mine : (\A q \in Mine : r.slot <= q.slot) /\ recov' = recov \ {r}
    BY <1>5 DEF Clean
  <2>2. pc = "clean" /\ pc' = "clean" /\ UNCHANGED <<pre, op, kind>>
    BY <1>5 DEF Clean, Goes, call
  <2>3. kind \in Exact
    BY <2>2 DEF Base, PhaseOK, TypeOK, Kinds, Exact, Plain, Rotating, Ended
  <2>4. Mine \subseteq R
    BY <1>p, <2>2, <2>3 DEF RecovOK, Ended, Exact, Plain
  <2>5. Mine' = Mine \ {r} /\ Recoveries(pre, Slots)' = R
    BY <1>p, <2>1, <2>2 DEF Mine, Recoveries
  <2>6. ASSUME NEW x \in R
        PROVE  x \in recov' \/ \A q \in Mine \ {r} : q.slot > x.slot
    <3>1. x \in recov \/ \A q \in Mine : q.slot > x.slot
      BY <1>p, <2>2 DEF RecovOK
    <3>2. CASE x # r
      BY <2>1, <3>1, <3>2
    <3>3. CASE x = r
      <4>1. \A q \in Mine \ {r} : q.slot \in Nat /\ q.slot # r.slot
        BY <1>0, <1>s, <2>1, <2>4
      <4>2. r.slot \in Nat
        BY <1>0, <1>s, <2>1, <2>4
      <4>3. QED
        BY <2>1, <3>3, <4>1, <4>2
    <3>4. QED
      BY <3>2, <3>3
  <2>7. QED
    BY <2>1, <2>2, <2>3, <2>4, <2>5, <2>6 DEF RecovOK, Saved, Exact, Plain
<1>6. CASE CaptureAtSave
  <2>1. UNCHANGED <<recov, op, kind>> /\ pc = "save" /\ pc' \in {"again", "install"}
    BY <1>6 DEF CaptureAtSave, Goes, call
  <2>2. kind \in Plain
    BY <2>1 DEF Base, PhaseOK, TypeOK, Kinds, PatchSteps, UndoSteps, Exact, Ended
  <2>3. Mine' = Mine /\ Mine = {}
    BY <2>1, <2>2 DEF Mine, RecovOK, Ended
  <2>4. QED
    BY <2>1, <2>2, <2>3 DEF RecovOK, Saved
<1>7. CASE Republishes
  <2>1. recov' = recov \cup R /\ UNCHANGED <<pre, op, kind>> /\ pc \in {"clean", "recheck"}
        /\ pc' = "restore"
    BY <1>7, <1>p DEF Republishes, Republish
  <2>2. kind \in Exact
    BY <2>1 DEF Base, PhaseOK, TypeOK, Kinds, Exact, Plain, Rotating, Ended
  <2>3. Mine \subseteq R
    BY <1>p, <2>1, <2>2 DEF RecovOK, Ended, Exact, Plain
  <2>4. Mine' \subseteq R /\ Recoveries(pre, Slots)' = R
    BY <1>p, <2>1, <2>3 DEF Mine, Recoveries
  <2>5. \A r \in recov' : r.op <= op'
    BY <1>0, <1>t, <2>1 DEF RecovOK
  <2>6. QED
    BY <2>1, <2>2, <2>4, <2>5 DEF RecovOK, Exact, Plain
<1>8. QED
  BY <1>1, <1>2, <1>3, <1>4, <1>5, <1>6, <1>7, CalmSteps

-----------------------------------------------------------------------------
(* The versions of external writers.                                       *)

Outside(w) == Entry(Version("foreign", w), 0)

\* What has not been written yet is nowhere, so a file written during a call is
\* told from everything the call captured.
NotYet ==
    \A w \in Foreign \ written, s \in Slots : slot[s] # Outside(w) /\ pre[s] # Outside(w)

\* What a step puts into a slot and into a capture.
Puts(s) ==
    \/ slot'[s] \in {slot[t] : t \in Slots} \cup {Absent}
    \/ slot'[s] # Absent /\ slot'[s].op > 0
    \/ \E w \in written' \ written : slot'[s] = Outside(w)

LEMMA OursOp ==
    ASSUME Base, op > 0, NEW v
    PROVE  Ours(v).op = op /\ Ours(v).op > 0 /\ Ours(v).val = v
BY DEF Ours, Entry

\* An entry of our own is not Absent.
LEMMA OursThere ==
    ASSUME Base, NEW v \in Versions \cup {Torn}
    PROVE  Ours(v) # Absent
BY Typed DEF Base

LEMMA PutSteps ==
    ASSUME Base, [Next]_vars
    PROVE  /\ \A s \in Slots : Puts(s)
           /\ \A s \in Slots : pre'[s] \in {pre[s], slot[s], Absent}
           /\ written \subseteq written'
<1>0. slot \in [Slots -> Entries \cup {Absent}] /\ pre \in [Slots -> Entries \cup {Absent}]
      /\ (pc \notin Ended => op > 0)
  BY DEF Base, TypeOK, PhaseOK
<1>1. ASSUME NEW t \in Slots, NEW v \in Versions \cup {Torn}, slot' = slot \/ Writes(t, Ours(v)),
             pc \notin Ended
      PROVE  \A s \in Slots : Puts(s)
  BY <1>0, <1>1, OursOp, OursThere DEF Puts, Writes
<1>2. ASSUME NEW t \in Slots, NEW e \in Entries \cup {Absent}, slot' = slot \/ Writes(t, e),
             e # Absent => e.op > 0
      PROVE  \A s \in Slots : Puts(s)
  BY <1>0, <1>2 DEF Puts, Writes
<1>3. ASSUME slot' = slot
      PROVE  \A s \in Slots : Puts(s)
  BY <1>3 DEF Puts
<1>4. CASE \E k \in Kinds : Start(k)
  BY <1>3, <1>4 DEF Start
<1>5. CASE Preserve \/ CaptureSlots \/ ReadBack \/ Inspect \/ Clean \/ Recheck \/ CaptureAtSave
  BY <1>0, <1>3, <1>5 DEF Preserve, CaptureSlots, ReadBack, Inspect, Clean, Recheck, CaptureAtSave,
     Moves, Goes, Republish, call
<1>6. CASE WriteSlot \/ SwapTarget \/ SwapBackup
  <2>1. UNCHANGED <<pre, written>> /\ pc \in {"write", "target", "backup"}
    BY <1>6 DEF WriteSlot, SwapTarget, SwapBackup, Moves, Goes, call
  <2>2. pc \notin Ended /\ kind \in Exact
    BY <2>1 DEF Base, PhaseOK, TypeOK, Kinds, Exact, Plain, Rotating, Ended
  <2>3. slot' = slot \/ \E t \in Mutated : Writes(t, Result(t))
    <3>1. pc \in {"target", "backup"} => {0, 1} \subseteq Mutated
      BY <2>2 DEF Base, PhaseOK, PatchSteps, Ended, Exact, Mutated
    <3>2. QED
      BY <1>6, <3>1 DEF WriteSlot, SwapTarget, SwapBackup, Moves
  <2>4. CASE \E t \in Mutated : Writes(t, Result(t))
    <3>1. PICK t \in Mutated : Writes(t, Result(t))
      BY <2>4
    <3>2. PICK e : e = Result(t)
      OBVIOUS
    <3>3. t \in Slots /\ e \in Entries \cup {Absent} /\ (e # Absent => e.op > 0)
      BY <1>0, <2>2, <3>2, Wants, OursOp
    <3>4. QED
      BY <1>2, <2>1, <3>1, <3>2, <3>3
  <2>5. QED
    BY <1>3, <2>1, <2>3, <2>4
<1>7. CASE Restore \/ RestoreTarget \/ RestoreBackup
  <2>1. UNCHANGED <<pre, written>> /\ pc \in {"restore", "restorebak"}
    BY <1>7 DEF Restore, RestoreSlot, RestoreTarget, RestoreBackup, Moves, Goes, call
  <2>2. pc \notin Ended /\ kind \in Exact
    BY <2>1 DEF Base, PhaseOK, TypeOK, Kinds, Exact, Plain, Rotating, Ended
  <2>3. \/ slot' = slot
        \/ \E t \in Mutated : Writes(t, IF Had(t) THEN Ours(pre[t].val) ELSE Absent)
    <3>1. CASE Restore
      BY <3>1 DEF Restore, RestoreSlot
    <3>2. CASE RestoreTarget \/ RestoreBackup
      <4>1. kind = "undo" /\ Had(0) /\ Had(1)
        BY <2>2, <3>2 DEF RestoreTarget, RestoreBackup, Base, PhaseOK, CaptureOK, PatchSteps, Ended, Exact
      <4>2. 0 \in Mutated /\ 1 \in Mutated
        BY <4>1 DEF Mutated
      <4>3. slot' = slot \/ Writes(0, Ours(pre[0].val)) \/ Writes(1, Ours(pre[1].val))
        BY <3>2 DEF RestoreTarget, RestoreBackup, Moves
      <4>4. QED
        BY <4>1, <4>2, <4>3
    <3>3. QED
      BY <1>7, <3>1, <3>2
  <2>4. CASE \E t \in Mutated : Writes(t, IF Had(t) THEN Ours(pre[t].val) ELSE Absent)
    <3>1. PICK t \in Mutated : Writes(t, IF Had(t) THEN Ours(pre[t].val) ELSE Absent)
      BY <2>4
    <3>2. PICK e : e = IF Had(t) THEN Ours(pre[t].val) ELSE Absent
      OBVIOUS
    <3>3. t \in Slots
      BY <2>2, Wants
    <3>4. e \in Entries \cup {Absent} /\ (e # Absent => e.op > 0)
      BY <1>0, <2>2, <3>2, <3>3, Typed, OursOp DEF Base
    <3>5. QED
      BY <1>2, <2>1, <3>1, <3>2, <3>3, <3>4
  <2>5. QED
    BY <1>3, <2>1, <2>3, <2>4
<1>8. CASE UnlinkOldest
  <2>1. Writes(Oldest, Absent) /\ UNCHANGED <<pre, written>>
    BY <1>8 DEF UnlinkOldest, Goes, call
  <2>2. QED
    BY <1>2, <2>1, SlotsAre
<1>9. CASE Rotate
  <2>1. UNCHANGED <<pre, written>> /\ pos \in 1 .. Depth
    BY <1>9 DEF Rotate, Goes, call, Base, PhaseOK
  <2>2. pos \in Slots /\ pos + 1 \in Slots
    BY <2>1, SlotsAre
  <2>3. QED
    BY <1>0, <1>9, <2>1, <2>2 DEF Rotate, Puts
<1>10. ASSUME NEW from, NEW during, NEW to, Copy(from, during, to), pc \in Rotating
       PROVE  (\A s \in Slots : Puts(s)) /\ UNCHANGED <<pre, written>>
  <2>1. UNCHANGED <<pre, written>>
    BY <1>10 DEF Copy, Goes, call
  <2>2. There(0) /\ pc \notin Ended
    BY <1>10 DEF Base, PhaseOK, CaptureOK, TypeOK, Kinds, PatchSteps, UndoSteps, Exact, Ended, Rotating
  <2>3. slot[0].val \in Versions \cup {Torn}
    BY <2>2, Typed, SlotsAre DEF Base
  <2>4. slot' = slot \/ Writes(1, Ours(Torn)) \/ Writes(1, Ours(slot[0].val))
    BY <1>10 DEF Copy
  <2>5. QED
    BY <1>1, <2>1, <2>2, <2>3, <2>4, SlotsAre
<1>11. CASE Copy("copy", "copying", "save") \/ Copy("again", "recopying", "install")
  <2>1. pc \in Rotating
    BY <1>11 DEF Copy, Rotating
  <2>2. QED
    BY <1>10, <1>11, <2>1
<1>12. CASE Install
  <2>1. UNCHANGED <<pre, written>> /\ pc \notin Ended /\ (slot' = slot \/ Writes(0, Ours(New)))
    BY <1>12 DEF Install, Moves, Goes, call, Ended
  <2>2. New \in Versions
    BY <1>0, <2>1, Typed DEF Base
  <2>3. QED
    BY <1>1, <2>1, <2>2, SlotsAre
<1>13. CASE \E v \in Foreign, s \in Slots : External(v, s)
  BY <1>0, <1>13 DEF External, Writes, Puts, Outside
<1>14. CASE Crash \/ Fault \/ Unready \/ UNCHANGED vars
  BY <1>3, <1>14 DEF Crash, Fault, Unready, Raises, Unwritten, Republish, vars
<1>15. QED
  BY <1>4, <1>5, <1>6, <1>7, <1>8, <1>9, <1>11, <1>12, <1>13, <1>14
     DEF Next, Patching, Undoing, Saving

LEMMA NextNotYet ==
    ASSUME Base, NotYet, [Next]_vars
    PROVE  NotYet'
<1>1. SUFFICES ASSUME NEW w \in Foreign \ written', NEW s \in Slots
               PROVE  slot'[s] # Outside(w) /\ pre'[s] # Outside(w)
  BY DEF NotYet, Outside, Entry, Version
<1>2. w \notin written /\ Outside(w).op = 0 /\ \A v \in Foreign : Outside(v) = Outside(w) => v = w
  BY <1>1, PutSteps DEF Outside, Entry, Version
<1>3. Outside(w) # Absent
  BY Typed, BackupsAssumption DEF Outside, Base
<1>4. written' \subseteq Foreign
  BY NextBase DEF Base, TypeOK
<1>5. Puts(s) /\ pre'[s] \in {pre[s], slot[s], Absent}
  BY PutSteps
<1>6. \A t \in Slots : slot[t] # Outside(w) /\ pre[t] # Outside(w)
  BY <1>1, <1>2 DEF NotYet
<1>7. QED
  BY <1>1, <1>2, <1>3, <1>4, <1>5, <1>6 DEF Puts

LEMMA InitRecov == Init => RecovOK /\ NotYet
<1> SUFFICES ASSUME Init
             PROVE  RecovOK /\ NotYet
  OBVIOUS
<1>1. RecovOK
  BY DEF Init, RecovOK, Ended, Saved
<1>2. Base
  BY InitBase
<1>3. \A s \in Slots : slot[s] = Absent \/ slot[s].val.kind = "old"
  BY DEF Init, Entry, Version
<1>4. \A w \in Foreign : Outside(w).val.kind = "foreign" /\ Outside(w) # Absent
  BY <1>2, Typed, BackupsAssumption DEF Base, Outside, Entry, Version
<1>5. QED
  BY <1>1, <1>3, <1>4 DEF Init, NotYet

-----------------------------------------------------------------------------
(* The rotation by name of the plain saves.                                *)

\* While no other writer interferes: up to the slot the rotation is at the files are
\* as they were, and above it each has moved up by one.
RotationOK ==
    pc \in Rotating /\ ~touched =>
        /\ slot[0] = pre[0]
        /\ pc = "unlink" => slot = pre
        /\ pc = "rotate" =>
              /\ \A s \in Slots : s <= pos => slot[s] = pre[s]
              /\ slot[pos + 1] = Absent
              /\ \A s \in Slots : s > pos + 1 => slot[s] = pre[s - 1]
        /\ pc \notin {"unlink", "rotate"} => \A s \in Slots : s > 1 => slot[s] = pre[s - 1]
        /\ pc = "copy" => slot[1] = Absent
        /\ pc \in {"copying", "recopying"} => slot[1] = Ours(Torn)
        /\ pc \in {"save", "again", "install"} => slot[1] = Ours(slot[0].val)

\* Whatever others write: once the copy is begun the backup is the call's, unless an
\* external writer has taken its name.
Overtaken == touched /\ Fresh(1)
CopyOK ==
    /\ pc \in {"copying", "recopying"} => slot[1] = Ours(Torn) \/ Overtaken
    /\ pc \in {"save", "again", "install"} => (There(1) /\ slot[1].op = op) \/ Overtaken
    /\ kind = "tool" /\ pc = "install" /\ slot[0] = pre[0] =>
          slot[1] = Ours(slot[0].val) \/ Overtaken

LEMMA RotatingSteps ==
    ASSUME Base, [Next]_vars, pc' \in Rotating
    PROVE  \/ \E k \in Plain : Start(k) /\ pc' = "unlink"
           \/ pc \in Rotating /\ Saving /\ UNCHANGED <<op, kind, touched>>
           \/ pc \in Rotating /\ (\E v \in Foreign, s \in Slots : External(v, s))
           \/ UNCHANGED vars
<1> USE DEF Rotating
<1>1. CASE \E k \in Kinds : Start(k)
  BY <1>1 DEF Start
<1>2. CASE Preserve \/ Inspect \/ Clean \/ Recheck \/ Patching \/ Undoing
  BY <1>2 DEF Preserve, Inspect, Clean, Recheck, Patching, Undoing, CaptureSlots, WriteSlot,
     ReadBack, Restore, RestoreSlot, SwapTarget, SwapBackup, RestoreTarget, RestoreBackup,
     Moves, Goes, Republish
<1>3. CASE Saving
  BY <1>3 DEF Saving, UnlinkOldest, Rotate, Copy, CaptureAtSave, Install, Moves, Goes, call
<1>4. CASE \E v \in Foreign, s \in Slots : External(v, s)
  BY <1>4 DEF External
<1>5. CASE Crash \/ Fault \/ Unready
  BY <1>5 DEF Crash, Fault, Unready, Raises
<1>6. QED
  BY <1>1, <1>2, <1>3, <1>4, <1>5 DEF Next

LEMMA OpensPlain ==
    ASSUME Base, NEW k \in Plain, Start(k), pc' = "unlink"
    PROVE  slot' = pre' /\ slot' = slot
<1>1. slot' = slot /\ pre' = [s \in Slots |-> slot[s]]
  BY DEF Start, Captures, Plain
<1>2. QED
  BY <1>1 DEF Base, TypeOK

\* The two halves of shutil.copy2.
LEMMA CopySteps ==
    ASSUME Base, CopyOK, RotationOK, pc \in Rotating, NEW from, NEW during, NEW to,
           Copy(from, during, to), UNCHANGED <<op, kind, touched>>,
           <<from, during, to>> \in {<<"copy", "copying", "save">>, <<"again", "recopying", "install">>}
    PROVE  CopyOK' /\ RotationOK'
<1>0. slot \in [Slots -> Entries \cup {Absent}] /\ 0 \in Slots /\ 1 \in Slots
  BY SlotsAre DEF Base, TypeOK
<1>1. UNCHANGED <<pre, pos>> /\ There(0)
  BY DEF Copy, Goes, Base, PhaseOK, CaptureOK, TypeOK, Kinds, PatchSteps, UndoSteps, Exact, Ended,
     Rotating
<1>2. slot[0].val \in Versions \cup {Torn}
  BY <1>0, <1>1, Typed DEF Base
<1>3. CASE pc = from
  <2>1. pc' = during /\ slot'[1] = Ours(Torn) /\ \A s \in Slots : s # 1 => slot'[s] = slot[s]
    BY <1>0, <1>3 DEF Copy, Goes, Writes
  <2>2. Ours(Torn)' = Ours(Torn)
    BY DEF Ours
  <2>3. CopyOK'
    BY <2>1, <2>2 DEF CopyOK
  <2>4. RotationOK'
    BY <1>0, <1>1, <1>3, <2>1, <2>2, SlotsAre DEF RotationOK
  <2>5. QED
    BY <2>3, <2>4
<1>4. CASE pc = during
  <2>1. pc' = to /\ \A s \in Slots : s # 1 => slot'[s] = slot[s]
    BY <1>0, <1>3, <1>4 DEF Copy, Goes, Writes
  <2>2. CASE slot[1] = Ours(Torn)
    <3>1. slot'[1] = Ours(slot[0].val)
      BY <1>0, <1>4, <2>2 DEF Copy, Writes
    <3>2. slot'[1] # Absent /\ slot'[1].op = op'
      BY <1>2, <3>1, Typed DEF Base
    <3>3. slot'[1] = Ours(slot[0].val)'
      BY <1>0, <2>1, <3>1 DEF Ours
    <3>4. CopyOK'
      BY <2>1, <3>2, <3>3 DEF CopyOK, There
    <3>5. RotationOK'
      BY <1>0, <1>1, <1>4, <2>1, <3>3, SlotsAre DEF RotationOK
    <3>6. QED
      BY <3>4, <3>5
  <2>3. CASE slot[1] # Ours(Torn)
    <3>1. slot'[1] = slot[1] /\ Overtaken
      BY <1>4, <2>3 DEF Copy, CopyOK
    <3>2. Overtaken'
      BY <1>1, <3>1 DEF Overtaken, Fresh, There
    <3>3. QED
      BY <2>1, <3>2 DEF CopyOK, RotationOK, Overtaken
  <2>4. QED
    BY <2>2, <2>3
<1>5. QED
  BY <1>3, <1>4 DEF Copy

LEMMA NextPlain ==
    ASSUME Base, NotYet, CopyOK, RotationOK, [Next]_vars
    PROVE  CopyOK' /\ RotationOK'
<1>0. /\ slot \in [Slots -> Entries \cup {Absent}] /\ pre \in [Slots -> Entries \cup {Absent}]
      /\ 0 \in Slots /\ 1 \in Slots
  BY SlotsAre DEF Base, TypeOK
<1>1. CASE pc' \notin Rotating
  BY <1>1 DEF CopyOK, RotationOK, Rotating
<1>2. CASE \E k \in Plain : Start(k) /\ pc' = "unlink"
  BY <1>2, OpensPlain DEF CopyOK, RotationOK
<1>3. CASE pc \in Rotating /\ Saving /\ UNCHANGED <<op, kind, touched>>
  <2>1. CASE UnlinkOldest
    <3>1. pc = "unlink" /\ pc' = "rotate" /\ pos' = Depth /\ pre' = pre
          /\ slot'[Depth + 1] = Absent /\ \A s \in Slots : s # Depth + 1 => slot'[s] = slot[s]
      BY <1>0, <2>1, SlotsAre DEF UnlinkOldest, Goes, Writes, Oldest
    <3>2. ~touched => slot = pre
      BY <3>1, <1>3 DEF RotationOK
    <3>3. QED
      BY <1>3, <3>1, <3>2, SlotsAre DEF CopyOK, RotationOK, Oldest
  <2>2. CASE Rotate
    <3>1. /\ pc = "rotate" /\ pos \in 1 .. Depth /\ pos' = pos - 1 /\ pre' = pre
          /\ pc' = (IF pos > 1 THEN "rotate" ELSE "copy")
          /\ slot' = IF There(pos) THEN [slot EXCEPT ![pos + 1] = slot[pos], ![pos] = Absent] ELSE slot
      BY <2>2 DEF Rotate, Goes, Base, PhaseOK
    <3>2. pos \in Slots /\ pos + 1 \in Slots
      BY <3>1, SlotsAre
    <3>3. /\ slot'[pos] = Absent
          /\ ~touched => slot'[pos + 1] = slot[pos]
          /\ \A s \in Slots : s # pos /\ s # pos + 1 => slot'[s] = slot[s]
      BY <1>0, <1>3, <3>1, <3>2 DEF There, RotationOK
    <3>4. CopyOK'
      BY <3>1 DEF CopyOK
    <3>5. SUFFICES ASSUME ~touched
                   PROVE  RotationOK'
      BY <1>3, <3>4 DEF RotationOK
    <3>6. /\ \A s \in Slots : s <= pos => slot[s] = pre[s]
          /\ \A s \in Slots : s > pos + 1 => slot[s] = pre[s - 1]
          /\ slot[0] = pre[0]
      BY <1>3, <3>1, <3>5 DEF RotationOK
    <3>7. \A s \in Slots : s <= pos' => slot'[s] = pre'[s]
      <4>1. SUFFICES ASSUME NEW s \in Slots, s <= pos'
                     PROVE  slot'[s] = pre'[s]
        OBVIOUS
      <4>2. s \in Nat /\ s <= pos /\ s # pos /\ s # pos + 1
        BY <3>1, <4>1, SlotsAre
      <4>3. slot'[s] = slot[s] /\ slot[s] = pre[s]
        BY <3>3, <3>6, <4>2
      <4>4. QED
        BY <3>1, <4>3
    <3>8. \A s \in Slots : s > pos => slot'[s] = pre'[s - 1]
      <4>1. SUFFICES ASSUME NEW s \in Slots, s > pos
                     PROVE  slot'[s] = pre'[s - 1]
        OBVIOUS
      <4>2. CASE s = pos + 1
        BY <3>1, <3>2, <3>3, <3>5, <3>6, <4>2
      <4>3. CASE s > pos + 1
        <5>1. s # pos /\ s # pos + 1
          BY <3>1, <4>3, SlotsAre
        <5>2. slot'[s] = slot[s] /\ slot[s] = pre[s - 1]
          BY <3>3, <3>6, <4>3, <5>1
        <5>3. QED
          BY <3>1, <5>2
      <4>4. QED
        BY <3>1, <4>1, <4>2, <4>3, SlotsAre
    <3>9. slot'[pos' + 1] = Absent /\ slot'[0] = pre'[0] /\ pos' + 1 = pos
      BY <1>0, <3>1, <3>3, <3>7, SlotsAre
    <3>10. pc' = "copy" => pos = 1
      BY <3>1
    <3>11. QED
      BY <3>1, <3>3, <3>7, <3>8, <3>9, <3>10 DEF RotationOK
  <2>3. CASE Copy("copy", "copying", "save") \/ Copy("again", "recopying", "install")
    BY <1>3, <2>3, CopySteps
  <2>4. CASE CaptureAtSave
    <3>1. /\ pc = "save" /\ pc' = (IF kind = "tool" THEN "again" ELSE "install") /\ slot' = slot
          /\ pre'[0] = slot[0] /\ \A s \in Slots : s # 0 => pre'[s] = pre[s]
      BY <1>0, <2>4 DEF CaptureAtSave, Goes
    <3>2. Ours(slot[0].val)' = Ours(slot[0].val)
      BY <1>3, <3>1 DEF Ours
    <3>3. CopyOK'
      BY <1>0, <1>3, <3>1 DEF CopyOK, Overtaken, Fresh, There
    <3>4. RotationOK'
      BY <1>0, <1>3, <3>1, <3>2, SlotsAre DEF RotationOK
    <3>5. QED
      BY <3>3, <3>4
  <2>5. CASE Install
    BY <2>5 DEF Install, Moves, Goes, CopyOK, RotationOK, Rotating
  <2>6. QED
    BY <1>3, <2>1, <2>2, <2>3, <2>4, <2>5 DEF Saving
<1>4. ASSUME pc \in Rotating, NEW v \in Foreign, NEW s \in Slots, External(v, s)
      PROVE  CopyOK' /\ RotationOK'
  <2>1. /\ touched' = TRUE /\ UNCHANGED <<op, kind, pc, pre, pos>> /\ v \notin written
        /\ slot'[s] = Outside(v) /\ \A t \in Slots : t # s => slot'[t] = slot[t]
    BY <1>0, <1>4 DEF External, Writes, Outside, Rotating, Ended
  <2>2. Outside(v) # pre[s] /\ Outside(v) # Absent /\ Outside(v).op # op
    BY <1>4, <2>1, Typed, BackupsAssumption DEF NotYet, Base, PhaseOK, Outside, Entry, Rotating, Ended
  <2>3. s = 1 => Overtaken'
    BY <2>1, <2>2 DEF Overtaken, Fresh, There
  <2>4. s # 1 => slot'[1] = slot[1] /\ (Overtaken => Overtaken')
    BY <1>0, <2>1 DEF Overtaken, Fresh, There
  <2>5. s = 0 => slot'[0] # pre'[0]
    BY <2>1, <2>2
  <2>6. s # 0 => slot'[0] = slot[0]
    BY <1>0, <2>1
  <2>7. CopyOK'
    BY <2>1, <2>3, <2>4, <2>5, <2>6 DEF CopyOK, Ours, There
  <2>8. QED
    BY <2>1, <2>7 DEF RotationOK
<1>5. CASE UNCHANGED vars
  <2>1. CopyOK'
    BY <1>5 DEF vars, CopyOK, Overtaken, Fresh, There, Ours
  <2>2. RotationOK'
    BY <1>5 DEF vars, RotationOK, Ours
  <2>3. QED
    BY <2>1, <2>2
<1>6. QED
  BY <1>1, <1>2, <1>3, <1>4, <1>5, RotatingSteps

LEMMA InitPlain == Init => CopyOK /\ RotationOK
BY DEF Init, CopyOK, RotationOK, Rotating

\* What a version has to do to be kept.
LEMMA KeptIn ==
    ASSUME Base, NEW v \in Versions
    PROVE  /\ \A s \in Slots : slot[s] # Absent /\ slot[s].val = v => v \in Held(slot)
           /\ \A r \in recov : r.val = v => v \in Kept
           /\ Held(slot) \subseteq Kept
BY BackupsAssumption DEF Held, Content, Kept

LEMMA ChangingSteps ==
    ASSUME Base, [Next]_vars, written' = written
    PROVE  \/ slot' = slot
           \/ WriteSlot \/ SwapTarget \/ SwapBackup
           \/ Restore \/ RestoreTarget \/ RestoreBackup
           \/ Saving
<1>1. CASE \E v \in Foreign, s \in Slots : External(v, s)
  BY <1>1 DEF External
<1>2. QED
  BY <1>1 DEF Next, Start, Preserve, Inspect, Clean, Recheck, Patching, Undoing, CaptureSlots,
     ReadBack, Moves, Republish, Crash, Fault, Unready, Raises, Unwritten, vars

\* A slot that a call is about to write holds what it captured, and that is preserved.
LEMMA CapturedIsKept ==
    ASSUME Base, RecovOK, [Next]_vars, NEW s \in Slots, pc \in Saved, recov' = recov,
           slot[s] = pre[s], slot[s] # Absent, slot[s].val # Torn
    PROVE  slot[s].val \in Kept'
<1>1. PICK r : r = [slot |-> s, val |-> pre[s].val, op |-> op]
  OBVIOUS
<1>2. r \in recov /\ r.val = slot[s].val
  BY <1>1, InRecoveries DEF RecovOK
<1>3. QED
  BY <1>2 DEF Kept

LEMMA StillThere ==
    ASSUME Base, [Next]_vars, NEW s \in Slots, NEW t \in Slots, slot[s] # Absent, slot[s].val # Torn,
           slot'[t] # Absent, slot'[t].val = slot[s].val
    PROVE  slot[s].val \in Kept'
<1>1. PICK v \in Versions : v = slot[s].val
  BY Typed DEF Base, There
<1>2. v \in Held(slot')
  BY <1>1, BackupsAssumption DEF Held, Content
<1>3. QED
  BY <1>1, <1>2 DEF Kept, Held, Content

\* Nothing is overwritten that is not the call's own, preserved, or excused.
LEMMA Tramples ==
    ASSUME Base, RecovOK, CopyOK, RotationOK, [Next]_vars, written' = written,
           NEW s \in Slots, slot[s] # Absent, slot[s].op # op, slot[s].val # Torn
    PROVE  \/ slot[s].val \in Kept'
           \/ kind \in Plain /\ pc = "unlink" /\ s = Oldest
           \/ kind \in Plain /\ touched /\ (s > 0 \/ kind = "edit" \/ Fresh(1))
<1>0. slot \in [Slots -> Entries \cup {Absent}] /\ 0 \in Slots /\ 1 \in Slots /\ s \in Nat
  BY SlotsAre DEF Base, TypeOK
<1>1. CASE slot'[s] = slot[s]
  BY <1>1, StillThere
<1>2. CASE slot' = slot
  BY <1>1, <1>2
<1>3. CASE WriteSlot \/ SwapTarget \/ SwapBackup
  <2>1. pc \in Saved /\ recov' = recov
    BY <1>3 DEF WriteSlot, SwapTarget, SwapBackup, Moves, Goes, Saved
  <2>2. slot'[s] = slot[s] \/ slot[s] = pre[s]
    BY <1>0, <1>3 DEF WriteSlot, SwapTarget, SwapBackup, Moves, Writes
  <2>3. QED
    BY <1>1, <2>1, <2>2, CapturedIsKept
<1>4. CASE Restore \/ RestoreTarget \/ RestoreBackup
  <2>1. pc \notin Ended /\ kind \in Exact /\ pc \in {"restore", "restorebak"}
    BY <1>4 DEF Restore, RestoreSlot, RestoreTarget, RestoreBackup, Base, PhaseOK, TypeOK, Kinds,
       Exact, Plain, Rotating, Ended
  <2>2. slot'[s] = slot[s] \/ (s \in Mutated /\ Owned(s))
    <3>1. CASE Restore
      BY <1>0, <3>1 DEF Restore, RestoreSlot, Writes
    <3>2. CASE RestoreTarget \/ RestoreBackup
      <4>1. kind = "undo" /\ 0 \in Mutated /\ 1 \in Mutated /\ pos \in {0, 1}
        BY <2>1, <3>2 DEF Mutated, RestoreTarget, RestoreBackup, Base, PhaseOK, PatchSteps, Exact, Ended
      <4>2. AllOwned(0) => Owned(0)
        BY <4>1 DEF AllOwned
      <4>3. QED
        BY <1>0, <3>2, <4>1, <4>2 DEF RestoreTarget, RestoreBackup, Moves, Writes
    <3>3. QED
      BY <1>4, <3>1, <3>2
  <2>3. s \in Mutated /\ Owned(s) => slot[s].op = op
    BY <2>1, Wants DEF Owned, Ours, Entry
  <2>4. QED
    BY <1>1, <2>2, <2>3
<1>5. CASE Saving
  <2>0. kind \in Plain /\ pc \in Rotating /\ op' = op
    BY <1>5 DEF Saving, UnlinkOldest, Rotate, Copy, CaptureAtSave, Install, Moves, Goes, call,
       Base, PhaseOK, TypeOK, Kinds, PatchSteps, UndoSteps, Exact, Ended, Rotating
  <2>1. CASE UnlinkOldest
    BY <1>0, <1>1, <2>0, <2>1 DEF UnlinkOldest, Writes
  <2>2. CASE Rotate
    <3>1. pos \in 1 .. Depth /\ pc = "rotate"
      BY <2>2 DEF Rotate, Base, PhaseOK
    <3>2. pos \in Slots /\ pos + 1 \in Slots /\ pos # pos + 1 /\ pos > 0 /\ pos + 1 > 0
      BY <3>1, SlotsAre
    <3>3. CASE s = pos
      <4>1. slot'[pos + 1] = slot[s] \/ slot'[s] = slot[s]
        BY <1>0, <2>2, <3>2, <3>3 DEF Rotate
      <4>2. QED
        BY <1>1, <3>2, <4>1, StillThere
    <3>4. CASE s = pos + 1
      <4>1. ~touched => slot[s] = Absent
        BY <2>0, <3>1, <3>4 DEF RotationOK
      <4>2. QED
        BY <2>0, <3>2, <3>4, <4>1
    <3>5. CASE s # pos /\ s # pos + 1
      BY <1>0, <1>1, <2>2, <3>2, <3>5 DEF Rotate
    <3>6. QED
      BY <3>3, <3>4, <3>5
  <2>3. CASE Copy("copy", "copying", "save") \/ Copy("again", "recopying", "install")
    <3>1. s # 1 => slot'[s] = slot[s]
      BY <1>0, <2>3 DEF Copy, Writes
    <3>2. SUFFICES ASSUME s = 1
                   PROVE  touched \/ slot'[s] = slot[s]
      BY <1>0, <1>1, <2>0, <3>1
    <3>3. slot[1] # Ours(Torn)
      BY <3>2, OursOp, Typed DEF Base, Ours, Entry
    <3>4. pc = "again" /\ ~touched => slot[1].op = op
      BY <2>0 DEF RotationOK, Ours, Entry
    <3>5. pc = "copy" /\ ~touched => slot[1] = Absent
      BY <2>0 DEF RotationOK
    <3>6. QED
      BY <2>3, <3>2, <3>3, <3>4, <3>5 DEF Copy
  <2>4. CASE CaptureAtSave
    BY <1>2, <2>4 DEF CaptureAtSave
  <2>5. CASE Install
    <3>1. pc = "install" /\ (slot'[s] = slot[s] \/ (s = 0 /\ slot[0] = pre[0])) /\ slot'[1] = slot[1]
      BY <1>0, <2>5 DEF Install, Moves, Writes
    <3>2. SUFFICES ASSUME s = 0, slot[0] = pre[0]
                   PROVE  slot[s].val \in Kept' \/ (touched /\ (kind = "edit" \/ Fresh(1)))
      BY <1>1, <2>0, <3>1
    <3>3. \/ slot[1] = Ours(slot[0].val)
          \/ touched /\ (kind = "edit" \/ Fresh(1))
      BY <2>0, <3>1, <3>2 DEF CopyOK, RotationOK, Overtaken, Plain
    <3>4. CASE slot[1] = Ours(slot[0].val)
      <4>1. slot[0].val \in Versions \cup {Torn}
        BY <1>0, <3>2, Typed DEF Base, There
      <4>2. Ours(slot[0].val) # Absent /\ Ours(slot[0].val).val = slot[0].val
        BY <4>1, Typed DEF Base
      <4>3. QED
        BY <1>0, <3>1, <3>2, <3>4, <4>2, StillThere
    <3>5. QED
      BY <3>3, <3>4
  <2>6. QED
    BY <1>5, <2>1, <2>2, <2>3, <2>4, <2>5 DEF Saving
<1>6. QED
  BY <1>2, <1>3, <1>4, <1>5, ChangingSteps

Sound == Base /\ RecovOK /\ NotYet /\ CopyOK /\ RotationOK

LEMMA SoundInvariance == Spec => []Sound
<1>1. Init => Sound
  BY InitBase, InitRecov, InitPlain DEF Sound
<1>2. Sound /\ [Next]_vars => Sound'
  BY NextBase, NextRecov, NextNotYet, NextPlain DEF Sound
<1>3. QED
  BY <1>1, <1>2, PTL DEF Spec

\* A version that another writer or an earlier call put there is never lost by the
\* call that replaces it: it is moved up, preserved, or was the call's own, but for
\* the oldest generation of a plain save and for backups that change under its
\* rotation by name.
THEOREM ForeignKept == Spec => NothingTrampled
<1>1. ASSUME Sound, [Next]_vars
      PROVE  [written' = written /\ op' = op =>
                \A s \in Slots :
                   \/ slot[s] = Absent \/ slot[s].op = op \/ slot[s].val \in Kept' \cup {Torn}
                   \/ kind \in Plain /\ pc = "unlink" /\ s = Oldest
                   \/ kind \in Plain /\ touched /\ (s > 0 \/ kind = "edit" \/ Fresh(1))]_vars
  BY <1>1, Tramples DEF Sound
<1>2. QED
  BY <1>1, SoundInvariance, PTL DEF Spec, NothingTrampled

-----------------------------------------------------------------------------
(* The exact calls.                                                        *)

As(s) == slot[s] = pre[s]
Back(s) == Content(slot[s]) = Content(pre[s])

\* A patch nobody interferes with: above the slot it is at the files are its own and
\* below it they are as they were; on the way back it is the other way round.
PatchOK ==
    kind = "patch" /\ ~touched /\ pc \notin Ended =>
        /\ pc \in {"preserve", "capture"} => As(0)
        /\ Had(0) /\ pc \notin {"preserve", "capture"} => \A s \in Slots \ Mutated : As(s)
        /\ pc = "write" => \A s \in Mutated : IF s > pos THEN Owned(s) ELSE As(s)
        /\ pc = "readback" => \A s \in Mutated : IF s >= pos THEN Owned(s) ELSE As(s)
        /\ pc \in {"inspect", "clean", "recheck"} => AllOwned(0)
        /\ pc = "restore" =>
              /\ trouble > 0
              /\ trouble <= 1 => \A s \in Mutated : IF s >= pos THEN Owned(s) ELSE Back(s)

UndoOK ==
    kind = "undo" /\ ~touched /\ pc \notin Ended =>
        /\ pc \in {"preserve", "target"} => As(0) /\ As(1)
        /\ pc = "backup" => Owned(0) /\ As(1)
        /\ pc \in {"inspect", "clean", "recheck"} => AllOwned(0)
        /\ pc = "restore" => trouble > 0 /\ Owned(0) /\ (IF pos = 1 THEN As(1) ELSE Owned(1))
        /\ pc = "restorebak" => trouble > 0 /\ Back(0) /\ Owned(1)

\* What a call owns goes by its captures.
LEMMA OwnedFrame ==
    ASSUME UNCHANGED <<pre, op, kind>>
    PROVE  /\ Mutated' = Mutated
           /\ \A s : Result(s)' = Result(s)
           /\ \A s : Owned(s)' <=> slot'[s] = Result(s)
           /\ \A s : Had(s)' <=> Had(s)
<1>1. \A s : Wanted(s)' = Wanted(s)
  BY DEF Wanted
<1>2. Mutated' = Mutated
  BY <1>1 DEF Mutated, Had
<1>3. \A s : Result(s)' = Result(s)
  BY <1>1 DEF Result, Ours
<1>4. QED
  BY <1>2, <1>3 DEF Owned, Had

LEMMA SameFiles ==
    ASSUME UNCHANGED <<pre, op, kind, slot>>
    PROVE  /\ Mutated' = Mutated
           /\ \A s : (Owned(s)' <=> Owned(s)) /\ (As(s)' <=> As(s)) /\ (Back(s)' <=> Back(s))
           /\ AllOwned(0)' <=> AllOwned(0)
           /\ \A s : Had(s)' <=> Had(s)
BY OwnedFrame DEF Owned, As, Back, AllOwned, Content

LEMMA UndoMutates ==
    ASSUME kind = "undo"
    PROVE  Mutated = {0, 1} /\ (AllOwned(0) <=> Owned(0) /\ Owned(1))
<1>1. Mutated = {0, 1}
  BY DEF Mutated
<1>2. QED
  BY <1>1 DEF AllOwned

LEMMA PatchNext ==
    ASSUME Base, PatchOK, [Next]_vars
    PROVE  PatchOK'
<1>0. /\ slot \in [Slots -> Entries \cup {Absent}] /\ pre \in [Slots -> Entries \cup {Absent}]
      /\ 0 \in Slots /\ 1 \in Slots /\ trouble \in Nat
  BY SlotsAre, BackupsAssumption DEF Base, TypeOK
<1>1. SUFFICES ASSUME kind' = "patch", ~touched', pc' \notin Ended
               PROVE  PatchOK'
  BY DEF PatchOK
<1>2. CASE \E k \in Kinds : Start(k)
  <2>1. pc' = "preserve" /\ slot' = slot /\ pre'[0] = slot[0]
    BY <1>0, <1>1, <1>2 DEF Start, Captures, Plain, Ended
  <2>2. QED
    BY <2>1 DEF PatchOK, As
<1>3. CASE Preserve
  <2>1. UNCHANGED <<slot, pre, op, kind, touched, trouble>> /\ pc = "preserve" /\ pc' = "capture"
    BY <1>1, <1>3 DEF Preserve, Goes, call
  <2>2. QED
    BY <1>1, <2>1 DEF PatchOK, As, Ended
<1>4. CASE CaptureSlots
  <2>1. /\ pc' = "write" /\ UNCHANGED <<slot, kind>> /\ slot[0] = pre[0] /\ pc = "capture"
        /\ pre' = (IF Had(0) THEN slot ELSE pre) /\ pos' = (IF Had(0) THEN Oldest ELSE 0)
    BY <1>1, <1>4 DEF CaptureSlots, Moves, Goes, Ended, call
  <2>2. CASE Had(0)
    <3>1. \A s \in Slots : As(s)'
      BY <2>1, <2>2 DEF As
    <3>2. \A s \in Mutated' : s \in Slots /\ ~(s > pos')
      BY <1>1, <2>1, <2>2, SlotsAre DEF Mutated
    <3>3. QED
      BY <2>1, <3>1, <3>2 DEF PatchOK
  <2>3. CASE ~Had(0)
    <3>1. Mutated' = {0} /\ ~Had(0)'
      BY <1>0, <1>1, <2>1, <2>3 DEF Mutated, Had
    <3>2. As(0)'
      BY <2>1, <2>3 DEF As
    <3>3. QED
      BY <2>1, <2>3, <3>1, <3>2 DEF PatchOK
  <2>4. QED
    BY <2>2, <2>3
<1>5. CASE WriteSlot
  <2>0. pc = "write" /\ UNCHANGED <<pre, op, kind, touched, trouble>> /\ kind = "patch"
    BY <1>1, <1>5 DEF WriteSlot, Moves, Goes, call
  <2>1. pos \in Slots /\ ~touched /\ pc \notin Ended
    BY <1>1, <2>0 DEF Base, PhaseOK, Ended
  <2>2. \A s \in Mutated : s \in Slots /\ IF s > pos THEN Owned(s) ELSE As(s)
    BY <2>0, <2>1, <1>1, Wants DEF PatchOK, Exact
  <2>3. /\ pc' = "readback" /\ pos' = pos
        /\ slot' = IF pos \in Mutated THEN [slot EXCEPT ![pos] = Result(pos)] ELSE slot
    <3>1. pos \in Mutated => slot[pos] = pre[pos]
      BY <2>1, <2>2, SlotsAre DEF As
    <3>2. QED
      BY <1>5, <3>1 DEF WriteSlot, Moves, Goes, Writes
  <2>4. \A s \in Mutated : IF s >= pos THEN Owned(s)' ELSE As(s)'
    <3>1. SUFFICES ASSUME NEW s \in Mutated
                   PROVE  IF s >= pos THEN slot'[s] = Result(s) ELSE slot'[s] = pre[s]
      BY <2>0, OwnedFrame DEF As
    <3>2. CASE s = pos
      BY <1>0, <2>1, <2>3, <3>1, <3>2, SlotsAre
    <3>3. CASE s # pos
      <4>1. slot'[s] = slot[s]
        BY <1>0, <2>3, <3>3
      <4>2. s \in Nat /\ pos \in Nat
        BY <2>1, <2>2, <3>1, SlotsAre
      <4>3. s >= pos <=> s > pos
        BY <3>3, <4>2
      <4>4. QED
        BY <2>2, <3>1, <4>1, <4>3 DEF Owned, As
    <3>4. QED
      BY <3>2, <3>3
  <2>5. Had(0) => \A s \in Slots \ Mutated : As(s)'
    BY <1>0, <1>1, <2>0, <2>1, <2>3 DEF PatchOK, As
  <2>6. QED
    BY <2>0, <2>3, <2>4, <2>5, OwnedFrame DEF PatchOK
<1>6. CASE ReadBack
  <2>0. pc = "readback" /\ UNCHANGED <<pre, op, kind, slot, touched, trouble>> /\ kind = "patch"
    BY <1>1, <1>6 DEF ReadBack, Moves, Goes, call
  <2>1. pos \in Slots /\ ~touched /\ pc \notin Ended
    BY <1>1, <2>0 DEF Base, PhaseOK, Ended
  <2>2. \A s \in Mutated : s \in Slots /\ IF s >= pos THEN Owned(s) ELSE As(s)
    BY <2>0, <2>1, <1>1, Wants DEF PatchOK, Exact
  <2>3. (pos \in Mutated => Owned(pos)) /\ (pos = 1 => AllOwned(1))
    BY <2>1, <2>2, SlotsAre DEF AllOwned
  <2>4. \/ pc' = "inspect" /\ pos = 0
        \/ pc' = "write" /\ pos # 0 /\ pos' = pos - 1
    BY <1>6, <2>3 DEF ReadBack, Goes
  <2>5. Had(0) => \A s \in Slots \ Mutated : As(s)
    BY <1>1, <2>0, <2>1 DEF PatchOK
  <2>6. CASE pos = 0
    <3>1. AllOwned(0)
      BY <2>2, <2>6, SlotsAre DEF AllOwned
    <3>2. QED
      BY <2>0, <2>4, <2>5, <2>6, <3>1, SameFiles DEF PatchOK
  <2>7. CASE pos # 0
    <3>1. \A s \in Mutated : IF s > pos' THEN Owned(s) ELSE As(s)
      <4>1. pos \in Nat /\ \A s \in Mutated : s \in Nat
        BY <2>1, <2>2, SlotsAre
      <4>2. \A s \in Mutated : s > pos - 1 <=> s >= pos
        BY <4>1
      <4>3. QED
        BY <2>2, <2>4, <2>7, <4>2
    <3>2. QED
      BY <2>0, <2>4, <2>5, <2>7, <3>1, SameFiles DEF PatchOK
  <2>8. QED
    BY <2>6, <2>7
<1>7. CASE SwapTarget \/ SwapBackup \/ RestoreTarget \/ RestoreBackup
  BY <1>1, <1>7 DEF SwapTarget, SwapBackup, RestoreTarget, RestoreBackup, Moves, Goes, call,
     Base, PhaseOK, PatchSteps, Ended
<1>8. CASE Inspect \/ Clean \/ Recheck
  <2>0. UNCHANGED <<pre, op, kind, slot, touched, trouble>> /\ kind = "patch"
        /\ pc \in {"inspect", "clean", "recheck"}
    BY <1>1, <1>8 DEF Inspect, Clean, Recheck, Republish, Moves, Goes, call
  <2>1. AllOwned(0) /\ (Had(0) => \A s \in Slots \ Mutated : As(s))
    BY <1>1, <2>0 DEF PatchOK, Ended
  <2>2. pc' \in {"clean", "recheck"}
    BY <1>1, <1>8, <2>1 DEF Inspect, Clean, Recheck, Moves, Goes, Ended
  <2>3. QED
    BY <2>0, <2>1, <2>2, SameFiles DEF PatchOK
<1>9. CASE Restore
  <2>0. pc = "restore" /\ pc' = "restore" /\ UNCHANGED <<pre, op, kind, touched, trouble>>
        /\ kind = "patch" /\ pos < Oldest /\ pos' = pos + 1
        /\ slot' = IF pos \in Mutated /\ Owned(pos)
                   THEN [slot EXCEPT ![pos] = IF Had(pos) THEN Ours(pre[pos].val) ELSE Absent]
                   ELSE slot
    BY <1>1, <1>9 DEF Restore, RestoreSlot, Goes, call, Ended, Writes
  <2>1. ~touched /\ pc \notin Ended /\ trouble > 0 /\ pos \in Nat
    BY <1>1, <2>0, BackupsAssumption DEF PatchOK, Ended, Base, TypeOK
  <2>2. trouble <= 1 => \A s \in Mutated : s \in Slots /\ IF s >= pos THEN Owned(s) ELSE Back(s)
    BY <2>0, <2>1, <1>1, Wants DEF PatchOK, Exact
  <2>3. trouble <= 1 => \A s \in Mutated : IF s >= pos + 1 THEN Owned(s)' ELSE Back(s)'
    <3>1. SUFFICES ASSUME trouble <= 1, NEW s \in Mutated
                   PROVE  IF s >= pos + 1 THEN slot'[s] = Result(s) ELSE Content(slot'[s]) = Content(pre[s])
      BY <2>0, OwnedFrame DEF Back, Content
    <3>2. s \in Slots /\ s \in Nat
      BY <2>2, <3>1, SlotsAre
    <3>3. CASE s = pos
      <4>1. Owned(pos)
        BY <2>1, <2>2, <3>1, <3>3
      <4>2. slot'[s] = IF Had(s) THEN Ours(pre[s].val) ELSE Absent
        BY <1>0, <2>0, <3>1, <3>2, <3>3, <4>1
      <4>3. Had(s) => Ours(pre[s].val) # Absent /\ Ours(pre[s].val).val = pre[s].val
        BY <3>2, Typed DEF Base
      <4>4. QED
        BY <2>1, <3>3, <4>2, <4>3 DEF Content, Had
    <3>4. CASE s # pos
      <4>1. slot'[s] = slot[s]
        BY <1>0, <2>0, <3>4
      <4>2. s >= pos + 1 <=> s >= pos
        BY <2>1, <3>2, <3>4
      <4>3. QED
        BY <2>2, <3>1, <4>1, <4>2 DEF Owned, Back
    <3>5. QED
      BY <3>3, <3>4
  <2>4. Had(0) => \A s \in Slots \ Mutated : As(s)'
    BY <1>0, <1>1, <2>0, <2>1 DEF PatchOK, As
  <2>5. QED
    BY <2>0, <2>1, <2>3, <2>4, OwnedFrame DEF PatchOK
<1>10. CASE Saving
  BY <1>1, <1>10 DEF Saving, UnlinkOldest, Rotate, Copy, CaptureAtSave, Install, Moves, Goes, call,
     Base, PhaseOK, PatchSteps, Ended
<1>11. CASE (\E v \in Foreign, s \in Slots : External(v, s)) \/ Crash
  BY <1>1, <1>11 DEF External, Crash, Ended
<1>12. CASE Fault
  <2>0. UNCHANGED <<pre, op, kind, slot, touched>> /\ kind = "patch" /\ pc' = "restore"
        /\ trouble' = trouble + 1 /\ pc \notin Ended
        /\ \/ pc = "write" /\ pos' = pos + 1
           \/ pc \in {"readback", "inspect", "clean", "recheck"} /\ pos' = pos
    BY <1>1, <1>12 DEF Fault, Raises, Unwritten, Republish, Ended, Base, PhaseOK, PatchSteps
  <2>1. \A s \in Mutated : s \in Nat
    BY <2>0, Wants, SlotsAre DEF Exact
  <2>2. (Had(0) => \A s \in Slots \ Mutated : As(s)) /\ trouble' > 0
    BY <1>0, <1>1, <2>0 DEF PatchOK
  <2>3. \A s \in Mutated : IF s >= pos' THEN Owned(s) ELSE Back(s)
    <3>1. CASE pc = "write"
      <4>1. pos \in Nat
        BY <3>1, SlotsAre DEF Base, PhaseOK
      <4>2. \A s \in Mutated : IF s > pos THEN Owned(s) ELSE As(s)
        BY <1>1, <2>0, <3>1 DEF PatchOK
      <4>3. \A s \in Mutated : s >= pos + 1 <=> s > pos
        BY <2>1, <4>1
      <4>4. QED
        BY <2>0, <3>1, <4>2, <4>3 DEF As, Back
    <3>2. CASE pc = "readback"
      BY <1>1, <2>0, <3>2 DEF PatchOK, As, Back
    <3>3. CASE pc \in {"inspect", "clean", "recheck"}
      BY <1>1, <2>0, <2>1, <3>3 DEF PatchOK, AllOwned, Base, PhaseOK
    <3>4. QED
      BY <2>0, <3>1, <3>2, <3>3
  <2>4. QED
    BY <2>0, <2>2, <2>3, SameFiles DEF PatchOK
<1>13. CASE Unready
  <2>0. UNCHANGED <<pre, op, kind, slot, touched>> /\ kind = "patch" /\ pc' = "restore"
        /\ trouble' = trouble + 1 /\ pc = "restore"
    BY <1>1, <1>13 DEF Unready, Raises, Unwritten, Ended
  <2>1. trouble > 0 /\ (Had(0) => \A s \in Slots \ Mutated : As(s))
    BY <1>1, <2>0 DEF PatchOK, Ended
  <2>2. trouble' > 0 /\ ~(trouble' <= 1)
    BY <1>0, <2>0, <2>1
  <2>3. QED
    BY <2>0, <2>1, <2>2, SameFiles DEF PatchOK
<1>14. CASE UNCHANGED vars
  <2>0. UNCHANGED <<pre, op, kind, slot, touched, trouble, pc, pos>>
    BY <1>14 DEF vars
  <2>1. QED
    BY <2>0, SameFiles DEF PatchOK
<1>15. QED
  BY <1>2, <1>3, <1>4, <1>5, <1>6, <1>7, <1>8, <1>9, <1>10, <1>11, <1>12, <1>13, <1>14
     DEF Next, Patching, Undoing

LEMMA UndoNext ==
    ASSUME Base, UndoOK, [Next]_vars
    PROVE  UndoOK'
<1>0. /\ slot \in [Slots -> Entries \cup {Absent}] /\ pre \in [Slots -> Entries \cup {Absent}]
      /\ 0 \in Slots /\ 1 \in Slots /\ trouble \in Nat
  BY SlotsAre, BackupsAssumption DEF Base, TypeOK
<1>1. SUFFICES ASSUME kind' = "undo", ~touched', pc' \notin Ended
               PROVE  UndoOK'
  BY DEF UndoOK
<1>2. CASE \E k \in Kinds : Start(k)
  <2>1. pc' = "preserve" /\ slot' = slot /\ pre'[0] = slot[0] /\ pre'[1] = slot[1]
    BY <1>0, <1>1, <1>2 DEF Start, Captures, Plain, Ended
  <2>2. QED
    BY <2>1 DEF UndoOK, As
<1>3. CASE Preserve
  <2>1. UNCHANGED <<slot, pre, op, kind, touched>> /\ pc = "preserve" /\ pc' = "target"
    BY <1>1, <1>3 DEF Preserve, Goes, call
  <2>2. QED
    BY <1>1, <2>1 DEF UndoOK, As, Ended
<1>4. CASE Saving \/ CaptureSlots \/ WriteSlot \/ ReadBack \/ Restore
  BY <1>1, <1>4 DEF Saving, UnlinkOldest, Rotate, Copy, CaptureAtSave, Install, CaptureSlots,
     WriteSlot, ReadBack, Restore, RestoreSlot, Moves, Goes, call, Base, PhaseOK, UndoSteps,
     Rotating, Ended
<1>5. CASE SwapTarget
  <2>1. /\ pc = "target" /\ pc' = "backup" /\ slot' = [slot EXCEPT ![0] = Result(0)]
        /\ UNCHANGED <<pre, op, kind, touched>>
    BY <1>1, <1>5 DEF SwapTarget, Moves, Goes, call, Ended, Writes
  <2>2. slot'[0] = Result(0) /\ slot'[1] = slot[1]
    BY <1>0, <2>1
  <2>3. QED
    BY <1>1, <2>1, <2>2, OwnedFrame DEF UndoOK, As, Ended
<1>6. CASE SwapBackup
  <2>1. pc = "backup" /\ UNCHANGED <<pre, op, kind, touched>>
    BY <1>1, <1>6 DEF SwapBackup, Goes, call
  <2>2. Owned(0) /\ slot[1] = pre[1]
    BY <1>1, <2>1 DEF UndoOK, As, Ended
  <2>3. pc' = "inspect" /\ slot' = [slot EXCEPT ![1] = Result(1)]
    BY <1>6, <2>2 DEF SwapBackup, Goes, Writes
  <2>4. slot'[0] = Result(0) /\ slot'[1] = Result(1)
    BY <1>0, <2>2, <2>3 DEF Owned
  <2>5. \A s \in Mutated' : slot'[s] = Result(s)
    BY <1>1, <2>1, <2>4, UndoMutates, OwnedFrame
  <2>6. AllOwned(0)'
    BY <2>1, <2>5, OwnedFrame DEF AllOwned
  <2>7. QED
    BY <2>3, <2>6 DEF UndoOK
<1>7. CASE RestoreTarget
  <2>0. pc = "restore" /\ kind = "undo" /\ UNCHANGED <<pre, op, kind, touched, trouble, pos>>
        /\ pc' = "restorebak" /\ pos # 1
    BY <1>1, <1>7 DEF RestoreTarget, Moves, Goes, call, Ended
  <2>1. Owned(0) /\ Owned(1) /\ trouble > 0
    BY <1>1, <2>0 DEF UndoOK, Ended
  <2>2. slot' = [slot EXCEPT ![0] = Ours(pre[0].val)]
    BY <2>0, <2>1, UndoMutates, <1>7 DEF RestoreTarget, Writes, Moves, Goes
  <2>3. slot'[0] = Ours(pre[0].val) /\ slot'[1] = Result(1)
    BY <1>0, <2>1, <2>2 DEF Owned
  <2>4. pre[0] # Absent /\ Ours(pre[0].val) # Absent /\ Ours(pre[0].val).val = pre[0].val
    BY <1>0, <2>0, Typed DEF Base, CaptureOK, Had, Ended
  <2>5. Back(0)'
    BY <2>0, <2>3, <2>4 DEF Back, Content
  <2>6. QED
    BY <2>0, <2>1, <2>3, <2>5, OwnedFrame DEF UndoOK
<1>8. CASE Inspect \/ Clean \/ Recheck
  <2>0. UNCHANGED <<pre, op, kind, slot, touched, trouble>>
        /\ pc \in {"inspect", "clean", "recheck"}
    BY <1>1, <1>8 DEF Inspect, Clean, Recheck, Republish, Moves, Goes, call
  <2>1. AllOwned(0)
    BY <1>1, <2>0 DEF UndoOK, Ended
  <2>2. pc' \in {"clean", "recheck"}
    BY <1>1, <1>8, <2>1 DEF Inspect, Clean, Recheck, Moves, Goes, Ended
  <2>3. QED
    BY <2>0, <2>1, <2>2, SameFiles DEF UndoOK
<1>9. CASE RestoreBackup \/ Crash \/ (\E v \in Foreign, s \in Slots : External(v, s))
  BY <1>1, <1>9 DEF RestoreBackup, Goes, External, Crash, Ended
<1>10. CASE Fault
  <2>0. UNCHANGED <<pre, op, kind, slot, touched>> /\ pc' = "restore"
        /\ trouble' = trouble + 1 /\ pc \notin Ended
        /\ \/ pc = "backup" /\ pos' = pos + 1
           \/ pc \in {"inspect", "clean", "recheck"} /\ pos' = pos
    BY <1>1, <1>10 DEF Fault, Raises, Unwritten, Republish, Ended, Base, PhaseOK, UndoSteps
  <2>1. trouble' > 0 /\ (pc = "backup" => pos' = 1) /\ (pc # "backup" => pos' = 0)
    BY <1>0, <2>0 DEF Base, PhaseOK
  <2>2. Owned(0) /\ (IF pos' = 1 THEN As(1) ELSE Owned(1))
    BY <1>1, <2>0, <2>1, UndoMutates DEF UndoOK
  <2>3. QED
    BY <2>0, <2>1, <2>2, SameFiles DEF UndoOK
<1>11. CASE Unready \/ UNCHANGED vars
  <2>0. UNCHANGED <<pre, op, kind, slot, touched, trouble, pc, pos>>
    BY <1>1, <1>11 DEF Unready, Raises, Unwritten, Ended, vars, Base, PhaseOK
  <2>1. QED
    BY <2>0, SameFiles DEF UndoOK
<1>12. QED
  BY <1>2, <1>3, <1>4, <1>5, <1>6, <1>7, <1>8, <1>9, <1>10, <1>11
     DEF Next, Patching, Undoing

Exactly == PatchOK /\ UndoOK

LEMMA ExactlyInvariance == Spec => []Exactly
<1>1. Init => Exactly
  BY DEF Init, Exactly, PatchOK, UndoOK
<1>2. Sound /\ Exactly /\ [Next]_vars => Exactly'
  BY PatchNext, UndoNext DEF Sound, Exactly
<1>3. QED
  BY <1>1, <1>2, SoundInvariance, PTL DEF Spec

-----------------------------------------------------------------------------
(* How a call ends.                                                        *)

\* It gave up: nothing is written, and a fault more has been met, or two where the
\* recoveries could not be published again.
GivesUp ==
    /\ pc' \in {"failed", "dead"} /\ slot' = slot
    /\ trouble' = trouble + 1 \/ (pc' = "failed" /\ trouble' = trouble + 2)
    /\ pc' = "failed" /\ pc \in {"clean", "recheck"} => trouble' = trouble + 2
    /\ pc' = "failed" => pc \in {"preserve", "capture", "target", "restore", "restorebak"}
                                \cup {"clean", "recheck"} \cup Rotating

LEMMA EndSteps ==
    ASSUME Base, [Next]_vars, Finishes
    PROVE  /\ UNCHANGED <<pre, recov, op, kind, touched>>
           /\ \/ GivesUp
              \/ pc = "recheck" /\ pc' = "ok" /\ AllOwned(0) /\ UNCHANGED <<slot, trouble>>
              \/ pc = "install" /\ Install
              \/ pc = "capture" /\ pc' = "failed" /\ slot' = slot
              \/ pc = "target" /\ pc' = "failed" /\ slot' = slot /\ slot[0] # pre[0]
              \/ pc' = "failed" /\ trouble' = trouble /\ (Restore \/ RestoreTarget \/ RestoreBackup)
<1> USE DEF Finishes, Ended
<1>1. CASE CaptureSlots \/ WriteSlot \/ ReadBack
  BY <1>1 DEF CaptureSlots, WriteSlot, ReadBack, Moves, Goes, call
<1>2. CASE SwapTarget \/ SwapBackup
  BY <1>2 DEF SwapTarget, SwapBackup, Moves, Goes, call
<1>3. CASE Restore \/ RestoreTarget \/ RestoreBackup
  BY <1>3 DEF Restore, RestoreSlot, RestoreTarget, RestoreBackup, Moves, Goes, call
<1>4. CASE Preserve \/ Inspect \/ Clean \/ Recheck
  BY <1>4 DEF Preserve, Inspect, Clean, Recheck, Republish, Moves, Goes, call
<1>5. CASE Saving
  BY <1>5 DEF Saving, UnlinkOldest, Rotate, Copy, CaptureAtSave, Install, Moves, Goes, call
<1>6. CASE (\E k \in Kinds : Start(k)) \/ (\E v \in Foreign, s \in Slots : External(v, s))
           \/ Crash \/ UNCHANGED vars
  BY <1>6 DEF Start, External, Crash, vars, GivesUp
<1>7. CASE Fault
  BY <1>7 DEF Fault, Raises, Unwritten, GivesUp, Rotating
<1>8. CASE Unready
  BY <1>8 DEF Unready, Raises, Unwritten, GivesUp
<1>9. QED
  BY <1>1, <1>2, <1>3, <1>4, <1>5, <1>6, <1>7, <1>8 DEF Next, Patching, Undoing

\* What the slots of a call hold after it, and where an untouched rotation has put
\* what it found.
LEMMA Moved ==
    ASSUME Base, RotationOK, pc \in Rotating, ~touched, NEW s \in Slots, s # Oldest
    PROVE  \E t \in Slots : /\ pc = "install" => t # 0
                            /\ Content(slot[t]) = Content(pre[s])
<1>k. kind \in Plain /\ pc \notin Ended
  BY DEF Base, TypeOK, PhaseOK, Kinds, Exact, Rotating, Ended, PatchSteps, UndoSteps
<1>a. s \in Nat /\ s + 1 \in Slots /\ 0 \in Slots /\ 1 \in Slots
  BY SlotsAre
<1>0. s \in Nat /\ s + 1 \in Slots /\ 0 \in Slots /\ 1 \in Slots /\ slot[0] = pre[0] /\ There(0)
      /\ s + 1 # 0
  BY <1>k, <1>a DEF RotationOK, Base, CaptureOK
<1>1. CASE s = 0
  <2>1. CASE pc # "install"
    BY <1>0, <1>1, <2>1
  <2>2. CASE pc = "install"
    <3>1. slot[1] = Ours(slot[0].val)
      BY <2>2 DEF RotationOK
    <3>2. Ours(slot[0].val) # Absent /\ Ours(slot[0].val).val = slot[0].val
      BY <1>0, Typed DEF Base, There
    <3>3. Content(slot[1]) = Content(pre[0])
      BY <1>0, <3>1, <3>2 DEF Content, There
    <3>4. QED
      BY <1>0, <1>1, <3>3
  <2>3. QED
    BY <2>1, <2>2
<1>2. CASE s # 0 /\ pc = "unlink"
  BY <1>2 DEF RotationOK
<1>3. CASE s # 0 /\ pc = "rotate"
  <2>1. pos \in Nat
    BY <1>3, SlotsAre DEF Base, PhaseOK
  <2>2. CASE s <= pos
    BY <1>3, <2>2 DEF RotationOK
  <2>3. CASE s > pos
    <3>1. s + 1 > pos + 1 /\ (s + 1) - 1 = s
      BY <1>0, <2>1, <2>3
    <3>2. slot[s + 1] = pre[(s + 1) - 1]
      BY <1>0, <1>3, <3>1 DEF RotationOK
    <3>3. QED
      BY <1>0, <1>3, <3>1, <3>2
  <2>4. QED
    BY <1>0, <2>1, <2>2, <2>3
<1>4. CASE s # 0 /\ pc \notin {"unlink", "rotate"}
  <2>1. s + 1 > 1 /\ (s + 1) - 1 = s
    BY <1>0, <1>4
  <2>2. slot[s + 1] = pre[(s + 1) - 1]
    BY <1>0, <1>4, <2>1 DEF RotationOK
  <2>3. QED
    BY <1>0, <2>1, <2>2
<1>5. QED
  BY <1>1, <1>2, <1>3, <1>4

\* What a version is kept by.
LEMMA KeptBySlot ==
    ASSUME NEW t \in Slots, NEW v, v \notin {Absent, Torn}, Content(slot'[t]) = v
    PROVE  v \in Kept'
<1>1. v \in Held(slot')
  BY DEF Held
<1>2. QED
  BY <1>1 DEF Kept, Held, Content

LEMMA KeptByRecovery ==
    ASSUME NEW s \in Slots, Had(s), [slot |-> s, val |-> pre[s].val, op |-> op] \in recov'
    PROVE  Content(pre[s]) \in Kept'
<1>1. PICK r \in recov' : r.val = pre[s].val
  OBVIOUS
<1>2. Content(pre[s]) = r.val
  BY <1>1 DEF Content, Had
<1>3. QED
  BY <1>2 DEF Kept

LEMMA PlainKeeps ==
    ASSUME Sound, [Next]_vars, Finishes, kind \in Plain, ~touched, NEW s \in Slots, s # Oldest,
           Content(pre[s]) \notin {Absent, Torn}
    PROVE  Content(pre[s]) \in Kept'
<1>1. pc \in Rotating /\ pc \notin Ended
  BY DEF Sound, Base, PhaseOK, Finishes
<1>2. PICK t \in Slots : (pc = "install" => t # 0) /\ Content(slot[t]) = Content(pre[s])
  BY <1>1, Moved DEF Sound
<1>3. slot'[t] = slot[t]
  <2>1. CASE pc = "install" /\ Install
    <3>1. slot' = slot \/ slot' = [slot EXCEPT ![0] = Ours(New)]
      BY <2>1 DEF Install, Moves, Writes
    <3>2. QED
      BY <1>2, <2>1, <3>1 DEF Sound, Base, TypeOK
  <2>2. CASE ~(pc = "install" /\ Install)
    <3>1. slot' = slot
      BY <1>1, <2>2, EndSteps DEF Sound, GivesUp, Rotating, Restore, RestoreSlot, RestoreTarget,
         RestoreBackup
    <3>2. QED
      BY <3>1
  <2>3. QED
    BY <2>1, <2>2
<1>4. QED
  BY <1>2, <1>3, KeptBySlot

\* Once all it writes is its own, everything a call captured but the oldest
\* generation is in a slot.
LEMMA OwnedHold ==
    ASSUME Base, kind \in Exact, pc \notin Ended, pc # "preserve", pc # "capture", AllOwned(0),
           NEW s \in Slots, s # Oldest, Had(s)
    PROVE  \E t \in Slots : Content(slot[t]) = Content(pre[s])
<1>1. Ours(pre[s].val) # Absent /\ Ours(pre[s].val).val = pre[s].val
  BY Typed DEF Base
<1>2. CASE kind = "undo"
  <2>1. s \in {0, 1} /\ 1 - s \in Slots /\ 1 - s \in Mutated /\ 1 - (1 - s) = s
    BY <1>2, SlotsAre, UndoMutates DEF Base, CaptureOK
  <2>2. slot[1 - s] = Ours(pre[s].val)
    BY <1>2, <2>1, SlotsAre DEF AllOwned, Owned, Result, Wanted, Had
  <2>3. QED
    BY <1>1, <2>1, <2>2 DEF Content, Had
<1>3. CASE kind = "patch"
  <2>1. s + 1 \in Slots /\ (s + 1) - 1 = s /\ s + 1 > 0 /\ s + 1 >= 0 /\ s + 1 # 0
    BY SlotsAre
  <2>2. Had(0)
    BY <1>3, SlotsAre DEF Base, CaptureOK
  <2>3. Wanted(s + 1) = pre[s]
    BY <1>3, <2>1 DEF Wanted
  <2>4. s + 1 \in Mutated
    BY <1>3, <2>1, <2>2, <2>3 DEF Mutated, Had
  <2>5. slot[s + 1] = Ours(pre[s].val)
    BY <2>1, <2>3, <2>4 DEF AllOwned, Owned, Result, Had
  <2>6. QED
    BY <1>1, <2>1, <2>5 DEF Content, Had
<1>4. QED
  BY <1>2, <1>3 DEF Exact

LEMMA ExactKeeps ==
    ASSUME Sound, Exactly, [Next]_vars, Finishes, kind \in Exact, trouble' <= 1,
           NEW s \in Slots, Content(pre[s]) \notin {Absent, Torn}
    PROVE  \/ Content(pre[s]) \in Kept'
           \/ s = Oldest /\ (pc' = "ok" \/ (pc = "clean" /\ Mine = {}) \/ pc = "recheck")
<1>0. /\ Had(s) /\ pc \notin Ended /\ trouble \in Nat /\ recov' = recov
      /\ pc \in Saved \cup {"preserve", "clean", "recheck"}
  <2>1. trouble \in Nat
    BY BackupsAssumption DEF Sound, Base, TypeOK
  <2>2. Had(s) /\ pc \notin Ended
    BY DEF Had, Content, Finishes
  <2>3. recov' = recov
    BY EndSteps DEF Sound
  <2>4. pc \in Saved \cup {"preserve", "clean", "recheck"}
    BY <2>2 DEF Sound, Base, PhaseOK, Exact, Saved, PatchSteps, UndoSteps
  <2>5. QED
    BY <2>1, <2>2, <2>3, <2>4
<1>1. PICK r : r = [slot |-> s, val |-> pre[s].val, op |-> op]
  OBVIOUS
<1>2. r \in Recoveries(pre, Slots)
  BY <1>0, <1>1, InRecoveries DEF Had
<1>3. CASE r \in recov
  BY <1>0, <1>1, <1>3, KeptByRecovery
<1>4. CASE pc \in Saved
  BY <1>2, <1>3, <1>4 DEF Sound, RecovOK
<1>5. CASE pc = "preserve"
  <2>1. GivesUp
    BY <1>5, EndSteps DEF Sound, Restore, RestoreSlot, RestoreTarget, RestoreBackup
  <2>2. slot' = slot /\ trouble = 0
    BY <1>0, <2>1 DEF GivesUp
  <2>3. ~touched
    BY <2>2 DEF Sound, Base, PhaseOK
  <2>4. slot[s] = pre[s]
    BY <1>0, <1>5, <2>3, SlotsAre DEF Exactly, PatchOK, UndoOK, As, Exact, Sound, Base, CaptureOK
  <2>5. QED
    BY <2>2, <2>4, KeptBySlot
<1>6. CASE pc \in {"clean", "recheck"}
  <2>1. slot' = slot /\ AllOwned(0)
    <3>1. CASE GivesUp
      <4>1. slot' = slot /\ trouble = 0
        BY <1>0, <3>1 DEF GivesUp
      <4>2. ~touched
        BY <4>1 DEF Sound, Base, PhaseOK
      <4>3. QED
        BY <1>0, <1>6, <4>1, <4>2 DEF Exactly, PatchOK, UndoOK, Exact
    <3>2. CASE ~GivesUp
      BY <1>6, <3>2, EndSteps DEF Sound, Restore, RestoreSlot, RestoreTarget, RestoreBackup
    <3>3. QED
      BY <3>1, <3>2
  <2>2. CASE s # Oldest
    <3>1. PICK t \in Slots : Content(slot[t]) = Content(pre[s])
      BY <1>0, <1>6, <2>1, <2>2, OwnedHold DEF Sound
    <3>2. QED
      BY <2>1, <3>1, KeptBySlot
  <2>3. CASE s = Oldest /\ pc = "clean" /\ Mine # {}
    <3>1. PICK q \in Mine : TRUE
      BY <2>3
    <3>2. q.slot \in Slots
      BY <3>1 DEF Mine, Sound, Base, TypeOK
    <3>3. ~(q.slot > r.slot)
      <4>1. q.slot \in 0 .. Depth + 1 /\ Depth \in Nat
        BY <3>2, SlotsAre DEF Slots
      <4>2. r.slot = Depth + 1
        BY <1>1, <2>3 DEF Oldest
      <4>3. QED
        BY <4>1, <4>2
    <3>4. r \in recov
      BY <1>2, <2>3, <3>1, <3>3 DEF Sound, RecovOK
    <3>5. QED
      BY <1>3, <3>4
  <2>4. QED
    BY <1>6, <2>2, <2>3
<1>7. QED
  BY <1>0, <1>4, <1>5, <1>6

\* One fault, crash or external write loses no version that a call found but the one
\* the rotation drops; what an exact call did not finish loses not even that.
THEOREM GenerationsKept == Spec => GenerationsSurvive
<1>1. ASSUME Sound, Exactly, [Next]_vars, Finishes, NEW v \in Held(pre') \ Kept'
      PROVE  \/ kind \in Plain /\ (v = Content(pre[Oldest]) \/ touched)
             \/ kind \in Exact /\ (trouble' <= 1 =>
                   v = Content(pre[Oldest])
                   /\ (pc' = "ok" \/ (pc = "clean" /\ Mine = {}) \/ pc = "recheck"))
  <2>1. pre' = pre
    BY <1>1, EndSteps DEF Sound
  <2>2. PICK s \in Slots : v = Content(pre[s]) /\ v \notin {Absent, Torn}
    BY <1>1, <2>1 DEF Held
  <2>3. kind \in Plain \/ kind \in Exact
    BY <1>1 DEF Sound, Base, TypeOK, Kinds
  <2>4. kind \in Plain => v = Content(pre[Oldest]) \/ touched
    BY <1>1, <2>2, PlainKeeps
  <2>5. kind \in Exact /\ trouble' <= 1 =>
           v = Content(pre[Oldest])
           /\ (pc' = "ok" \/ (pc = "clean" /\ Mine = {}) \/ pc = "recheck")
    BY <1>1, <2>2, ExactKeeps
  <2>6. QED
    BY <2>3, <2>4, <2>5
<1>2. ASSUME Sound, Exactly, [Next]_vars, Finishes
      PROVE  LET lost == Held(pre') \ Kept'
                 dropped == {Content(pre[Oldest])}
             IN  \/ kind \in Plain /\ (lost \subseteq dropped \/ touched)
                 \/ kind \in Exact /\ (trouble' <= 1 => lost \subseteq
                       IF pc' = "ok" \/ (pc = "clean" /\ Mine = {}) \/ pc = "recheck"
                       THEN dropped ELSE {})
  <2>1. kind \in Plain \/ kind \in Exact
    BY <1>2 DEF Sound, Base, TypeOK, Kinds
  <2>2. kind \in Plain => kind \notin Exact
    BY DEF Plain, Exact
  <2>3. QED
    BY <1>1, <1>2, <2>1, <2>2
<1>3. ASSUME Sound, Exactly, [Next]_vars
      PROVE  [Finishes =>
                LET lost == Held(pre') \ Kept'
                    dropped == {Content(pre[Oldest])}
                IN  \/ kind \in Plain /\ (lost \subseteq dropped \/ touched)
                    \/ kind \in Exact /\ (trouble' <= 1 => lost \subseteq
                          IF pc' = "ok" \/ (pc = "clean" /\ Mine = {}) \/ pc = "recheck"
                          THEN dropped ELSE {})]_vars
  BY <1>2, <1>3
<1>4. QED
  BY <1>3, SoundInvariance, ExactlyInvariance, PTL DEF Spec, GenerationsSurvive

-----------------------------------------------------------------------------
(* All or nothing.                                                         *)

\* An undo that answers has swapped the two files.
LEMMA UndoDone ==
    ASSUME Base, kind = "undo", pc \notin Ended, AllOwned(0)
    PROVE  Content(slot[0]) = Content(pre[1]) /\ Content(slot[1]) = Content(pre[0])
<1>1. 0 \in Slots /\ 1 \in Slots /\ Had(0) /\ Had(1)
  BY SlotsAre DEF Base, CaptureOK
<1>2. slot[0] = Ours(pre[1].val) /\ slot[1] = Ours(pre[0].val)
  BY <1>1, UndoMutates DEF Owned, Result, Wanted, Had
<1>3. /\ Ours(pre[0].val) # Absent /\ Ours(pre[0].val).val = pre[0].val
      /\ Ours(pre[1].val) # Absent /\ Ours(pre[1].val).val = pre[1].val
  BY <1>1, Typed DEF Base
<1>4. QED
  BY <1>1, <1>2, <1>3 DEF Content, Had

\* A patch that answers has published, and moved up every generation.
LEMMA PatchDone ==
    ASSUME Base, PatchOK, kind = "patch", ~touched, pc = "recheck", AllOwned(0)
    PROVE  /\ Content(slot[0]) = New
           /\ Content(pre[0]) # Absent =>
                 \A s \in Slots \ {0} : Content(slot[s]) = Content(pre[s - 1])
<1>0. 0 \in Slots /\ 0 \in Mutated /\ op > 0 /\ New \in Versions
  BY SlotsAre, Typed DEF Mutated, Base, PhaseOK, Ended
<1>1. Content(slot[0]) = New
  <2>1. Wanted(0) = Entry(New, op) /\ Ours(New) = Entry(New, op)
    BY DEF Wanted, Ours
  <2>2. Entry(New, op) # Absent /\ Entry(New, op).val = New
    BY <1>0, <2>1, Typed DEF Base
  <2>3. slot[0] = Entry(New, op)
    BY <1>0, <2>1, <2>2 DEF AllOwned, Owned, Result
  <2>4. QED
    BY <2>2, <2>3 DEF Content
<1>2. ASSUME Content(pre[0]) # Absent, NEW s \in Slots \ {0}
      PROVE  Content(slot[s]) = Content(pre[s - 1])
  <2>1. Had(0) /\ s - 1 \in Slots /\ s > 0 /\ s # 0 /\ s >= 0
    BY <1>2, SlotsAre DEF Content, Had
  <2>2. Wanted(s) = pre[s - 1]
    BY <2>1 DEF Wanted
  <2>3. CASE s \in Mutated
    <3>1. slot[s] = IF pre[s - 1] = Absent THEN Absent ELSE Ours(pre[s - 1].val)
      BY <2>1, <2>2, <2>3 DEF AllOwned, Owned, Result
    <3>2. Had(s - 1) => Ours(pre[s - 1].val) # Absent /\ Ours(pre[s - 1].val).val = pre[s - 1].val
      BY <2>1, Typed DEF Base
    <3>3. QED
      BY <3>1, <3>2 DEF Content, Had
  <2>4. CASE s \notin Mutated
    <3>1. pre[s] = Absent /\ pre[s - 1] = Absent
      BY <1>2, <2>1, <2>2, <2>4 DEF Mutated, Had
    <3>2. slot[s] = pre[s]
      BY <1>2, <2>1, <2>4 DEF PatchOK, As, Ended
    <3>3. QED
      BY <3>1, <3>2
  <2>5. QED
    BY <2>3, <2>4
<1>3. QED
  BY <1>1, <1>2

\* A plain save that answers has done the same.
LEMMA PlainDone ==
    ASSUME Base, RotationOK, kind \in Plain, ~touched, pc = "install", Install, pc' = "ok"
    PROVE  /\ Content(slot'[0]) = New
           /\ \A s \in Slots \ {0} : Content(slot'[s]) = Content(pre[s - 1])
<1>0. /\ slot \in [Slots -> Entries \cup {Absent}] /\ 0 \in Slots /\ op > 0 /\ slot[0] = pre[0]
      /\ There(0)
  BY SlotsAre DEF Base, TypeOK, PhaseOK, CaptureOK, Ended, RotationOK, Rotating
<1>1. slot' = [slot EXCEPT ![0] = Ours(New)]
  BY <1>0 DEF Install, Writes
<1>2. /\ Ours(New) # Absent /\ Ours(New).val = New
      /\ Ours(slot[0].val) # Absent /\ Ours(slot[0].val).val = slot[0].val
  BY <1>0, Typed DEF Base
<1>3. Content(slot'[0]) = New
  BY <1>0, <1>1, <1>2 DEF Content
<1>4. ASSUME NEW s \in Slots \ {0}
      PROVE  Content(slot'[s]) = Content(pre[s - 1])
  <2>1. slot'[s] = slot[s] /\ s \in Nat
    BY <1>1, <1>4, SlotsAre
  <2>2. CASE s = 1
    BY <1>0, <1>2, <2>1, <2>2 DEF RotationOK, Rotating, Content, There
  <2>3. CASE s # 1
    <3>1. s > 1
      BY <1>4, <2>1, <2>3
    <3>2. QED
      BY <1>4, <2>1, <3>1 DEF RotationOK, Rotating
  <2>4. QED
    BY <2>2, <2>3
<1>5. QED
  BY <1>3, <1>4

\* A rolled back patch has every slot it writes as it was.
LEMMA PatchUndone ==
    ASSUME Base, PatchOK, kind = "patch", ~touched, Restore, pc' = "failed", trouble <= 1,
           NEW s \in Mutated
    PROVE  Content(slot'[s]) = Content(pre[s])
<1>0. /\ slot \in [Slots -> Entries \cup {Absent}] /\ s \in Slots
      /\ pc = "restore" /\ ~(pos < Oldest)
      /\ slot' = IF pos \in Mutated /\ Owned(pos)
                 THEN [slot EXCEPT ![pos] = IF Had(pos) THEN Ours(pre[pos].val) ELSE Absent]
                 ELSE slot
  BY SlotsAre, Wants DEF Restore, RestoreSlot, Goes, Base, TypeOK, Writes, Exact, Ended
<1>1. IF s >= pos THEN Owned(s) ELSE Back(s)
  BY <1>0 DEF PatchOK, Ended
<1>2. s \in 0 .. Depth + 1 /\ Depth \in Nat /\ pos \in Nat
  BY <1>0, SlotsAre DEF Slots, Base, TypeOK
<1>3. CASE s = pos
  <2>1. Owned(pos)
    BY <1>1, <1>2, <1>3
  <2>2. slot'[s] = IF Had(s) THEN Ours(pre[s].val) ELSE Absent
    BY <1>0, <1>3, <2>1
  <2>3. Had(s) => Ours(pre[s].val) # Absent /\ Ours(pre[s].val).val = pre[s].val
    BY <1>0, Typed DEF Base
  <2>4. QED
    BY <2>2, <2>3 DEF Content, Had
<1>4. CASE s # pos
  <2>1. ~(s >= pos)
    BY <1>0, <1>2, <1>4 DEF Oldest
  <2>2. slot'[s] = slot[s]
    BY <1>0, <1>4
  <2>3. QED
    BY <1>1, <2>1, <2>2 DEF Back
<1>5. QED
  BY <1>3, <1>4

\* A rolled back undo has both.
LEMMA UndoUndone ==
    ASSUME Base, UndoOK, kind = "undo", ~touched, RestoreTarget \/ RestoreBackup, pc' = "failed"
    PROVE  Content(slot'[0]) = Content(pre[0]) /\ Content(slot'[1]) = Content(pre[1])
<1>0. /\ slot \in [Slots -> Entries \cup {Absent}] /\ 0 \in Slots /\ 1 \in Slots /\ 0 # 1
      /\ Had(0) /\ Had(1)
  BY SlotsAre DEF Base, TypeOK, CaptureOK, RestoreTarget, RestoreBackup, Ended
<1>1. /\ Ours(pre[0].val) # Absent /\ Ours(pre[0].val).val = pre[0].val
      /\ Ours(pre[1].val) # Absent /\ Ours(pre[1].val).val = pre[1].val
  BY <1>0, Typed DEF Base
<1>2. CASE RestoreTarget
  <2>1. pc = "restore" /\ Owned(0) /\ (IF pos = 1 THEN As(1) ELSE Owned(1))
    BY <1>2 DEF RestoreTarget, UndoOK, Ended
  <2>2. pos = 1 /\ slot' = [slot EXCEPT ![0] = Ours(pre[0].val)]
    BY <1>2, <2>1, UndoMutates DEF RestoreTarget, Moves, Goes, Writes
  <2>3. slot'[0] = Ours(pre[0].val) /\ slot'[1] = pre[1]
    BY <1>0, <2>1, <2>2 DEF As
  <2>4. QED
    BY <1>0, <1>1, <2>3 DEF Content, Had
<1>3. CASE RestoreBackup
  <2>1. Back(0) /\ Owned(1)
    BY <1>3 DEF RestoreBackup, UndoOK, Ended
  <2>2. slot' = [slot EXCEPT ![1] = Ours(pre[1].val)]
    BY <1>3, <2>1 DEF RestoreBackup, Writes
  <2>3. slot'[1] = Ours(pre[1].val) /\ slot'[0] = slot[0]
    BY <1>0, <2>2
  <2>4. QED
    BY <1>0, <1>1, <2>1, <2>3 DEF Content, Had, Back
<1>4. QED
  BY <1>2, <1>3

\* A call that fails has left, or put back, what it writes.
LEMMA FailedExact ==
    ASSUME Sound, Exactly, [Next]_vars, Finishes, ~touched, pc # "preserve", pc # "capture",
           pc' = "failed", kind \in Exact, trouble' <= 1, NEW s \in Mutated
    PROVE  Content(slot'[s]) = Content(pre[s])
<1>0. pc \notin Ended /\ trouble \in Nat
  BY BackupsAssumption DEF Finishes, Sound, Base, TypeOK
<1>1. CASE GivesUp
  <2>1. slot' = slot /\ trouble = 0 /\ pc \notin {"clean", "recheck"}
    BY <1>0, <1>1 DEF GivesUp
  <2>2. pc \notin {"restore", "restorebak"}
    <3>1. ~(trouble > 0)
      BY <2>1
    <3>2. CASE kind = "patch"
      BY <1>0, <3>1, <3>2 DEF Exactly, PatchOK, Sound, Base, PhaseOK, PatchSteps, Ended
    <3>3. CASE kind = "undo"
      BY <1>0, <3>1, <3>3 DEF Exactly, UndoOK
    <3>4. QED
      BY <3>2, <3>3 DEF Exact
  <2>3. CASE pc = "target"
    <3>1. kind = "undo"
      BY <2>3 DEF Exact, Sound, Base, PhaseOK, PatchSteps, Ended
    <3>2. As(0) /\ As(1) /\ s \in {0, 1}
      BY <1>0, <2>3, <3>1, UndoMutates DEF Exactly, UndoOK
    <3>3. QED
      BY <2>1, <3>2 DEF As
  <2>4. CASE pc # "target"
    <3>1. pc \in Rotating
      BY <1>1, <2>1, <2>2, <2>4 DEF GivesUp
    <3>2. QED
      BY <3>1 DEF Sound, Base, PhaseOK, Exact, PatchSteps, UndoSteps, Rotating, Ended
  <2>5. QED
    BY <2>3, <2>4
<1>2. CASE pc = "target" /\ slot[0] # pre[0]
  <2>1. kind = "undo"
    BY <1>2 DEF Exact, Sound, Base, PhaseOK, PatchSteps, Ended
  <2>2. QED
    BY <1>0, <1>2, <2>1 DEF Exactly, UndoOK, As
<1>3. CASE trouble' = trouble /\ (Restore \/ RestoreTarget \/ RestoreBackup)
  <2>1. CASE Restore
    <3>1. kind = "patch"
      BY <2>1 DEF Restore, RestoreSlot
    <3>2. QED
      BY <1>3, <2>1, <3>1, PatchUndone DEF Sound, Exactly
  <2>2. CASE RestoreTarget \/ RestoreBackup
    <3>1. kind = "undo"
      BY <2>2 DEF RestoreTarget, RestoreBackup, Exact, Sound, Base, PhaseOK, PatchSteps, Ended
    <3>2. s \in {0, 1}
      BY <3>1, UndoMutates
    <3>3. QED
      BY <2>2, <3>1, <3>2, UndoUndone DEF Sound, Exactly
  <2>3. QED
    BY <1>3, <2>1, <2>2
<1>4. CASE pc = "install"
  BY <1>4 DEF Sound, Base, PhaseOK, Exact, PatchSteps, UndoSteps, Ended
<1>5. QED
  BY <1>1, <1>2, <1>3, <1>4, EndSteps DEF Sound

\* A patch or an undo nobody interferes with does all it says or, after one fault,
\* nothing; a plain save that fails leaves the document.
THEOREM AllOrNone == Spec => AllOrNothing
<1>1. ASSUME Sound, Exactly, [Next]_vars, Finishes, ~touched, pc # "preserve", pc # "capture"
      PROVE  /\ pc' = "ok" /\ kind = "undo" =>
                   Content(slot'[0]) = Content(pre'[1]) /\ Content(slot'[1]) = Content(pre'[0])
             /\ pc' = "ok" /\ kind # "undo" =>
                   /\ Content(slot'[0]) = New
                   /\ Content(pre'[0]) # Absent =>
                         \A s \in Slots \ {0} : Content(slot'[s]) = Content(pre'[s - 1])
             /\ pc' = "failed" /\ kind \in Exact =>
                   (trouble' <= 1 => \A s \in Mutated : Content(slot'[s]) = Content(pre'[s]))
             /\ pc' = "failed" /\ kind \in Plain => Content(slot'[0]) = Content(pre'[0])
  <2>0. pre' = pre /\ pc \notin Ended /\ kind \in Kinds
    BY <1>1, EndSteps DEF Sound, Base, TypeOK, Finishes
  <2>1. CASE pc' = "failed" /\ kind \in Exact
    BY <1>1, <2>0, <2>1, FailedExact DEF Plain, Exact
  <2>2. CASE pc' = "failed" /\ kind \in Plain
    <3>1. pc \in Rotating
      BY <1>1, <2>0, <2>2 DEF Plain, Sound, Base, PhaseOK
    <3>2. slot[0] = pre[0]
      BY <1>1, <3>1 DEF Sound, RotationOK
    <3>3. slot' = slot
      BY <1>1, <2>2, <3>1, EndSteps DEF Sound, GivesUp, Rotating, Restore, RestoreSlot,
         RestoreTarget, RestoreBackup, Install, Moves, Goes
    <3>4. QED
      BY <2>0, <2>2, <3>2, <3>3 DEF Plain, Exact
  <2>3. CASE pc' = "ok" /\ kind \in Exact
    <3>1. pc # "install"
      BY <1>1, <2>0, <2>3 DEF Exact, Sound, Base, PhaseOK, PatchSteps, UndoSteps, Ended
    <3>2. pc = "recheck" /\ AllOwned(0) /\ slot' = slot
      BY <1>1, <2>3, <3>1, EndSteps DEF Sound, GivesUp
    <3>3. CASE kind = "undo"
      BY <1>1, <2>0, <2>3, <3>2, <3>3, UndoDone DEF Sound
    <3>4. CASE kind = "patch"
      BY <1>1, <2>0, <2>3, <3>2, <3>4, PatchDone DEF Sound, Exactly
    <3>5. QED
      BY <2>3, <3>3, <3>4 DEF Exact
  <2>4. CASE pc' = "ok" /\ kind \in Plain
    <3>1. pc \in Rotating
      BY <2>0, <2>4, <1>1 DEF Plain, Sound, Base, PhaseOK
    <3>2. pc = "install" /\ Install
      BY <1>1, <2>4, <3>1, EndSteps DEF Sound, GivesUp, Rotating
    <3>3. QED
      BY <1>1, <2>0, <2>4, <3>2, PlainDone DEF Sound, Plain, Exact
  <2>5. CASE pc' \notin {"ok", "failed"}
    BY <2>5
  <2>6. QED
    BY <2>0, <2>1, <2>2, <2>3, <2>4, <2>5 DEF Kinds
<1>2. ASSUME Sound, Exactly, [Next]_vars, Finishes, ~touched, pc # "preserve", pc # "capture"
      PROVE  LET now(s) == Content(slot'[s])
                 was(s) == Content(pre'[s])
             IN  CASE pc' = "ok" /\ kind = "undo" -> now(0) = was(1) /\ now(1) = was(0)
                   [] pc' = "ok" /\ kind # "undo" ->
                         /\ now(0) = New
                         /\ was(0) # Absent => \A s \in Slots \ {0} : now(s) = was(s - 1)
                   [] pc' = "failed" /\ kind \in Exact ->
                         trouble' <= 1 => \A s \in Mutated : now(s) = was(s)
                   [] pc' = "failed" /\ kind \in Plain -> now(0) = was(0)
                   [] OTHER -> TRUE
  BY <1>1, <1>2
<1>3. ASSUME Sound, Exactly, [Next]_vars
      PROVE  [Finishes /\ ~touched /\ pc # "preserve" /\ pc # "capture" =>
              LET now(s) == Content(slot'[s])
                  was(s) == Content(pre'[s])
              IN  CASE pc' = "ok" /\ kind = "undo" -> now(0) = was(1) /\ now(1) = was(0)
                    [] pc' = "ok" /\ kind # "undo" ->
                          /\ now(0) = New
                          /\ was(0) # Absent => \A s \in Slots \ {0} : now(s) = was(s - 1)
                    [] pc' = "failed" /\ kind \in Exact ->
                          trouble' <= 1 => \A s \in Mutated : now(s) = was(s)
                    [] pc' = "failed" /\ kind \in Plain -> now(0) = was(0)
                    [] OTHER -> TRUE]_vars
  BY <1>2, <1>3
<1>4. QED
  BY <1>3, SoundInvariance, ExactlyInvariance, PTL DEF Spec, AllOrNothing

=============================================================================
