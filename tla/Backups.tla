-------------------------------- MODULE Backups --------------------------------
(***************************************************************************)
(* A document and its backup generations under the calls that replace it:  *)
(* byte_preserving_patch and undo_last_edit (ops_services/transactions.py  *)
(* on the exact sidecars of save_policy.py) and the plain saves, which     *)
(* rotate by name (core/transactions.py) and publish under a guard taken   *)
(* at save time (storage.py).  Calls are serialised by the tool lock; a    *)
(* guarded publication either replaces the entry it captured or does       *)
(* nothing, as GuardedRegister promises.                                   *)
(***************************************************************************)
EXTENDS Naturals

CONSTANTS
    Depth,      \* max_backups
    MaxOps,     \* bound on the number of calls
    MaxTrouble, \* bound on faults, crashes and external writes during a call
    Foreign,    \* what external writers write
    Absent, Torn

\* 0 is the document, 1 is .bak and s + 1 is .bak.s.
Slots == 0..Depth + 1
Oldest == Depth + 1
Exact == {"patch", "undo"}
\* "edit" is a save of HwpxOps, "tool" one of the handlers, whose storage keeps
\* HWPX_AUTOMATION_AUTOBACKUP.
Plain == {"edit", "tool"}
Kinds == Exact \cup Plain

Version(kind, n) == [kind |-> kind, n |-> n]
Versions == [kind : {"old"}, n : Slots] \cup [kind : {"new"}, n : 1..MaxOps]
            \cup [kind : {"foreign"}, n : Foreign]
\* An entry is told apart by its content and by the call that published it.
Entry(v, op) == [val |-> v, op |-> op]
Entries == [val : Versions \cup {Torn}, op : 0..MaxOps]

ASSUME BackupsAssumption ==
    /\ Depth \in Nat \ {0}
    /\ MaxOps \in Nat
    /\ MaxTrouble \in Nat
    /\ Torn \notin Versions
    /\ Absent \notin Entries \cup Versions \cup {Torn}

VARIABLES
    slot,       \* the files
    recov,      \* the .recovery sidecars, by the slot and call they belong to
    op, kind,   \* the number and the kind of the call
    pc,
    pre,        \* the entries the call captured
    pos,        \* the slot it is at
    written,    \* the foreign versions written so far
    trouble,    \* faults, crashes and external writes during the call
    touched     \* an external writer wrote during the call

vars == <<slot, recov, op, kind, pc, pre, pos, written, trouble, touched>>
call == <<op, kind, written, trouble, touched>>

Rotating == {"unlink", "rotate", "copy", "copying", "save", "again", "recopying", "install"}
Ended == {"ok", "failed", "dead"}
Steps == {"capture", "preserve", "write", "readback", "inspect", "clean", "recheck", "restore", "restorebak"}
         \cup {"target", "backup"} \cup Rotating \cup Ended

TypeOK ==
    /\ slot \in [Slots -> Entries \cup {Absent}]
    /\ recov \subseteq [slot : Slots, val : Versions \cup {Torn}, op : 0..MaxOps]
    /\ op \in 0..MaxOps
    /\ kind \in Kinds
    /\ pc \in Steps
    /\ pre \in [Slots -> Entries \cup {Absent}]
    /\ pos \in 0..Depth + 2
    /\ written \subseteq Foreign
    /\ trouble \in 0..MaxTrouble
    /\ touched \in BOOLEAN

\* Any of the files may be missing.
Init ==
    /\ \E there \in SUBSET Slots :
          slot = [s \in Slots |-> IF s \in there THEN Entry(Version("old", s), 0) ELSE Absent]
    /\ recov = {}
    /\ op = 0
    /\ kind = "edit"
    /\ pc = "ok"
    /\ pre = [s \in Slots |-> Absent]
    /\ pos = 0
    /\ written = {}
    /\ trouble = 0
    /\ touched = FALSE

New == Version("new", op)
There(s) == slot[s] # Absent
Had(s) == pre[s] # Absent
Safe(s) == There(s) /\ slot[s].val # Torn

Goes(to) == pc' = to /\ UNCHANGED call
Moves(to) == Goes(to) /\ UNCHANGED <<slot, recov, pre, pos>>
Writes(s, entry) == slot' = [slot EXCEPT ![s] = entry]
Ours(v) == Entry(v, op)

\* Bug: undo is content with a backup that is there.
OpensAny(k) ==
    CASE k = "undo"  -> Safe(0) /\ There(1)
      [] k = "patch" -> There(0) => Safe(0)
      [] k \in Plain -> Safe(0)

\* A call begins: undo wants both files and both readable, a plain save opens
\* the document.
Opens(k) ==
    CASE k = "undo"  -> Safe(0) /\ Safe(1)
      [] k = "patch" -> There(0) => Safe(0)
      [] k \in Plain -> Safe(0)

Captures(k) == CASE k = "undo" -> {0, 1} [] k = "patch" -> {0} [] k \in Plain -> Slots

Start(k) ==
    /\ pc \in Ended
    /\ op < MaxOps
    /\ op' = op + 1
    /\ kind' = k
    /\ trouble' = 0
    /\ touched' = FALSE
    /\ pre' = [s \in Slots |-> IF s \in Captures(k) THEN slot[s] ELSE Absent]
    /\ pc' = IF Opens(k) THEN (IF k \in Plain THEN "unlink" ELSE "preserve") ELSE "failed"
    /\ pos' = 0
    /\ UNCHANGED <<slot, recov, written>>

\* The recoveries of what a function of entries holds at S.
Recoveries(f, S) == {[slot |-> s, val |-> f[s].val, op |-> op] : s \in {t \in S : f[t] # Absent}}

-----------------------------------------------------------------------------
\* The exact calls.

\* What a call puts at a slot, and the slots it writes, in descending order for
\* a patch; a patch that creates its document rotates nothing.
Wanted(s) ==
    CASE kind = "undo"            -> pre[1 - s]
      [] kind = "patch" /\ s = 0 -> Entry(New, op)
      [] kind = "patch" /\ s > 0 -> pre[s - 1]

Result(s) == IF Wanted(s) = Absent THEN Absent ELSE Ours(Wanted(s).val)
Owned(s) == slot[s] = Result(s)
Mutated ==
    IF kind = "undo" THEN {0, 1}
    ELSE {s \in Slots : s = 0 \/ (Had(0) /\ (Had(s) \/ Wanted(s) # Absent))}
AllOwned(from) == \A s \in Mutated : s >= from => Owned(s)

\* A patch preserves the document first and the generations once they are
\* captured; undo preserves the two it swaps.
Preserve ==
    /\ pc = "preserve"
    /\ recov' = recov \cup Recoveries(pre, {0, 1})
    /\ Goes(IF kind = "undo" THEN "target" ELSE "capture")
    /\ UNCHANGED <<slot, pre, pos>>

\* _rotate_and_backup_exact up to its loop.
CaptureSlots ==
    /\ pc = "capture"
    /\ IF slot[0] # pre[0]
       THEN Moves("failed")
       ELSE /\ pre' = IF Had(0) THEN slot ELSE pre
            /\ recov' = recov \cup Recoveries(pre', Slots \ {0})
            /\ pos' = IF Had(0) THEN Oldest ELSE 0
            /\ Goes("write")
            /\ UNCHANGED slot

\* One guarded publication or removal.  Where there is nothing and nothing is
\* wanted nobody looks.
WriteSlot ==
    /\ pc = "write"
    /\ IF pos \notin Mutated
       THEN Moves("readback")
       ELSE IF slot[pos] = pre[pos]
            THEN Writes(pos, Result(pos)) /\ Goes("readback") /\ UNCHANGED <<recov, pre, pos>>
            ELSE pos' = pos + 1 /\ Goes("restore") /\ UNCHANGED <<slot, recov, pre>>

\* The call reads its own publication back, and all of the rotation before it
\* goes on to the document.
ReadBack ==
    /\ pc = "readback"
    /\ IF (pos \in Mutated => Owned(pos)) /\ (pos = 1 => AllOwned(1))
       THEN /\ Goes(IF pos = 0 THEN "inspect" ELSE "write")
            /\ pos' = IF pos = 0 THEN 0 ELSE pos - 1
            /\ UNCHANGED <<slot, recov, pre>>
       ELSE Moves("restore")

SwapTarget ==
    /\ pc = "target"
    /\ IF slot[0] = pre[0]
       THEN Writes(0, Result(0)) /\ Goes("backup") /\ UNCHANGED <<recov, pre, pos>>
       ELSE Moves("failed")

SwapBackup ==
    /\ pc = "backup"
    /\ IF slot[1] = pre[1]
       THEN Writes(1, Result(1)) /\ Goes("inspect") /\ UNCHANGED <<recov, pre, pos>>
       ELSE pos' = 1 /\ Goes("restore") /\ UNCHANGED <<slot, recov, pre>>

Inspect ==
    /\ pc = "inspect"
    /\ Moves(IF AllOwned(0) THEN "clean" ELSE "restore")

Mine == {r \in recov : r.op = op}

\* The recoveries go in the order they were made.
Clean ==
    /\ pc = "clean"
    /\ IF Mine = {}
       THEN Moves("recheck")
       ELSE /\ \E r \in Mine :
                  /\ \A q \in Mine : r.slot <= q.slot
                  /\ recov' = recov \ {r}
            /\ Goes("clean")
            /\ UNCHANGED <<slot, pre, pos>>

\* The answer is given when the files are still the call's; else the recoveries
\* are published again and the call rolls back.
Republish ==
    /\ recov' = recov \cup Recoveries(pre, Slots)
    /\ UNCHANGED <<slot, pre, pos>>

\* Bug: a loss found by the last check leaves no recoveries behind.
RecheckRaises ==
    /\ pc = "recheck"
    /\ Moves(IF AllOwned(0) THEN "ok" ELSE "restore")

Recheck ==
    /\ pc = "recheck"
    /\ IF AllOwned(0)
       THEN Moves("ok")
       ELSE Republish /\ Goes("restore")

\* The rollback of a patch, the last written slot first: each is guarded by its
\* own publication.
RestoreSlot(guarded) ==
    /\ pc = "restore"
    /\ kind = "patch"
    /\ IF pos \in Mutated /\ guarded
       THEN Writes(pos, IF Had(pos) THEN Ours(pre[pos].val) ELSE Absent)
       ELSE UNCHANGED slot
    /\ pos' = IF pos < Oldest THEN pos + 1 ELSE 0
    /\ Goes(IF pos < Oldest THEN "restore" ELSE "failed")
    /\ UNCHANGED <<recov, pre>>

\* Bug: a slot is rolled back whoever has written it since.
RestoreByName == RestoreSlot(TRUE)

Restore == RestoreSlot(Owned(pos))

\* Bug: the backup is left as it is.
RestoreTargetOnly ==
    /\ pc = "restore"
    /\ kind = "undo"
    /\ IF Owned(0) THEN Writes(0, Ours(pre[0].val)) ELSE UNCHANGED slot
    /\ Goes("failed")
    /\ UNCHANGED <<recov, pre, pos>>

\* Undo restores the document alone when only that was replaced (pos is 1), and
\* otherwise both or none.
RestoreTarget ==
    /\ pc = "restore"
    /\ kind = "undo"
    /\ IF IF pos = 1 THEN Owned(0) ELSE AllOwned(0)
       THEN /\ Writes(0, Ours(pre[0].val))
            /\ Goes(IF pos = 1 THEN "failed" ELSE "restorebak")
            /\ UNCHANGED <<recov, pre, pos>>
       ELSE Moves("failed")

RestoreBackup ==
    /\ pc = "restorebak"
    /\ IF Owned(1) THEN Writes(1, Ours(pre[1].val)) ELSE UNCHANGED slot
    /\ Goes("failed")
    /\ UNCHANGED <<recov, pre, pos>>

-----------------------------------------------------------------------------
\* The plain saves.

\* rotate_and_backup: the oldest goes, the others move up by name.
UnlinkOldest ==
    /\ pc = "unlink"
    /\ Writes(Oldest, Absent)
    /\ pos' = Depth
    /\ Goes("rotate")
    /\ UNCHANGED <<recov, pre>>

Rotate ==
    /\ pc = "rotate"
    /\ slot' = IF There(pos)
               THEN [slot EXCEPT ![pos + 1] = slot[pos], ![pos] = Absent]
               ELSE slot
    /\ pos' = pos - 1
    /\ Goes(IF pos > 1 THEN "rotate" ELSE "copy")
    /\ UNCHANGED <<recov, pre>>

\* shutil.copy2 truncates the backup and fills it, unless another file has taken
\* its name.
Copy(from, during, to) ==
    \/ /\ pc = from
       /\ Writes(1, Ours(Torn))
       /\ Goes(during)
       /\ UNCHANGED <<recov, pre, pos>>
    \/ /\ pc = during
       /\ IF slot[1] = Ours(Torn) THEN Writes(1, Ours(slot[0].val)) ELSE UNCHANGED slot
       /\ Goes(to)
       /\ UNCHANGED <<recov, pre, pos>>

\* save_document captures its guard now, and a storage with auto_backup then
\* copies the document over the backup.
CaptureAtSave ==
    /\ pc = "save"
    /\ pre' = [pre EXCEPT ![0] = slot[0]]
    /\ Goes(IF kind = "tool" THEN "again" ELSE "install")
    /\ UNCHANGED <<slot, recov, pos>>

Install ==
    /\ pc = "install"
    /\ IF slot[0] = pre[0]
       THEN Writes(0, Ours(New)) /\ Goes("ok") /\ UNCHANGED <<recov, pre, pos>>
       ELSE Moves("failed")

-----------------------------------------------------------------------------
\* An external writer saves a version of its own over one of the files.
External(v, s) ==
    /\ v \in Foreign \ written
    /\ pc \in Ended \/ trouble < MaxTrouble
    /\ Writes(s, Entry(Version("foreign", v), 0))
    /\ written' = written \cup {v}
    /\ trouble' = IF pc \in Ended THEN trouble ELSE trouble + 1
    /\ touched' = (touched \/ pc \notin Ended)
    /\ UNCHANGED <<recov, op, kind, pc, pre, pos>>

\* The process dies.
Crash ==
    /\ pc \notin Ended
    /\ trouble < MaxTrouble
    /\ pc' = "dead"
    /\ trouble' = trouble + 1
    /\ UNCHANGED <<slot, recov, op, kind, pre, pos, written, touched>>

\* An operation of the file system fails at this point.
Raises(from, to, cost) ==
    /\ pc \in from
    /\ trouble + cost <= MaxTrouble
    /\ pc' = to
    /\ trouble' = trouble + cost
    /\ UNCHANGED <<op, kind, written, touched>>

Unwritten == UNCHANGED <<slot, recov, pre, pos>>

Fault ==
    \/ Raises({"preserve", "capture", "target", "restorebak"} \cup Rotating, "failed", 1) /\ Unwritten
    \/ Raises({"write", "backup"}, "restore", 1) /\ pos' = pos + 1 /\ UNCHANGED <<slot, recov, pre>>
    \/ Raises({"readback", "inspect"}, "restore", 1) /\ Unwritten
    \/ Raises({"clean", "recheck"}, "restore", 1) /\ Republish

\* A rollback gives up: the recoveries could not be published again, or a
\* slot could not be written.
Unready ==
    \/ Had(0) /\ Raises({"clean", "recheck"}, "failed", 2) /\ Unwritten
    \/ kind = "undo" /\ Raises({"restore"}, "failed", 1) /\ Unwritten
    \/ /\ kind = "patch"
       /\ Raises({"restore"}, IF pos < Oldest THEN "restore" ELSE "failed", 1)
       /\ pos' = (IF pos < Oldest THEN pos + 1 ELSE 0)
       /\ UNCHANGED <<slot, recov, pre>>

Patching ==
    \/ CaptureSlots \/ WriteSlot \/ ReadBack \/ Restore

Undoing ==
    \/ SwapTarget \/ SwapBackup \/ RestoreTarget \/ RestoreBackup

Saving ==
    \/ UnlinkOldest \/ Rotate \/ CaptureAtSave \/ Install
    \/ Copy("copy", "copying", "save") \/ Copy("again", "recopying", "install")

Next ==
    \/ \E k \in Kinds : Start(k)
    \/ Preserve \/ Inspect \/ Clean \/ Recheck
    \/ Patching \/ Undoing \/ Saving
    \/ \E v \in Foreign, s \in Slots : External(v, s)
    \/ Crash \/ Fault \/ Unready

Spec == Init /\ [][Next]_vars

-----------------------------------------------------------------------------
Content(e) == IF e = Absent THEN Absent ELSE e.val
Held(f) == {Content(f[s]) : s \in Slots} \ {Absent, Torn}
Kept == Held(slot) \cup {r.val : r \in recov}
Finishes == pc \notin Ended /\ pc' \in Ended

\* An external writer's file.
Fresh(s) == There(s) /\ slot[s].op # op /\ slot[s] # pre[s]

\* No version that a call found is lost by one fault, crash or external write:
\* it is still in a slot or in a recovery when the call ends, but for the one
\* that a rotation drops.
GenerationsSurvive ==
    [][Finishes =>
        LET lost == Held(pre') \ Kept'
            dropped == {Content(pre[Oldest])}
        IN  \/ kind \in Plain /\ (lost \subseteq dropped \/ touched)
            \/ kind \in Exact /\ (trouble' <= 1 => lost \subseteq
                  IF pc' = "ok" \/ (pc = "clean" /\ Mine = {}) \/ pc = "recheck" THEN dropped ELSE {})]_vars

\* Where no other writer interferes, a patch or an undo has done all it says or,
\* after one fault, nothing; a plain save that fails leaves the document.
AllOrNothing ==
    [][Finishes /\ ~touched /\ pc # "preserve" /\ pc # "capture" =>
        LET now(s) == Content(slot'[s])
            was(s) == Content(pre'[s])
        IN  CASE pc' = "ok" /\ kind = "undo" -> now(0) = was(1) /\ now(1) = was(0)
              [] pc' = "ok" /\ kind # "undo" ->
                    /\ now(0) = New
                    /\ was(0) # Absent => \A s \in Slots \ {0} : now(s) = was(s - 1)
              [] pc' = "failed" /\ kind \in Exact ->
                    trouble' <= 1 => \A s \in Mutated : now(s) = was(s)
              [] pc' = "failed" /\ kind \in Plain -> now(0) = was(0)
              [] OTHER -> TRUE]_vars

\* What a call replaces, its own files apart, is kept: the versions it found and
\* those an external writer put there since.  A plain save is excused where it
\* drops the oldest, and for backups that change under its rotation; a tool
\* whose storage has auto_backup keeps even a document changed while it ran.
NothingTrampled ==
    [][written' = written /\ op' = op =>
        \A s \in Slots :
            \/ slot[s] = Absent \/ slot[s].op = op \/ slot[s].val \in Kept' \cup {Torn}
            \/ kind \in Plain /\ pc = "unlink" /\ s = Oldest
            \/ kind \in Plain /\ touched /\ (s > 0 \/ kind = "edit" \/ Fresh(1))]_vars

\* A backup torn by a crash never becomes the document.
TargetWhole == Content(slot[0]) # Torn
=============================================================================
