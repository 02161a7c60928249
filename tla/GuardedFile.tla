------------------------------ MODULE GuardedFile ------------------------------
(***************************************************************************)
(* Guarded publication of workspace.py on one file name: the calls of      *)
(* capture_output, atomic_publish_bytes and remove_output, one action per  *)
(* file-system operation or check, with external writers at any moment.    *)
(* Every operation may fail, those that put things back or away as well.   *)
(* A file is an inode with a content; a content is named by its author.    *)
(* Device, mode and digest go with the inode and its content, and the root *)
(* and parent directories only appear as checks that may fail.             *)
(***************************************************************************)
EXTENDS Naturals

CONSTANTS
    Publishers,     \* the calls of atomic_publish_bytes
    Removers,       \* the calls of remove_output
    Edits,          \* what external writers write
    Initial,        \* the author of the file found at the start
    Nothing,        \* no entry, and the guard of an absent target
    Serialised      \* the calls run under PUBLIC_MUTATION_LOCK

Actors == Publishers \cup Removers
Authors == Actors \cup Edits \cup {Initial}

\* "file" is written from outside, "sentinel" is the directory remove_output
\* puts in the place of the file it removes.
Inode(kind, by) == [kind |-> kind, by |-> by]
Inodes == [kind : {"file"}, by : Edits \cup {Initial}]
          \cup [kind : {"candidate", "restore"}, by : Publishers]
          \cup [kind : {"sentinel"}, by : Removers]
Identities == [ino : Inodes, val : Authors]

ASSUME PublicationAssumption ==
    /\ Publishers \cap Removers = {}
    /\ Actors \cap Edits = {}
    /\ Initial \notin Actors \cup Edits
    /\ Nothing \notin Authors
    /\ Nothing \notin Inodes \cup Identities
    /\ Serialised \in BOOLEAN

VARIABLES
    cas,        \* _descriptor_cas_supported: renameat2 or renameatx_np is there
    target,     \* the inode at the published name
    temp,       \* the inode at each call's .tmp or .remove name
    spare,      \* the inode at each call's .restore name
    data,       \* the content of each inode
    guard,      \* the identity each call's guard captured
    pc,         \* how far each call is
    done,       \* the edits written so far
    broken      \* which of each call's steps back or away have failed

names == <<target, temp, spare, data, guard>>
vars == <<cas, names, pc, done, broken>>

Waiting == {"captured", "snapped", "staged", "checked"}
Exchanged == {"swapped", "swapback"}
Published == {"installed", "dropped", "withdraw", "unlink", "rewrite", "overwrite", "restored", "reswap"}
Removing == {"sentinel", "emptied", "stuck"}
Ended == {"published", "removed", "absent", "failed", "dead"}
\* The exchange back, the rollback of a publication or removal, an unlink.
Failures == {"putback", "rollback", "unlink"}
Steps == {"idle", "cleanup"} \cup Waiting \cup Exchanged \cup Published \cup Removing \cup Ended

TypeOK ==
    /\ cas \in BOOLEAN
    /\ target \in Inodes \cup {Nothing}
    /\ temp \in [Actors -> Inodes \cup {Nothing}]
    /\ spare \in [Actors -> Inodes \cup {Nothing}]
    /\ data \in [Inodes -> Authors]
    /\ guard \in [Actors -> Identities \cup {Nothing}]
    /\ pc \in [Actors -> Steps]
    /\ done \subseteq Edits
    /\ broken \in [Actors -> SUBSET Failures]

Init ==
    /\ cas \in BOOLEAN
    /\ target \in {Inode("file", Initial), Nothing}
    /\ temp = [a \in Actors |-> Nothing]
    /\ spare = [a \in Actors |-> Nothing]
    /\ data = [i \in Inodes |-> i.by]
    /\ guard = [a \in Actors |-> Nothing]
    /\ pc = [a \in Actors |-> "idle"]
    /\ done = {}
    /\ broken = [a \in Actors |-> {}]

\* What a snapshot of an entry reports; it refuses a directory.
IsFile(i) == i # Nothing /\ i.kind # "sentinel"
Identity(i) == IF i = Nothing THEN Nothing ELSE [ino |-> i, val |-> data[i]]
Captured(a, i) == Identity(i) = guard[a]
Candidate(a) == Inode("candidate", a)
Sentinel(a) == Inode("sentinel", a)
IsCandidate(a, i) == i = Candidate(a) /\ data[i] = a
Existed(a) == guard[a] # Nothing

Goes(a, from, to) ==
    /\ pc[a] = from
    /\ pc' = [pc EXCEPT ![a] = to]
    /\ UNCHANGED <<cas, done, broken>>

Keeps(a, from, to) == Goes(a, from, to) /\ UNCHANGED names

\* The same for a step that has failed.
Fails(a, from, to, what) ==
    /\ pc[a] = from
    /\ pc' = [pc EXCEPT ![a] = to]
    /\ broken' = [broken EXCEPT ![a] = @ \cup {what}]
    /\ UNCHANGED <<cas, done>>

\* The exchange of two names.
SwapsTemp(a) ==
    /\ target' = temp[a]
    /\ temp' = [temp EXCEPT ![a] = target]
    /\ UNCHANGED <<spare, data, guard>>

Unlocked == Serialised => \A a \in Actors : pc[a] \in {"idle"} \cup Ended

\* capture_output: a name that holds a directory is refused.
Capture(a) ==
    /\ Unlocked
    /\ IF target = Nothing \/ IsFile(target)
       THEN /\ Goes(a, "idle", "captured")
            /\ guard' = [guard EXCEPT ![a] = Identity(target)]
            /\ UNCHANGED <<target, temp, spare, data>>
       ELSE Keeps(a, "idle", "failed")

\* The original is copied aside while its identity is still the captured one.
Snapshot(a) ==
    /\ a \in Publishers
    /\ Captured(a, target)
    /\ Keeps(a, "captured", "snapped")

Stage(a) ==
    /\ Goes(a, "snapped", "staged")
    /\ temp' = [temp EXCEPT ![a] = Candidate(a)]
    /\ UNCHANGED <<target, spare, data, guard>>

Check(a) ==
    /\ Captured(a, target)
    /\ Keeps(a, "staged", "checked")

\* The target is not the captured one, or the root, the parent or the staging
\* fails: nothing has been published yet.
GiveUp(a) ==
    \/ Keeps(a, "captured", "failed")
    \/ \E from \in {"snapped", "staged", "checked", "sentinel"} : Keeps(a, from, "cleanup")

\* The exchange, then the comparison of what it displaced.
Exchange(a) ==
    /\ cas
    /\ Existed(a)
    /\ target # Nothing
    /\ \/ Goes(a, "checked", "swapped")
       \/ Goes(a, "sentinel", "swapped")
    /\ SwapsTemp(a)

\* Bug: the displaced entry is not compared with the captured one.
CompareNothing(a) == Keeps(a, "swapped", "installed")

\* A comparison that cannot be made counts as a difference.
Compare(a) ==
    \/ Captured(a, temp[a]) /\ Keeps(a, "swapped", "installed")
    \/ Keeps(a, "swapped", "swapback")

\* The exchange back, of whatever is at the name by now.
SwapBack(a) ==
    /\ Goes(a, "swapback", "cleanup")
    /\ SwapsTemp(a)

\* Without it a publication still withdraws its candidate, and a removal tries
\* once more.
SwapBackFails(a) ==
    /\ Fails(a, "swapback", IF a \in Publishers THEN "withdraw" ELSE "stuck", "putback")
    /\ UNCHANGED names

\* Without a file to replace, os.link refuses an existing name.
Link(a) ==
    /\ cas
    /\ a \in Publishers
    /\ ~Existed(a)
    /\ target = Nothing
    /\ Goes(a, "checked", "installed")
    /\ target' = temp[a]
    /\ UNCHANGED <<temp, spare, data, guard>>

\* os.replace of a host without the exchange takes whatever is there.
Replace(a) ==
    /\ ~cas
    /\ a \in Publishers
    /\ Goes(a, "checked", "installed")
    /\ target' = temp[a]
    /\ temp' = [temp EXCEPT ![a] = Nothing]
    /\ UNCHANGED <<spare, data, guard>>

\* The candidate is seen at its name and what it displaced is unlinked.
DropDisplaced(a) ==
    /\ cas
    /\ a \in Publishers
    /\ IsCandidate(a, target)
    /\ Goes(a, "installed", "dropped")
    /\ temp' = [temp EXCEPT ![a] = Nothing]
    /\ UNCHANGED <<target, spare, data, guard>>

Confirm(a) ==
    /\ a \in Publishers
    /\ IsCandidate(a, target)
    /\ \/ cas /\ Keeps(a, "dropped", "published")
       \/ ~cas /\ Keeps(a, "installed", "published")

\* Bug: a failure after the exchange is treated as one before it.
DoubtUnpublished(a) ==
    /\ a \in Publishers
    /\ Keeps(a, "installed", "cleanup") \/ Keeps(a, "dropped", "cleanup")

\* Another file is at the name, or a directory check or an fsync failed.
Doubt(a) ==
    /\ a \in Publishers
    /\ Keeps(a, "installed", "withdraw") \/ Keeps(a, "dropped", "withdraw")

\* Bug: the candidate is unlinked before the original is put back.
WithdrawUnlinks(a) ==
    /\ IsCandidate(a, target)
    /\ Keeps(a, "withdraw", "unlink")

\* restore_original_if_candidate and restore_owned_fallback_candidate.
Withdraw(a) ==
    /\ IsCandidate(a, target)
    /\ IF Existed(a)
       THEN /\ Goes(a, "withdraw", "rewrite")
            /\ spare' = [spare EXCEPT ![a] = Inode("restore", a)]
            /\ data' = [data EXCEPT ![Inode("restore", a)] = guard[a].val]
            /\ UNCHANGED <<target, temp, guard>>
       ELSE Keeps(a, "withdraw", "unlink")

LeaveIt(a) ==
    /\ ~IsCandidate(a, target)
    /\ Keeps(a, "withdraw", "cleanup")

UnlinkCandidate(a) ==
    /\ Goes(a, "unlink", "cleanup")
    /\ target' = Nothing
    /\ UNCHANGED <<temp, spare, data, guard>>

SwapRestore(a) ==
    /\ cas
    /\ Goes(a, "rewrite", "restored")
    /\ target' = spare[a]
    /\ spare' = [spare EXCEPT ![a] = target]
    /\ UNCHANGED <<temp, data, guard>>

CompareRestore(a) ==
    /\ IF IsCandidate(a, spare[a])
       THEN /\ Goes(a, "restored", "cleanup")
            /\ spare' = [spare EXCEPT ![a] = Nothing]
            /\ UNCHANGED <<target, temp, data, guard>>
       ELSE Keeps(a, "restored", "reswap")

\* The second exchange and the unlink of what it took from the name.
UnswapRestore(a) ==
    /\ Goes(a, "reswap", "cleanup")
    /\ target' = spare[a]
    /\ spare' = [spare EXCEPT ![a] = Nothing]
    /\ UNCHANGED <<temp, data, guard>>

\* Bug: the unlink of the finally is taken for done when the recheck returns.
RecheckReturns(a) ==
    /\ ~cas
    /\ IF IsCandidate(a, target)
       THEN Keeps(a, "rewrite", "overwrite")
       ELSE Keeps(a, "rewrite", "cleanup")

\* The portable rollback looks once more and replaces by name.
RecheckRestore(a) ==
    /\ ~cas
    /\ IF IsCandidate(a, target)
       THEN Keeps(a, "rewrite", "overwrite")
       ELSE /\ Goes(a, "rewrite", "cleanup")
            /\ spare' = [spare EXCEPT ![a] = Nothing]
            /\ UNCHANGED <<target, temp, data, guard>>

ReplaceRestore(a) ==
    /\ Goes(a, "overwrite", "cleanup")
    /\ target' = spare[a]
    /\ spare' = [spare EXCEPT ![a] = Nothing]
    /\ UNCHANGED <<temp, data, guard>>

\* A look, an open, a write, an exchange or an unlink of the rollback fails and
\* ends it.  The finally unlinks .restore if it can, but there is none around the
\* opening and writing of it.
RollbackFails(a) ==
    /\ \E from \in {"withdraw", "unlink", "rewrite", "restored", "reswap", "overwrite"} :
          Fails(a, from, "cleanup", "rollback")
    /\ pc[a] = "restored" => IsCandidate(a, spare[a])
    /\ \E left \in {Nothing, spare[a]} \cup
           (IF pc[a] = "withdraw" /\ Existed(a) THEN {Inode("restore", a)} ELSE {}) :
          spare' = [spare EXCEPT ![a] = left]
    /\ UNCHANGED <<target, temp, data, guard>>

\* candidate_matches cannot read the candidate it has displaced.
Misread(a) ==
    /\ IsCandidate(a, spare[a])
    /\ Fails(a, "restored", "reswap", "rollback")
    /\ UNCHANGED names

UnswapLeaves(a) ==
    /\ Fails(a, "reswap", "cleanup", "unlink")
    /\ target' = spare[a]
    /\ spare' = [spare EXCEPT ![a] = target]
    /\ UNCHANGED <<temp, data, guard>>

\* The finally of both calls; rmdir refuses anything but a directory.
Cleanup(a) ==
    /\ Goes(a, "cleanup", "failed")
    /\ temp' = [temp EXCEPT ![a] = IF a \in Publishers \/ ~IsFile(@) THEN Nothing ELSE @]
    /\ UNCHANGED <<target, spare, data, guard>>

\* An unlink that fails is ignored; the portable path runs its finally before it
\* looks at what it published, and raises there.
CleanupFails(a) ==
    /\ \/ Fails(a, "cleanup", "failed", "unlink")
       \/ ~cas /\ a \in Publishers /\ Fails(a, "installed", "failed", "unlink")
    /\ UNCHANGED names

-----------------------------------------------------------------------------
\* remove_output

RemoveNothing(a) ==
    /\ a \in Removers
    /\ ~Existed(a)
    /\ Keeps(a, "captured", "absent")

PutSentinel(a) ==
    /\ a \in Removers
    /\ cas
    /\ Existed(a)
    /\ Captured(a, target)
    /\ Goes(a, "captured", "sentinel")
    /\ temp' = [temp EXCEPT ![a] = Sentinel(a)]
    /\ UNCHANGED <<target, spare, data, guard>>

RemoveSentinel(a) ==
    /\ a \in Removers
    /\ target = Sentinel(a)
    /\ Goes(a, "installed", "emptied")
    /\ target' = Nothing
    /\ UNCHANGED <<temp, spare, data, guard>>

\* The sentinel cannot be removed: exchanged back while it is still there,
\* else what it displaced goes if it is the captured file.
Reseat(a) ==
    /\ a \in Removers
    /\ \/ /\ target = Sentinel(a)
          /\ Goes(a, "installed", "cleanup") \/ Goes(a, "stuck", "cleanup")
          /\ SwapsTemp(a)
       \/ /\ target # Sentinel(a)
          /\ Goes(a, "installed", "failed") \/ Goes(a, "stuck", "failed")
          /\ temp' = [temp EXCEPT ![a] = IF Captured(a, @) THEN Nothing ELSE @]
          /\ UNCHANGED <<target, spare, data, guard>>

Removed(a) ==
    /\ target = Nothing
    /\ Captured(a, temp[a])
    /\ Goes(a, "emptied", "removed")
    /\ temp' = [temp EXCEPT ![a] = Nothing]
    /\ UNCHANGED <<target, spare, data, guard>>

\* A file has appeared, or a check failed: the removed file is linked back
\* unless another took its name, and unlinked here.
Relink(a) ==
    /\ cas
    /\ Goes(a, "emptied", "failed")
    /\ IF Captured(a, temp[a])
       THEN /\ target' = IF target = Nothing THEN temp[a] ELSE target
            /\ temp' = [temp EXCEPT ![a] = Nothing]
       ELSE UNCHANGED <<target, temp>>
    /\ UNCHANGED <<spare, data, guard>>

\* Neither comes about: the file stays under its .remove name, there and under
\* its own, or, when the sentinel at the name cannot be read, nowhere.
PutBackFails(a) ==
    /\ cas
    /\ a \in Removers
    /\ \E from \in {"installed", "stuck", "emptied"} : Fails(a, from, "failed", "rollback")
    /\ \/ UNCHANGED <<target, temp>>
       \/ /\ pc[a] = "emptied" /\ target = Nothing /\ Captured(a, temp[a])
          /\ target' = temp[a]
          /\ UNCHANGED temp
       \/ /\ pc[a] # "emptied" /\ Captured(a, temp[a])
          /\ temp' = [temp EXCEPT ![a] = Nothing]
          /\ UNCHANGED target
    /\ UNCHANGED <<spare, data, guard>>

PortableCheck(a) ==
    /\ a \in Removers
    /\ ~cas
    /\ Existed(a)
    /\ Captured(a, target)
    /\ Keeps(a, "captured", "checked")

PortableRemove(a) ==
    /\ a \in Removers
    /\ ~cas
    /\ Goes(a, "checked", "emptied")
    /\ target' = Nothing
    /\ UNCHANGED <<temp, spare, data, guard>>

\* A directory check that fails after the unlink reports a failure all the same.
PortableEnd(a) ==
    /\ ~cas
    /\ Keeps(a, "emptied", "removed") \/ Keeps(a, "emptied", "failed")

-----------------------------------------------------------------------------
\* The process of a call dies: its names stay.
Crash(a) ==
    /\ pc[a] \notin {"idle"} \cup Ended
    /\ Keeps(a, pc[a], "dead")

\* An external writer saves over the name, renaming a new file to it or
\* writing into the file that is there.
SaveOver(e) ==
    /\ target = Nothing \/ IsFile(target)
    /\ target' = Inode("file", e)
    /\ UNCHANGED data

WriteInto(e) ==
    /\ IsFile(target)
    /\ data' = [data EXCEPT ![target] = e]
    /\ UNCHANGED target

External(e) ==
    /\ e \notin done
    /\ SaveOver(e) \/ WriteInto(e)
    /\ done' = done \cup {e}
    /\ UNCHANGED <<cas, temp, spare, guard, pc, broken>>

Publishing(a) ==
    \/ Snapshot(a) \/ Stage(a) \/ Check(a) \/ GiveUp(a)
    \/ Exchange(a) \/ Compare(a) \/ SwapBack(a) \/ SwapBackFails(a) \/ Link(a) \/ Replace(a)
    \/ DropDisplaced(a) \/ Confirm(a)

Restoring(a) ==
    \/ Doubt(a) \/ Withdraw(a) \/ LeaveIt(a) \/ UnlinkCandidate(a)
    \/ SwapRestore(a) \/ CompareRestore(a) \/ UnswapRestore(a)
    \/ RecheckRestore(a) \/ ReplaceRestore(a) \/ RollbackFails(a) \/ Misread(a)
    \/ UnswapLeaves(a) \/ Cleanup(a) \/ CleanupFails(a)

Deleting(a) ==
    \/ RemoveNothing(a) \/ PutSentinel(a) \/ RemoveSentinel(a) \/ Reseat(a)
    \/ Removed(a) \/ Relink(a) \/ PutBackFails(a) \/ PortableCheck(a)
    \/ PortableRemove(a) \/ PortableEnd(a)

Next ==
    \/ \E a \in Actors : Capture(a) \/ Publishing(a) \/ Restoring(a) \/ Deleting(a) \/ Crash(a)
    \/ \E e \in Edits : External(e)

Spec == Init /\ [][Next]_vars

-----------------------------------------------------------------------------
Content(i) == IF IsFile(i) THEN data[i] ELSE Nothing

Outcome(a) ==
    CASE pc[a] = "idle" -> "idle"
      [] pc[a] \in Waiting \cup {"sentinel"} -> "pending"
      [] pc[a] \in Exchanged \cup {"stuck"} -> "swapped"
      [] pc[a] \in {"restored", "reswap"} -> "restoring"
      [] pc[a] \in {"published", "removed"} -> "ok"
      [] pc[a] \in {"cleanup", "failed", "absent"} -> "failed"
      [] pc[a] = "dead" -> "crashed"
      [] OTHER -> "installed"

\* What a call has taken from the name and may have to put back.
TakenBy(a) ==
    CASE Outcome(a) = "swapped" -> Content(temp[a])
      [] Outcome(a) = "restoring" -> Content(spare[a])
      [] OTHER -> Nothing

Promise == INSTANCE GuardedRegister WITH
    current <- Content(target),
    expected <- [a \in Actors |-> IF Existed(a) THEN guard[a].val ELSE Nothing],
    taken <- [a \in Actors |-> TakenBy(a)],
    outcome <- [a \in Actors |-> Outcome(a)],
    failing <- [a \in Actors |-> broken[a] \ {"unlink"} # {}]

\* Serialised calls keep the promise of GuardedRegister whatever an external
\* writer does between their steps and whatever fails: a version that was not
\* captured is put back, and a candidate that is not confirmed is withdrawn.
KeepsPromise == Promise!Spec

\* However a publication ends, its .tmp and .restore names are gone, unless its
\* rollback or the unlink itself has failed (the finally of 1351-1362 and 1443).
NoResidue ==
    \A a \in Publishers :
        pc[a] \in Ended \ {"dead"} /\ broken[a] \subseteq {"putback"}
            => temp[a] = Nothing /\ spare[a] = Nothing

\* A publication that reports failure has not left its candidate at the name,
\* unless its rollback has failed too (the rollback of atomic_publish_bytes).
FailureLeavesNoCandidate ==
    \A a \in Publishers :
        cas /\ pc[a] = "failed" /\ "rollback" \notin broken[a] => ~IsCandidate(a, target)

\* While a file is replaced, even by a process that dies, a reader finds a
\* whole file at the name: the publication is atomic.
ReaderFindsFile ==
    (\A r \in Removers : pc[r] = "idle")
        => \A a \in Publishers : Existed(a) => IsFile(target)
=============================================================================
