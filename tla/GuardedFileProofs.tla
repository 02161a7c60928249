--------------------------- MODULE GuardedFileProofs ---------------------------
(***************************************************************************)
(* Theorems about guarded publication, for any number of calls and of      *)
(* external writers; the last is that it implements GuardedRegister.       *)
(***************************************************************************)
EXTENDS GuardedFile, TLAPS

Acts(a) == Capture(a) \/ Publishing(a) \/ Restoring(a) \/ Deleting(a) \/ Crash(a)

Active(a) == pc[a] \notin {"idle"} \cup Ended

Writing == {"rewrite", "restored", "reswap", "overwrite"}

PublisherSteps == Steps \ {"sentinel", "emptied", "stuck", "removed", "absent"}
RemoverSteps == Steps \ ({"snapped", "staged", "dropped", "withdraw", "unlink", "published"} \cup Writing)

\* The names a call owns, by how far it is.
NamesOK(a) ==
    /\ a \in Publishers => pc[a] \in PublisherSteps
    /\ a \in Removers => pc[a] \in RemoverSteps
    /\ pc[a] \in {"idle", "captured", "snapped", "absent"} => temp[a] = Nothing
    /\ spare[a] # Nothing =>
          \/ pc[a] \in Writing \cup {"dead"}
          \/ pc[a] \in {"cleanup", "failed"} /\ ~(broken[a] \subseteq {"putback"})
    /\ a \in Publishers /\ pc[a] \in {"published", "dropped"} => temp[a] = Nothing
    /\ a \in Publishers /\ pc[a] = "failed" /\ broken[a] \subseteq {"putback"} => temp[a] = Nothing
    /\ a \in Publishers /\ ~cas /\ pc[a] = "installed" => temp[a] = Nothing
    /\ pc[a] \in Exchanged \cup {"restored", "reswap", "stuck"} => cas
    /\ pc[a] = "overwrite" => ~cas

Base == TypeOK /\ \A a \in Actors : NamesOK(a)

-----------------------------------------------------------------------------
\* The inodes of a call are its own, and none is Nothing.
LEMMA OwnInodes ==
    /\ \A a \in Publishers : Candidate(a) \in Inodes /\ Inode("restore", a) \in Inodes
    /\ \A a \in Removers : Sentinel(a) \in Inodes
    /\ \A e \in Edits : Inode("file", e) \in Inodes
    /\ Inode("file", Initial) \in Inodes
    /\ Nothing \notin Inodes
    /\ \A i \in Inodes : i.by \in Authors
BY PublicationAssumption DEF Inodes, Inode, Candidate, Sentinel, Authors, Actors

\* What a snapshot reports is an identity.
LEMMA IdentityType ==
    ASSUME TypeOK, NEW i \in Inodes \cup {Nothing}
    PROVE  Identity(i) \in Identities \cup {Nothing}
BY DEF TypeOK, Identity, Identities

LEMMA PathSteps ==
    /\ Writing \subseteq Steps
    /\ Ended \subseteq Steps
BY DEF Writing, Steps, Ended, Published

-----------------------------------------------------------------------------
\* One call at a time is touched by its step: the others keep their names,
\* their guards and their place.
LEMMA Frame ==
    ASSUME TypeOK, NEW a \in Actors, Acts(a)
    PROVE  /\ cas' = cas
           /\ done' = done
           /\ pc[a] \notin Ended
           /\ \A b \in Actors \ {a} :
                /\ pc'[b] = pc[b]
                /\ temp'[b] = temp[b]
                /\ spare'[b] = spare[b]
                /\ guard'[b] = guard[b]
                /\ broken'[b] = broken[b]
<1> USE DEF Goes, Keeps, Fails, names, SwapsTemp, TypeOK, Ended
<1>1. CASE Capture(a)
  BY <1>1 DEF Capture
<1>2. CASE Snapshot(a)
  BY <1>2 DEF Snapshot
<1>3. CASE Stage(a)
  BY <1>3 DEF Stage
<1>4. CASE Check(a)
  BY <1>4 DEF Check
<1>5. CASE GiveUp(a)
  BY <1>5 DEF GiveUp
<1>6. CASE Exchange(a)
  BY <1>6 DEF Exchange
<1>7. CASE Compare(a)
  BY <1>7 DEF Compare
<1>8. CASE SwapBack(a)
  BY <1>8 DEF SwapBack
<1>9. CASE Link(a)
  BY <1>9 DEF Link
<1>10. CASE Replace(a)
  BY <1>10 DEF Replace
<1>11. CASE DropDisplaced(a)
  BY <1>11 DEF DropDisplaced
<1>12. CASE Confirm(a)
  BY <1>12 DEF Confirm
<1>13. CASE Doubt(a)
  BY <1>13 DEF Doubt
<1>14. CASE Withdraw(a)
  BY <1>14 DEF Withdraw
<1>15. CASE LeaveIt(a)
  BY <1>15 DEF LeaveIt
<1>16. CASE UnlinkCandidate(a)
  BY <1>16 DEF UnlinkCandidate
<1>17. CASE SwapRestore(a)
  BY <1>17 DEF SwapRestore
<1>18. CASE CompareRestore(a)
  BY <1>18 DEF CompareRestore
<1>19. CASE UnswapRestore(a)
  BY <1>19 DEF UnswapRestore
<1>20. CASE RecheckRestore(a)
  BY <1>20 DEF RecheckRestore
<1>21. CASE ReplaceRestore(a)
  BY <1>21 DEF ReplaceRestore
<1>22. CASE Cleanup(a)
  BY <1>22 DEF Cleanup
<1>23. CASE RemoveNothing(a)
  BY <1>23 DEF RemoveNothing
<1>24. CASE PutSentinel(a)
  BY <1>24 DEF PutSentinel
<1>25. CASE RemoveSentinel(a)
  BY <1>25 DEF RemoveSentinel
<1>26. CASE Reseat(a)
  BY <1>26 DEF Reseat
<1>27. CASE Removed(a)
  BY <1>27 DEF Removed
<1>28. CASE Relink(a)
  BY <1>28 DEF Relink
<1>29. CASE PortableCheck(a)
  BY <1>29 DEF PortableCheck
<1>30. CASE PortableRemove(a)
  BY <1>30 DEF PortableRemove
<1>31. CASE PortableEnd(a)
  BY <1>31 DEF PortableEnd
<1>32. CASE Crash(a)
  BY <1>32 DEF Crash
<1>33. CASE SwapBackFails(a)
  BY <1>33 DEF SwapBackFails
<1>34. CASE RollbackFails(a)
  BY <1>34 DEF RollbackFails
<1>35. CASE Misread(a)
  BY <1>35 DEF Misread
<1>36. CASE UnswapLeaves(a)
  BY <1>36 DEF UnswapLeaves
<1>37. CASE CleanupFails(a)
  BY <1>37 DEF CleanupFails
<1>38. CASE PutBackFails(a)
  BY <1>38 DEF PutBackFails
<1> QED
  BY <1>1, <1>2, <1>3, <1>4, <1>5, <1>6, <1>7, <1>8, <1>9, <1>10, <1>11, <1>12, <1>13, <1>14,
     <1>15, <1>16, <1>17, <1>18, <1>19, <1>20, <1>21, <1>22, <1>23, <1>24, <1>25, <1>26, <1>27,
     <1>28, <1>29, <1>30, <1>31, <1>32, <1>33, <1>34, <1>35, <1>36, <1>37, <1>38
     DEF Acts, Publishing, Restoring, Deleting

-----------------------------------------------------------------------------
\* Every step keeps the types and the names of its own call.
LEMMA OwnNames ==
    ASSUME Base, NEW a \in Actors, Acts(a)
    PROVE  TypeOK' /\ NamesOK(a)'
<1> USE PublicationAssumption, OwnInodes
<1> TypeOK /\ NamesOK(a)
  BY DEF Base
<1> USE DEF Goes, Keeps, Fails, names, SwapsTemp, TypeOK, NamesOK, Actors, PublisherSteps,
            RemoverSteps, Steps, Waiting, Exchanged, Published, Removing, Ended, Writing, Failures
<1>1. CASE Capture(a)
  <2>1. TypeOK'
    BY <1>1, IdentityType DEF Capture
  <2>2. NamesOK(a)'
    BY <1>1 DEF Capture
  <2> QED BY <2>1, <2>2
<1>2. CASE Snapshot(a)
  <2>1. TypeOK'
    BY <1>2 DEF Snapshot
  <2>2. NamesOK(a)'
    BY <1>2 DEF Snapshot
  <2> QED BY <2>1, <2>2
<1>3. CASE Stage(a)
  <2>1. TypeOK'
    BY <1>3 DEF Stage
  <2>2. NamesOK(a)'
    BY <1>3 DEF Stage
  <2> QED BY <2>1, <2>2
<1>4. CASE Check(a)
  <2>1. TypeOK'
    BY <1>4 DEF Check
  <2>2. NamesOK(a)'
    BY <1>4 DEF Check
  <2> QED BY <2>1, <2>2
<1>5. CASE GiveUp(a)
  <2>1. TypeOK'
    BY <1>5 DEF GiveUp
  <2>2. NamesOK(a)'
    BY <1>5 DEF GiveUp
  <2> QED BY <2>1, <2>2
<1>6. CASE Exchange(a)
  <2>1. TypeOK'
    BY <1>6 DEF Exchange
  <2>2. NamesOK(a)'
    BY <1>6 DEF Exchange
  <2> QED BY <2>1, <2>2
<1>7. CASE Compare(a)
  <2>1. TypeOK'
    BY <1>7 DEF Compare
  <2>2. NamesOK(a)'
    BY <1>7 DEF Compare
  <2> QED BY <2>1, <2>2
<1>8. CASE SwapBack(a)
  <2>1. TypeOK'
    BY <1>8 DEF SwapBack
  <2>2. NamesOK(a)'
    BY <1>8 DEF SwapBack
  <2> QED BY <2>1, <2>2
<1>9. CASE Link(a)
  <2>1. TypeOK'
    BY <1>9 DEF Link
  <2>2. NamesOK(a)'
    BY <1>9 DEF Link
  <2> QED BY <2>1, <2>2
<1>10. CASE Replace(a)
  <2>1. TypeOK'
    BY <1>10 DEF Replace
  <2>2. NamesOK(a)'
    BY <1>10 DEF Replace
  <2> QED BY <2>1, <2>2
<1>11. CASE DropDisplaced(a)
  <2>1. TypeOK'
    BY <1>11 DEF DropDisplaced
  <2>2. NamesOK(a)'
    BY <1>11 DEF DropDisplaced
  <2> QED BY <2>1, <2>2
<1>12. CASE Confirm(a)
  <2>1. TypeOK'
    BY <1>12 DEF Confirm
  <2>2. NamesOK(a)'
    BY <1>12 DEF Confirm
  <2> QED BY <2>1, <2>2
<1>13. CASE Doubt(a)
  <2>1. TypeOK'
    BY <1>13 DEF Doubt
  <2>2. NamesOK(a)'
    BY <1>13 DEF Doubt
  <2> QED BY <2>1, <2>2
<1>14. CASE Withdraw(a)
  <2>1. TypeOK'
    BY <1>14 DEF Withdraw, Existed, Identities
  <2>2. NamesOK(a)'
    BY <1>14 DEF Withdraw, Existed, Identities
  <2> QED BY <2>1, <2>2
<1>15. CASE LeaveIt(a)
  <2>1. TypeOK'
    BY <1>15 DEF LeaveIt
  <2>2. NamesOK(a)'
    BY <1>15 DEF LeaveIt
  <2> QED BY <2>1, <2>2
<1>16. CASE UnlinkCandidate(a)
  <2>1. TypeOK'
    BY <1>16 DEF UnlinkCandidate
  <2>2. NamesOK(a)'
    BY <1>16 DEF UnlinkCandidate
  <2> QED BY <2>1, <2>2
<1>17. CASE SwapRestore(a)
  <2>1. TypeOK'
    BY <1>17 DEF SwapRestore
  <2>2. NamesOK(a)'
    BY <1>17 DEF SwapRestore
  <2> QED BY <2>1, <2>2
<1>18. CASE CompareRestore(a)
  <2>1. TypeOK'
    BY <1>18 DEF CompareRestore
  <2>2. NamesOK(a)'
    BY <1>18 DEF CompareRestore
  <2> QED BY <2>1, <2>2
<1>19. CASE UnswapRestore(a)
  <2>1. TypeOK'
    BY <1>19 DEF UnswapRestore
  <2>2. NamesOK(a)'
    BY <1>19 DEF UnswapRestore
  <2> QED BY <2>1, <2>2
<1>20. CASE RecheckRestore(a)
  <2>1. TypeOK'
    BY <1>20 DEF RecheckRestore
  <2>2. NamesOK(a)'
    BY <1>20 DEF RecheckRestore
  <2> QED BY <2>1, <2>2
<1>21. CASE ReplaceRestore(a)
  <2>1. TypeOK'
    BY <1>21 DEF ReplaceRestore
  <2>2. NamesOK(a)'
    BY <1>21 DEF ReplaceRestore
  <2> QED BY <2>1, <2>2
<1>22. CASE Cleanup(a)
  <2>1. TypeOK'
    BY <1>22 DEF Cleanup, IsFile
  <2>2. NamesOK(a)'
    BY <1>22 DEF Cleanup, IsFile
  <2> QED BY <2>1, <2>2
<1>23. CASE RemoveNothing(a)
  <2>1. TypeOK'
    BY <1>23 DEF RemoveNothing
  <2>2. NamesOK(a)'
    BY <1>23 DEF RemoveNothing
  <2> QED BY <2>1, <2>2
<1>24. CASE PutSentinel(a)
  <2>1. TypeOK'
    BY <1>24 DEF PutSentinel
  <2>2. NamesOK(a)'
    BY <1>24 DEF PutSentinel
  <2> QED BY <2>1, <2>2
<1>25. CASE RemoveSentinel(a)
  <2>1. TypeOK'
    BY <1>25 DEF RemoveSentinel
  <2>2. NamesOK(a)'
    BY <1>25 DEF RemoveSentinel
  <2> QED BY <2>1, <2>2
<1>26. CASE Reseat(a)
  <2>1. TypeOK'
    BY <1>26 DEF Reseat
  <2>2. NamesOK(a)'
    BY <1>26 DEF Reseat
  <2> QED BY <2>1, <2>2
<1>27. CASE Removed(a)
  <2>1. TypeOK'
    BY <1>27 DEF Removed
  <2>2. NamesOK(a)'
    BY <1>27 DEF Removed
  <2> QED BY <2>1, <2>2
<1>28. CASE Relink(a)
  <2>1. TypeOK'
    BY <1>28 DEF Relink
  <2>2. NamesOK(a)'
    BY <1>28 DEF Relink
  <2> QED BY <2>1, <2>2
<1>29. CASE PortableCheck(a)
  <2>1. TypeOK'
    BY <1>29 DEF PortableCheck
  <2>2. NamesOK(a)'
    BY <1>29 DEF PortableCheck
  <2> QED BY <2>1, <2>2
<1>30. CASE PortableRemove(a)
  <2>1. TypeOK'
    BY <1>30 DEF PortableRemove
  <2>2. NamesOK(a)'
    BY <1>30 DEF PortableRemove
  <2> QED BY <2>1, <2>2
<1>31. CASE PortableEnd(a)
  <2>1. TypeOK'
    BY <1>31 DEF PortableEnd
  <2>2. NamesOK(a)'
    BY <1>31 DEF PortableEnd
  <2> QED BY <2>1, <2>2
<1>32. CASE Crash(a)
  <2>1. TypeOK'
    BY <1>32 DEF Crash
  <2>2. NamesOK(a)'
    BY <1>32 DEF Crash
  <2> QED BY <2>1, <2>2
<1>33. CASE SwapBackFails(a)
  <2>1. TypeOK'
    BY <1>33 DEF SwapBackFails
  <2>2. NamesOK(a)'
    BY <1>33 DEF SwapBackFails
  <2> QED BY <2>1, <2>2
<1>34. CASE RollbackFails(a)
  <2>1. TypeOK'
    BY <1>34 DEF RollbackFails
  <2>2. NamesOK(a)'
    <3>1. "rollback" \in broken'[a] /\ pc'[a] = "cleanup" /\ cas' = cas
      BY <1>34 DEF RollbackFails
    <3>2. a \notin Removers
      BY <1>34 DEF RollbackFails
    <3> QED BY <3>1, <3>2
  <2> QED BY <2>1, <2>2
<1>35. CASE Misread(a)
  <2>1. TypeOK'
    BY <1>35 DEF Misread
  <2>2. NamesOK(a)'
    BY <1>35 DEF Misread
  <2> QED BY <2>1, <2>2
<1>36. CASE UnswapLeaves(a)
  <2>1. TypeOK'
    BY <1>36 DEF UnswapLeaves
  <2>2. NamesOK(a)'
    BY <1>36 DEF UnswapLeaves
  <2> QED BY <2>1, <2>2
<1>37. CASE CleanupFails(a)
  <2>1. TypeOK'
    BY <1>37 DEF CleanupFails
  <2>2. NamesOK(a)'
    <3>1. /\ "unlink" \in broken'[a] /\ pc'[a] = "failed" /\ UNCHANGED <<cas, temp, spare>>
          /\ pc[a] = "cleanup" \/ (~cas /\ a \in Publishers /\ pc[a] = "installed")
      BY <1>37 DEF CleanupFails
    <3> QED BY <3>1
  <2> QED BY <2>1, <2>2
<1>38. CASE PutBackFails(a)
  <2>1. TypeOK'
    BY <1>38 DEF PutBackFails
  <2>2. NamesOK(a)'
    BY <1>38 DEF PutBackFails
  <2> QED BY <2>1, <2>2
<1> QED
  BY <1>1, <1>2, <1>3, <1>4, <1>5, <1>6, <1>7, <1>8, <1>9, <1>10, <1>11, <1>12, <1>13, <1>14,
     <1>15, <1>16, <1>17, <1>18, <1>19, <1>20, <1>21, <1>22, <1>23, <1>24, <1>25, <1>26, <1>27,
     <1>28, <1>29, <1>30, <1>31, <1>32, <1>33, <1>34, <1>35, <1>36, <1>37, <1>38
     DEF Acts, Publishing, Restoring, Deleting

\* An external writer leaves the calls and their names alone.
LEMMA ExternalNames ==
    ASSUME Base, NEW e \in Edits, External(e)
    PROVE  Base'
<1>1. TypeOK'
  BY OwnInodes DEF Base, External, SaveOver, WriteInto, TypeOK, Authors
<1>2. \A a \in Actors : NamesOK(a)'
  BY DEF Base, External, NamesOK
<1> QED BY <1>1, <1>2 DEF Base

\* Whatever the calls and the writers do, every name a call owns is known from
\* how far it is.
LEMMA NextBase ==
    ASSUME Base, [Next]_vars
    PROVE  Base'
<1>1. CASE UNCHANGED vars
  BY <1>1 DEF Base, vars, names, TypeOK, NamesOK
<1>2. ASSUME NEW a \in Actors, Acts(a) PROVE Base'
  <2>1. TypeOK' /\ NamesOK(a)'
    BY <1>2, OwnNames
  <2>2. ASSUME NEW b \in Actors, b # a PROVE NamesOK(b)'
    <3>1. /\ cas' = cas
          /\ pc'[b] = pc[b]
          /\ temp'[b] = temp[b]
          /\ spare'[b] = spare[b]
          /\ broken'[b] = broken[b]
      BY <1>2, <2>2, Frame DEF Base
    <3> QED BY <3>1 DEF Base, NamesOK
  <2> QED BY <2>1, <2>2 DEF Base
<1> QED BY <1>1, <1>2, ExternalNames DEF Next, Acts

LEMMA InitBase ==
    ASSUME Init
    PROVE  Base
<1>1. TypeOK
  BY OwnInodes DEF Init, TypeOK, Steps, Inodes, Failures
<1>2. \A a \in Actors : NamesOK(a)
  BY PublicationAssumption DEF Init, NamesOK, PublisherSteps, RemoverSteps, Steps, Waiting, Exchanged,
     Published, Removing, Ended, Writing, Actors
<1> QED BY <1>1, <1>2 DEF Base

LEMMA BaseHolds == Spec => []Base
BY InitBase, NextBase, PTL DEF Spec

\* Every variable keeps its type, serialised or not.
THEOREM TypeCorrect == Spec => []TypeOK
<1>1. Base => TypeOK
  BY DEF Base
<1> QED BY <1>1, BaseHolds, PTL

\* A publication that has returned has left neither its .tmp nor its .restore
\* name (the finally of atomic_publish_bytes) unless its rollback or an unlink has
\* failed, serialised or not.
THEOREM NothingLeft == Spec => []NoResidue
<1>1. Base => NoResidue
  <2> SUFFICES ASSUME Base, NEW a \in Publishers, pc[a] \in Ended \ {"dead"},
                      broken[a] \subseteq {"putback"}
               PROVE  temp[a] = Nothing /\ spare[a] = Nothing
    BY DEF NoResidue
  <2>1. NamesOK(a) /\ a \in Actors
    BY DEF Base, Actors
  <2>2. temp[a] = Nothing
    BY <2>1 DEF NamesOK, PublisherSteps, Ended
  <2>3. spare[a] = Nothing
    BY <2>1 DEF NamesOK, Ended, Writing
  <2> QED BY <2>2, <2>3
<1> QED BY <1>1, BaseHolds, PTL

-----------------------------------------------------------------------------
\* What serialisation adds: one call is under way at a time.
Alone == \A a, b \in Actors : Active(a) /\ Active(b) => a = b

LEMMA NextAlone ==
    ASSUME Serialised, Base, Alone, [Next]_vars
    PROVE  Alone'
<1>1. CASE UNCHANGED vars
  BY <1>1 DEF Alone, Active, vars, names
<1>2. ASSUME NEW e \in Edits, External(e) PROVE Alone'
  BY <1>2 DEF Alone, Active, External
<1>3. ASSUME NEW a \in Actors, Acts(a) PROVE Alone'
  <2>1. \A b \in Actors \ {a} : pc'[b] = pc[b]
    BY <1>3, Frame DEF Base
  <2>2. pc[a] \notin Ended
    BY <1>3, Frame DEF Base
  <2>3. CASE pc[a] = "idle"
    <3>1. Capture(a)
      BY <1>3, <2>3 DEF Acts, Publishing, Restoring, Deleting, Snapshot, Stage, Check, GiveUp, Exchange,
         Compare, SwapBack, SwapBackFails, Link, Replace, DropDisplaced, Confirm, Doubt, Withdraw, LeaveIt,
         UnlinkCandidate, SwapRestore, CompareRestore, UnswapRestore, RecheckRestore, ReplaceRestore,
         RollbackFails, Misread, UnswapLeaves, Cleanup, CleanupFails, RemoveNothing, PutSentinel, RemoveSentinel, Reseat, Removed, Relink, PutBackFails, PortableCheck,
         PortableRemove, PortableEnd, Crash, Goes, Keeps, Fails
    <3>2. \A b \in Actors : ~Active(b)
      BY <3>1 DEF Capture, Unlocked, Active
    <3> QED BY <2>1, <3>2 DEF Alone, Active
  <2>4. CASE pc[a] # "idle"
    <3>1. Active(a)
      BY <2>2, <2>4 DEF Active
    <3>2. \A b \in Actors \ {a} : ~Active(b)
      BY <3>1 DEF Alone
    <3> QED BY <2>1, <3>2 DEF Alone, Active
  <2> QED BY <2>3, <2>4
<1> QED BY <1>1, <1>2, <1>3 DEF Next, Acts

LEMMA InitAlone ==
    ASSUME Init
    PROVE  Alone
BY DEF Init, Alone, Active

\* While one call acts, no other is under way.
LEMMA OthersWait ==
    ASSUME Serialised, TypeOK, Alone, NEW b \in Actors, Acts(b), NEW a \in Actors, a # b
    PROVE  ~Active(a)
<1>1. CASE Active(b)
  BY <1>1 DEF Alone
<1>2. CASE ~Active(b)
  <2>1. pc[b] = "idle"
    BY <1>2, Frame DEF Active
  <2>2. Capture(b)
    BY <2>1 DEF Acts, Publishing, Restoring, Deleting, Snapshot, Stage, Check, GiveUp, Exchange,
       Compare, SwapBack, SwapBackFails, Link, Replace, DropDisplaced, Confirm, Doubt, Withdraw, LeaveIt,
       UnlinkCandidate, SwapRestore, CompareRestore, UnswapRestore, RecheckRestore, ReplaceRestore,
       RollbackFails, Misread, UnswapLeaves, Cleanup, CleanupFails, RemoveNothing, PutSentinel, RemoveSentinel, Reseat, Removed, Relink, PutBackFails, PortableCheck,
       PortableRemove, PortableEnd, Crash, Goes, Keeps, Fails
  <2> QED BY <2>2 DEF Capture, Unlocked, Active
<1> QED BY <1>1, <1>2

\* A step moves no inode but those of its own names, and makes only its own.
LEMMA Effect ==
    ASSUME Base, NEW b \in Actors, Acts(b)
    PROVE  /\ target' \in {target, temp[b], spare[b], Nothing}
           /\ temp'[b] \in {temp[b], target, Nothing, Candidate(b), Sentinel(b)}
           /\ spare'[b] \in {spare[b], target, Nothing, Inode("restore", b)}
           /\ \A i \in Inodes : i # Inode("restore", b) => data'[i] = data[i]
<1> TypeOK
  BY DEF Base
<1> USE DEF Goes, Keeps, Fails, names, SwapsTemp, TypeOK
<1>1. CASE Capture(b)
  BY <1>1 DEF Capture
<1>2. CASE Snapshot(b)
  BY <1>2 DEF Snapshot
<1>3. CASE Stage(b)
  BY <1>3 DEF Stage
<1>4. CASE Check(b)
  BY <1>4 DEF Check
<1>5. CASE GiveUp(b)
  BY <1>5 DEF GiveUp
<1>6. CASE Exchange(b)
  BY <1>6 DEF Exchange
<1>7. CASE Compare(b)
  BY <1>7 DEF Compare
<1>8. CASE SwapBack(b)
  BY <1>8 DEF SwapBack
<1>9. CASE Link(b)
  BY <1>9 DEF Link
<1>10. CASE Replace(b)
  BY <1>10 DEF Replace
<1>11. CASE DropDisplaced(b)
  BY <1>11 DEF DropDisplaced
<1>12. CASE Confirm(b)
  BY <1>12 DEF Confirm
<1>13. CASE Doubt(b)
  BY <1>13 DEF Doubt
<1>14. CASE Withdraw(b)
  BY <1>14 DEF Withdraw
<1>15. CASE LeaveIt(b)
  BY <1>15 DEF LeaveIt
<1>16. CASE UnlinkCandidate(b)
  BY <1>16 DEF UnlinkCandidate
<1>17. CASE SwapRestore(b)
  BY <1>17 DEF SwapRestore
<1>18. CASE CompareRestore(b)
  BY <1>18 DEF CompareRestore
<1>19. CASE UnswapRestore(b)
  BY <1>19 DEF UnswapRestore
<1>20. CASE RecheckRestore(b)
  BY <1>20 DEF RecheckRestore
<1>21. CASE ReplaceRestore(b)
  BY <1>21 DEF ReplaceRestore
<1>22. CASE Cleanup(b)
  BY <1>22 DEF Cleanup
<1>23. CASE RemoveNothing(b)
  BY <1>23 DEF RemoveNothing
<1>24. CASE PutSentinel(b)
  BY <1>24 DEF PutSentinel
<1>25. CASE RemoveSentinel(b)
  BY <1>25 DEF RemoveSentinel
<1>26. CASE Reseat(b)
  BY <1>26 DEF Reseat
<1>27. CASE Removed(b)
  BY <1>27 DEF Removed
<1>28. CASE Relink(b)
  BY <1>28 DEF Relink
<1>29. CASE PortableCheck(b)
  BY <1>29 DEF PortableCheck
<1>30. CASE PortableRemove(b)
  BY <1>30 DEF PortableRemove
<1>31. CASE PortableEnd(b)
  BY <1>31 DEF PortableEnd
<1>32. CASE Crash(b)
  BY <1>32 DEF Crash
<1>33. CASE SwapBackFails(b)
  BY <1>33 DEF SwapBackFails
<1>34. CASE RollbackFails(b)
  BY <1>34 DEF RollbackFails
<1>35. CASE Misread(b)
  BY <1>35 DEF Misread
<1>36. CASE UnswapLeaves(b)
  BY <1>36 DEF UnswapLeaves
<1>37. CASE CleanupFails(b)
  BY <1>37 DEF CleanupFails
<1>38. CASE PutBackFails(b)
  BY <1>38 DEF PutBackFails
<1> QED
  BY <1>1, <1>2, <1>3, <1>4, <1>5, <1>6, <1>7, <1>8, <1>9, <1>10, <1>11, <1>12, <1>13, <1>14,
     <1>15, <1>16, <1>17, <1>18, <1>19, <1>20, <1>21, <1>22, <1>23, <1>24, <1>25, <1>26, <1>27,
     <1>28, <1>29, <1>30, <1>31, <1>32, <1>33, <1>34, <1>35, <1>36, <1>37, <1>38
     DEF Acts, Publishing, Restoring, Deleting

-----------------------------------------------------------------------------
\* A candidate written over from outside is nobody's candidate any more.
Spoilt(a) == data[Candidate(a)] # a

\* The candidate of a call is neither published nor in the hands of another.
Elsewhere(a) ==
    /\ target # Candidate(a)
    /\ \A b \in Actors \ {a} : Active(b) => temp[b] # Candidate(a) /\ spare[b] # Candidate(a)

\* Where the candidate of a call that is not publishing it cannot be.
AbsentOK(a) ==
    /\ pc[a] \in {"idle", "captured", "snapped", "staged", "checked"} => Elsewhere(a)
    /\ cas /\ pc[a] = "failed" /\ "rollback" \notin broken[a] => Spoilt(a) \/ Elsewhere(a)
    /\ cas /\ pc[a] = "cleanup" /\ "rollback" \notin broken[a] => Spoilt(a) \/ target # Candidate(a)
    /\ pc[a] \in Exchanged => temp[a] # Candidate(a)
    /\ cas /\ pc[a] = "rewrite" => spare[a] # Candidate(a)
    /\ pc[a] = "restored" => Spoilt(a) \/ target # Candidate(a)
    /\ pc[a] = "reswap" /\ "rollback" \notin broken[a] => Spoilt(a) \/ spare[a] # Candidate(a)

Absent == \A a \in Publishers : AbsentOK(a)

LEMMA CandidateIsOwn ==
    ASSUME NEW a \in Publishers, NEW b \in Actors
    PROVE  /\ Candidate(a) # Nothing
           /\ Candidate(a) # Sentinel(b)
           /\ Candidate(a) # Inode("restore", b)
           /\ Candidate(a) # Inode("file", b)
           /\ a # b => Candidate(a) # Candidate(b)
<1>1. Candidate(a) # Nothing
  BY OwnInodes
<1>2. /\ Candidate(a) # Sentinel(b)
      /\ Candidate(a) # Inode("restore", b)
      /\ Candidate(a) # Inode("file", b)
      /\ a # b => Candidate(a) # Candidate(b)
  BY DEF Candidate, Sentinel, Inode
<1> QED BY <1>1, <1>2

LEMMA ExternalAbsent ==
    ASSUME Base, Absent, NEW e \in Edits, External(e), NEW a \in Publishers
    PROVE  AbsentOK(a)'
<1>1. Candidate(a) \in Inodes /\ e # a
  BY OwnInodes, PublicationAssumption DEF Actors
<1>2. Spoilt(a) => Spoilt(a)'
  BY <1>1 DEF Base, TypeOK, External, SaveOver, WriteInto, Spoilt, Candidate
<1>3. target' # target => target' # Candidate(a)
  BY DEF External, SaveOver, WriteInto, Candidate, Inode
<1>4. cas' = cas /\ temp' = temp /\ spare' = spare /\ pc' = pc /\ broken' = broken
  BY DEF External
<1>5. Elsewhere(a) => Elsewhere(a)'
  BY <1>3, <1>4 DEF Elsewhere, Active
<1>6. AbsentOK(a)
  BY DEF Absent
<1> QED BY <1>2, <1>3, <1>4, <1>5, <1>6 DEF AbsentOK

\* A step of another call, which finds this one at rest.
LEMMA OthersAbsent ==
    ASSUME Serialised, Base, Alone, Absent, NEW b \in Actors, Acts(b), NEW a \in Publishers, a # b
    PROVE  AbsentOK(a)'
<1>0. a \in Actors
  BY DEF Actors
<1>1. ~Active(a) /\ pc[a] \in Steps
  BY <1>0, OthersWait DEF Base, TypeOK
<1>2. /\ cas' = cas
      /\ pc[b] \notin Ended
      /\ \A c \in Actors \ {b} : /\ pc'[c] = pc[c] /\ temp'[c] = temp[c] /\ spare'[c] = spare[c]
                                /\ broken'[c] = broken[c]
  BY Frame DEF Base
<1>3. /\ Candidate(a) # Nothing
      /\ Candidate(a) # Sentinel(b)
      /\ Candidate(a) # Inode("restore", b)
      /\ Candidate(a) # Candidate(b)
  BY CandidateIsOwn
<1>4. data'[Candidate(a)] = data[Candidate(a)]
  BY <1>3, OwnInodes, Effect
<1>5. ASSUME Elsewhere(a) PROVE Elsewhere(a)'
  <2>1. temp[b] # Candidate(a) /\ spare[b] # Candidate(a)
    <3>1. CASE Active(b)
      BY <1>5, <3>1 DEF Elsewhere
    <3>2. CASE ~Active(b)
      <4>1. pc[b] = "idle"
        BY <1>2, <3>2 DEF Active
      <4>2. temp[b] = Nothing /\ spare[b] = Nothing
        BY <4>1 DEF Base, NamesOK, Writing
      <4> QED BY <4>2, <1>3
    <3> QED BY <3>1, <3>2
  <2>2. target # Candidate(a)
    BY <1>5 DEF Elsewhere
  <2>3. target' # Candidate(a) /\ temp'[b] # Candidate(a) /\ spare'[b] # Candidate(a)
    BY <2>1, <2>2, <1>3, Effect
  <2> QED BY <1>2, <1>5, <2>3 DEF Elsewhere, Active
<1>6. pc'[a] = pc[a] /\ broken'[a] = broken[a]
  BY <1>0, <1>2
<1>7. AbsentOK(a)
  BY DEF Absent
<1>8. Spoilt(a)' <=> Spoilt(a)
  BY <1>4 DEF Spoilt, Candidate
<1> QED BY <1>1, <1>2, <1>5, <1>6, <1>7, <1>8 DEF AbsentOK, Active, Ended, Exchanged

\* A step of the call itself, while every other rests.
LEMMA OwnAbsent ==
    ASSUME Serialised, Base, Alone, Absent, NEW a \in Publishers, Acts(a)
    PROVE  AbsentOK(a)'
<1>0. a \in Actors
  BY DEF Actors
<1>1. \A b \in Actors \ {a} : ~Active(b)'
  BY <1>0, OthersWait, Frame DEF Base, Active
<1>2. Elsewhere(a)' <=> target' # Candidate(a)
  BY <1>1 DEF Elsewhere, Candidate
<1>3. Spoilt(a)' <=> Spoilt(a)
  <2>1. Candidate(a) \in Inodes /\ Candidate(a) # Inode("restore", a)
    BY <1>0, OwnInodes, CandidateIsOwn
  <2> QED BY <2>1, <1>0, Effect DEF Spoilt, Candidate
<1>4. Candidate(a) # Nothing /\ Candidate(a) # Inode("restore", a)
  BY <1>0, CandidateIsOwn
<1>5. /\ TypeOK
      /\ NamesOK(a)
      /\ AbsentOK(a)
  BY <1>0 DEF Base, Absent
<1>6. Elsewhere(a) => target # Candidate(a)
  BY DEF Elsewhere
<1>7. \A i : IsCandidate(a, i) <=> i = Candidate(a) /\ ~Spoilt(a)
  BY DEF IsCandidate, Spoilt
<1> USE <1>0, <1>2, <1>3, <1>4, <1>5, <1>6, <1>7
<1> HIDE DEF Elsewhere, Spoilt, Candidate, IsCandidate
<1> USE DEF Goes, Keeps, Fails, names, SwapsTemp, TypeOK, AbsentOK, NamesOK, Exchanged, Writing,
            Ended, PublisherSteps
<1>11. CASE Capture(a)
  BY <1>11 DEF Capture
<1>12. CASE Snapshot(a)
  BY <1>12 DEF Snapshot
<1>13. CASE Stage(a)
  BY <1>13 DEF Stage
<1>14. CASE Check(a)
  BY <1>14 DEF Check
<1>15. CASE GiveUp(a)
  BY <1>15 DEF GiveUp
<1>16. CASE Exchange(a)
  BY <1>16 DEF Exchange
<1>17. CASE Compare(a)
  BY <1>17 DEF Compare
<1>18. CASE SwapBack(a)
  BY <1>18 DEF SwapBack
<1>19. CASE Link(a)
  BY <1>19 DEF Link
<1>20. CASE Replace(a)
  BY <1>20 DEF Replace
<1>21. CASE DropDisplaced(a)
  BY <1>21 DEF DropDisplaced
<1>22. CASE Confirm(a)
  BY <1>22 DEF Confirm
<1>23. CASE Doubt(a)
  BY <1>23 DEF Doubt
<1>24. CASE Withdraw(a)
  BY <1>24 DEF Withdraw
<1>25. CASE LeaveIt(a)
  BY <1>25 DEF LeaveIt
<1>26. CASE UnlinkCandidate(a)
  BY <1>26 DEF UnlinkCandidate
<1>27. CASE SwapRestore(a)
  BY <1>27 DEF SwapRestore
<1>28. CASE CompareRestore(a)
  BY <1>28 DEF CompareRestore
<1>29. CASE UnswapRestore(a)
  BY <1>29 DEF UnswapRestore
<1>30. CASE RecheckRestore(a)
  BY <1>30 DEF RecheckRestore
<1>31. CASE ReplaceRestore(a)
  BY <1>31 DEF ReplaceRestore
<1>32. CASE Cleanup(a)
  BY <1>32 DEF Cleanup
<1>33. CASE RemoveNothing(a)
  BY <1>33 DEF RemoveNothing
<1>34. CASE PutSentinel(a)
  BY <1>34 DEF PutSentinel
<1>35. CASE RemoveSentinel(a)
  BY <1>35 DEF RemoveSentinel
<1>36. CASE Reseat(a)
  BY <1>36, PublicationAssumption DEF Reseat
<1>37. CASE Removed(a)
  BY <1>37 DEF Removed
<1>38. CASE Relink(a)
  BY <1>38 DEF Relink
<1>39. CASE PortableCheck(a)
  BY <1>39 DEF PortableCheck
<1>40. CASE PortableRemove(a)
  BY <1>40 DEF PortableRemove
<1>41. CASE PortableEnd(a)
  BY <1>41 DEF PortableEnd
<1>42. CASE Crash(a)
  BY <1>42 DEF Crash
<1>43. CASE SwapBackFails(a)
  BY <1>43 DEF SwapBackFails
<1>44. CASE RollbackFails(a)
  BY <1>44 DEF RollbackFails
<1>45. CASE Misread(a)
  BY <1>45 DEF Misread
<1>46. CASE UnswapLeaves(a)
  BY <1>46 DEF UnswapLeaves
<1>47. CASE CleanupFails(a)
  BY <1>47 DEF CleanupFails
<1>48. CASE PutBackFails(a)
  BY <1>48 DEF PutBackFails
<1> QED
  BY <1>11, <1>12, <1>13, <1>14, <1>15, <1>16, <1>17, <1>18, <1>19, <1>20, <1>21, <1>22, <1>23,
     <1>24, <1>25, <1>26, <1>27, <1>28, <1>29, <1>30, <1>31, <1>32, <1>33, <1>34, <1>35, <1>36,
     <1>37, <1>38, <1>39, <1>40, <1>41, <1>42, <1>43, <1>44, <1>45, <1>46, <1>47, <1>48
     DEF Acts, Publishing, Restoring, Deleting

SerialInv == Base /\ Alone /\ Absent

LEMMA InitAbsent ==
    ASSUME Init
    PROVE  Absent
<1> SUFFICES ASSUME NEW a \in Publishers
             PROVE  AbsentOK(a)
  BY DEF Absent
<1>1. a \in Actors /\ Candidate(a) # Nothing
  BY CandidateIsOwn DEF Actors
<1>2. target # Candidate(a)
  BY <1>1 DEF Init, Candidate, Inode
<1>3. Elsewhere(a)
  BY <1>1, <1>2 DEF Init, Elsewhere
<1> QED BY <1>1, <1>3 DEF Init, AbsentOK, Exchanged

LEMMA NextSerial ==
    ASSUME Serialised, SerialInv, [Next]_vars
    PROVE  SerialInv'
<1> USE DEF SerialInv
<1>1. Base' /\ Alone'
  BY NextBase, NextAlone
<1>2. CASE UNCHANGED vars
  <2>1. Absent'
    BY <1>2 DEF Absent, AbsentOK, Elsewhere, Spoilt, Active, vars, names
  <2> QED BY <1>1, <2>1
<1>3. ASSUME NEW e \in Edits, External(e) PROVE SerialInv'
  BY <1>1, <1>3, ExternalAbsent DEF Absent
<1>4. ASSUME NEW b \in Actors, Acts(b) PROVE SerialInv'
  <2>1. \A a \in Publishers : AbsentOK(a)'
    BY <1>4, OthersAbsent, OwnAbsent
  <2> QED BY <1>1, <2>1 DEF Absent
<1> QED BY <1>2, <1>3, <1>4 DEF Next, Acts

LEMMA SerialHolds == ASSUME Serialised PROVE Spec => []SerialInv
<1>1. Init => SerialInv
  BY InitBase, InitAlone, InitAbsent DEF SerialInv
<1>2. SerialInv /\ [Next]_vars => SerialInv'
  BY NextSerial
<1> QED BY <1>1, <1>2, PTL DEF Spec

\* Of calls under one lock, none that reports failure has left its candidate
\* at the name, whatever was written there from outside meanwhile, unless a step
\* of its rollback has failed.
THEOREM NoFailedCandidate == ASSUME Serialised PROVE Spec => []FailureLeavesNoCandidate
<1>1. SerialInv => FailureLeavesNoCandidate
  <2> SUFFICES ASSUME SerialInv, NEW a \in Publishers, cas, pc[a] = "failed", "rollback" \notin broken[a]
               PROVE  ~IsCandidate(a, target)
    BY DEF FailureLeavesNoCandidate
  <2>1. Spoilt(a) \/ target # Candidate(a)
    BY DEF SerialInv, Absent, AbsentOK, Elsewhere
  <2> QED BY <2>1 DEF Spoilt, IsCandidate
<1> QED BY <1>1, SerialHolds, PTL

-----------------------------------------------------------------------------
\* While nothing is being removed, every name in use holds a file.
Quiet == \A r \in Removers : pc[r] = "idle"

NoSentinel(i) == i # Nothing => i.kind # "sentinel"

FilesOK(a) ==
    /\ NoSentinel(temp[a])
    /\ NoSentinel(spare[a])
    /\ pc[a] \in {"staged", "checked"} \cup Exchanged => temp[a] # Nothing
    /\ pc[a] \in Writing => spare[a] # Nothing
    /\ Existed(a) => IsFile(target)
    /\ pc[a] \in Writing \cup Exchanged => Existed(a)
    /\ pc[a] \in {"idle", "unlink"} => ~Existed(a)
    /\ Active(a) /\ ~Existed(a) => \A b \in Publishers : ~Existed(b)

Files == Quiet => NoSentinel(target) /\ \A a \in Publishers : FilesOK(a)

LEMMA InitFiles ==
    ASSUME Init
    PROVE  Files
BY DEF Init, Files, FilesOK, NoSentinel, Existed, Active, Exchanged, Writing, Inode, Actors

LEMMA ExternalFiles ==
    ASSUME Files, NEW e \in Edits, External(e)
    PROVE  Files'
<1>1. /\ NoSentinel(target) => NoSentinel(target)'
      /\ IsFile(target) => IsFile(target')
  BY OwnInodes DEF External, SaveOver, WriteInto, NoSentinel, IsFile, Inode
<1> QED BY <1>1 DEF Files, FilesOK, Quiet, External, Existed, Active

\* While nothing is removed, it is a publication that acts.
LEMMA QuietActs ==
    ASSUME Base, NEW a \in Actors, Acts(a), Quiet'
    PROVE  Quiet /\ a \in Publishers
<1>1. pc'[a] # "idle"
  BY DEF Base, TypeOK, Acts, Publishing, Restoring, Deleting, Capture, Snapshot, Stage, Check, GiveUp, Exchange,
     Compare, SwapBack, SwapBackFails, Link, Replace, DropDisplaced, Confirm, Doubt, Withdraw, LeaveIt,
     UnlinkCandidate, SwapRestore, CompareRestore, UnswapRestore, RecheckRestore, ReplaceRestore,
     RollbackFails, Misread, UnswapLeaves, Cleanup, CleanupFails, RemoveNothing, PutSentinel, RemoveSentinel, Reseat, Removed, Relink, PutBackFails, PortableCheck,
     PortableRemove, PortableEnd, Crash, Goes, Keeps, Fails
<1>2. a \notin Removers
  BY <1>1 DEF Quiet
<1>3. \A b \in Actors \ {a} : pc'[b] = pc[b]
  BY Frame DEF Base
<1>4. Quiet
  BY <1>2, <1>3 DEF Quiet, Actors
<1> QED BY <1>2, <1>4 DEF Actors

\* What a publication does to the name and to its own names.
LEMMA OwnFiles ==
    ASSUME Base, NEW a \in Publishers, Acts(a), FilesOK(a), NoSentinel(target)
    PROVE  /\ NoSentinel(target')
           /\ IsFile(target) => IsFile(target') \/ pc[a] = "unlink"
           /\ NoSentinel(temp'[a])
           /\ NoSentinel(spare'[a])
           /\ pc'[a] \in {"staged", "checked"} \cup Exchanged => temp'[a] # Nothing
           /\ pc'[a] \in Writing => spare'[a] # Nothing
           /\ pc'[a] \in Writing \cup Exchanged => Existed(a)' /\ pc[a] # "idle"
           /\ pc'[a] \in {"idle", "unlink"} => ~Existed(a)'
           /\ pc[a] = "idle" => target' = target /\ guard'[a] = Identity(target)
           /\ pc[a] # "idle" => guard'[a] = guard[a]
<1>0. a \in Actors
  BY DEF Actors
<1>1. TypeOK /\ NamesOK(a)
  BY <1>0 DEF Base
<1>2. /\ NoSentinel(Candidate(a)) /\ Candidate(a) # Nothing
      /\ NoSentinel(Inode("restore", a)) /\ Inode("restore", a) # Nothing
  <2>1. Candidate(a) # Nothing /\ Inode("restore", a) # Nothing
    BY OwnInodes
  <2> QED BY <2>1 DEF NoSentinel, Candidate, Inode
<1>3. \A i : IsFile(i) <=> i # Nothing /\ NoSentinel(i)
  BY DEF IsFile, NoSentinel
<1>4. NoSentinel(Nothing)
  BY DEF NoSentinel
<1>5. a \notin Removers
  BY PublicationAssumption
<1> USE <1>0, <1>1, <1>2, <1>3, <1>4, <1>5
<1> HIDE DEF NoSentinel, IsFile, Candidate
<1> USE DEF Goes, Keeps, Fails, names, SwapsTemp, TypeOK, FilesOK, NamesOK, Existed, Exchanged,
            Writing, Ended, PublisherSteps
<1>11. CASE Capture(a)
  BY <1>11 DEF Capture
<1>12. CASE Snapshot(a)
  BY <1>12 DEF Snapshot
<1>13. CASE Stage(a)
  BY <1>13 DEF Stage
<1>14. CASE Check(a)
  BY <1>14 DEF Check
<1>15. CASE GiveUp(a)
  BY <1>15 DEF GiveUp
<1>16. CASE Exchange(a)
  BY <1>16 DEF Exchange
<1>17. CASE Compare(a)
  BY <1>17 DEF Compare
<1>18. CASE SwapBack(a)
  BY <1>18 DEF SwapBack
<1>19. CASE Link(a)
  BY <1>19 DEF Link
<1>20. CASE Replace(a)
  BY <1>20 DEF Replace
<1>21. CASE DropDisplaced(a)
  BY <1>21 DEF DropDisplaced
<1>22. CASE Confirm(a)
  BY <1>22 DEF Confirm
<1>23. CASE Doubt(a)
  BY <1>23 DEF Doubt
<1>24. CASE Withdraw(a)
  BY <1>24 DEF Withdraw
<1>25. CASE LeaveIt(a)
  BY <1>25 DEF LeaveIt
<1>26. CASE UnlinkCandidate(a)
  BY <1>26 DEF UnlinkCandidate
<1>27. CASE SwapRestore(a)
  BY <1>27 DEF SwapRestore
<1>28. CASE CompareRestore(a)
  BY <1>28 DEF CompareRestore
<1>29. CASE UnswapRestore(a)
  BY <1>29 DEF UnswapRestore
<1>30. CASE RecheckRestore(a)
  BY <1>30 DEF RecheckRestore
<1>31. CASE ReplaceRestore(a)
  BY <1>31 DEF ReplaceRestore
<1>32. CASE Cleanup(a)
  BY <1>32 DEF Cleanup
<1>33. CASE RemoveNothing(a)
  BY <1>33 DEF RemoveNothing
<1>34. CASE PutSentinel(a)
  BY <1>34 DEF PutSentinel
<1>35. CASE RemoveSentinel(a)
  BY <1>35 DEF RemoveSentinel
<1>36. CASE Reseat(a)
  BY <1>36 DEF Reseat
<1>37. CASE Removed(a)
  BY <1>37 DEF Removed
<1>38. CASE Relink(a)
  BY <1>38 DEF Relink
<1>39. CASE PortableCheck(a)
  BY <1>39 DEF PortableCheck
<1>40. CASE PortableRemove(a)
  BY <1>40 DEF PortableRemove
<1>41. CASE PortableEnd(a)
  BY <1>41 DEF PortableEnd
<1>42. CASE Crash(a)
  BY <1>42 DEF Crash
<1>43. CASE SwapBackFails(a)
  BY <1>43 DEF SwapBackFails
<1>44. CASE RollbackFails(a)
  BY <1>44 DEF RollbackFails
<1>45. CASE Misread(a)
  BY <1>45 DEF Misread
<1>46. CASE UnswapLeaves(a)
  BY <1>46 DEF UnswapLeaves
<1>47. CASE CleanupFails(a)
  BY <1>47 DEF CleanupFails
<1>48. CASE PutBackFails(a)
  BY <1>48 DEF PutBackFails
<1> QED
  BY <1>11, <1>12, <1>13, <1>14, <1>15, <1>16, <1>17, <1>18, <1>19, <1>20, <1>21, <1>22, <1>23,
     <1>24, <1>25, <1>26, <1>27, <1>28, <1>29, <1>30, <1>31, <1>32, <1>33, <1>34, <1>35, <1>36,
     <1>37, <1>38, <1>39, <1>40, <1>41, <1>42, <1>43, <1>44, <1>45, <1>46, <1>47, <1>48
     DEF Acts, Publishing, Restoring, Deleting

LEMMA NextFiles ==
    ASSUME Serialised, SerialInv, Files, [Next]_vars
    PROVE  Files'
<1>1. CASE UNCHANGED vars
  BY <1>1 DEF Files, FilesOK, Quiet, NoSentinel, IsFile, Existed, Active, vars, names
<1>2. ASSUME NEW a \in Actors, Acts(a), Quiet'
      PROVE  NoSentinel(target)' /\ \A b \in Publishers : FilesOK(b)'
  <2>1. Quiet /\ a \in Publishers
    BY <1>2, QuietActs DEF SerialInv
  <2>2. NoSentinel(target) /\ \A b \in Publishers : FilesOK(b)
    BY <2>1 DEF Files
  <2>3. /\ NoSentinel(target')
        /\ IsFile(target) => IsFile(target') \/ pc[a] = "unlink"
        /\ NoSentinel(temp'[a])
        /\ NoSentinel(spare'[a])
        /\ pc'[a] \in {"staged", "checked"} \cup Exchanged => temp'[a] # Nothing
        /\ pc'[a] \in Writing => spare'[a] # Nothing
        /\ pc'[a] \in Writing \cup Exchanged => Existed(a)' /\ pc[a] # "idle"
        /\ pc'[a] \in {"idle", "unlink"} => ~Existed(a)'
        /\ pc[a] = "idle" => target' = target /\ guard'[a] = Identity(target)
        /\ pc[a] # "idle" => guard'[a] = guard[a]
    BY <1>2, <2>1, <2>2, OwnFiles DEF SerialInv
  <2>4. \A b \in Publishers \ {a} :
          /\ pc'[b] = pc[b]
          /\ temp'[b] = temp[b]
          /\ spare'[b] = spare[b]
          /\ guard'[b] = guard[b]
          /\ ~Active(b)
    BY <1>2, Frame, OthersWait DEF SerialInv, Base, Actors
  <2>5. pc[a] \notin Ended
    BY <1>2, Frame DEF SerialInv, Base
  <2>6. Existed(a) => IsFile(target)
    BY <2>1, <2>2 DEF FilesOK
  <2>7. pc[a] = "unlink" => \A b \in Publishers : ~Existed(b)
    <3>1. pc[a] = "unlink" => Active(a) /\ ~Existed(a)
      BY <2>1, <2>2 DEF FilesOK, Active, Ended
    <3> QED BY <2>1, <2>2, <3>1 DEF FilesOK
  <2>8. Existed(a)' => IsFile(target')
    <3>1. CASE pc[a] = "idle"
      <4>1. guard'[a] # Nothing => target # Nothing
        BY <2>3, <3>1 DEF Identity
      <4> QED BY <2>2, <2>3, <3>1, <4>1 DEF Existed, IsFile, NoSentinel
    <3>2. CASE pc[a] # "idle"
      <4>1. Existed(a)' <=> Existed(a)
        BY <2>3, <3>2 DEF Existed
      <4> QED BY <2>1, <2>3, <2>6, <2>7, <4>1
    <3> QED BY <3>1, <3>2
  <2>9. ~Existed(a)' => \A b \in Publishers : ~Existed(b)'
    <3>1. \A b \in Publishers \ {a} : Existed(b)' <=> Existed(b)
      BY <2>4 DEF Existed
    <3>2. CASE pc[a] = "idle"
      <4>1. ~Existed(a)' => target = Nothing
        <5>1. SUFFICES ASSUME target # Nothing PROVE Existed(a)'
          OBVIOUS
        <5>2. Identity(target) \in Identities
          BY <5>1 DEF Identity, Identities, SerialInv, Base, TypeOK
        <5> QED BY <2>3, <3>2, <5>2, PublicationAssumption DEF Existed
      <4>2. target = Nothing => \A b \in Publishers : ~Existed(b)
        BY <2>2 DEF FilesOK, IsFile
      <4> QED BY <3>1, <4>1, <4>2
    <3>3. CASE pc[a] # "idle"
      <4>1. Existed(a)' <=> Existed(a)
        BY <2>3, <3>3 DEF Existed
      <4>2. ~Existed(a) => \A b \in Publishers : ~Existed(b)
        BY <2>1, <2>2, <2>5, <3>3 DEF FilesOK, Active
      <4> QED BY <3>1, <4>1, <4>2
    <3> QED BY <3>2, <3>3
  <2>10. FilesOK(a)'
    BY <2>3, <2>8, <2>9 DEF FilesOK
  <2>11. ASSUME NEW b \in Publishers, b # a PROVE FilesOK(b)'
    <3>1. FilesOK(b) /\ (Existed(b)' <=> Existed(b)) /\ ~Active(b)'
      BY <2>2, <2>4, <2>11 DEF Existed, Active
    <3>2. Existed(b) => IsFile(target')
      BY <2>3, <2>7, <3>1 DEF FilesOK
    <3> QED BY <2>4, <2>11, <3>1, <3>2 DEF FilesOK, NoSentinel
  <2> QED BY <2>3, <2>10, <2>11
<1>3. ASSUME NEW e \in Edits, External(e) PROVE Files'
  BY <1>3, ExternalFiles
<1> QED BY <1>1, <1>2, <1>3 DEF Next, Acts, Files

\* While one lock serialises the calls and nothing is being removed, a file
\* that was there stays there: a reader never finds the name empty.
THEOREM FileStays == ASSUME Serialised PROVE Spec => []ReaderFindsFile
<1>1. Init => SerialInv /\ Files
  BY InitBase, InitAlone, InitAbsent, InitFiles DEF SerialInv
<1>2. SerialInv /\ Files /\ [Next]_vars => (SerialInv /\ Files)'
  BY NextSerial, NextFiles
<1>3. Files => ReaderFindsFile
  BY DEF Files, FilesOK, Quiet, ReaderFindsFile
<1> QED BY <1>1, <1>2, <1>3, PTL DEF Spec

-----------------------------------------------------------------------------
(* The refinement: serialised calls keep the promise of GuardedRegister.   *)

Copy(a) == Inode("restore", a)

\* An edit yet to be written is nowhere.
Unborn ==
    \A e \in Edits \ done :
        /\ data[Inode("file", e)] = e
        /\ target # Inode("file", e)
        /\ \A a \in Actors : temp[a] # Inode("file", e) /\ spare[a] # Inode("file", e)

\* The steps at which a publication has not put its copy of the original at the name.
Uncopied == {"idle"} \cup Waiting \cup Exchanged
            \cup {"sentinel", "installed", "dropped", "withdraw", "unlink", "rewrite", "overwrite"}

\* The content of a publication under way is in its own inodes alone, and it has
\* captured another's.
OwnOK(a) ==
    /\ pc[a] \in {"idle"} \cup Waiting => data[Candidate(a)] = a
    /\ pc[a] \in Uncopied =>
          /\ target # Copy(a)
          /\ temp[a] # Copy(a)
          /\ \A b \in Actors \ {a} : Active(b) => temp[b] # Copy(a) /\ spare[b] # Copy(a)
    /\ pc[a] \notin Ended => \A i \in Inodes : data[i] = a => i \in {Candidate(a), Copy(a)}
    /\ pc[a] = "idle" => \A b \in Actors : Existed(b) => guard[b].val # a
    /\ Active(a) /\ Existed(a) => guard[a].val # a

Empty == target = Nothing \/ IsFile(target)

\* The name is the call's: its sentinel, its candidate or what was written since.
Taken(a) ==
    IF a \in Removers THEN target = Sentinel(a)
    ELSE IsFile(target) /\ data[target] \in {a} \cup Edits

\* What the call has displaced.
Aside(a) == Existed(a) /\ IsFile(temp[a]) /\ temp[a] # target

\* What is at the name and at the names of the call, by how far it is.
PlaceOK(a) ==
    /\ pc[a] \in Waiting \cup {"sentinel", "emptied"} => Empty
    /\ pc[a] = "staged" \/ (pc[a] = "checked" /\ a \in Publishers) => temp[a] = Candidate(a)
    /\ pc[a] = "sentinel" => temp[a] = Sentinel(a)
    /\ pc[a] \in {"sentinel", "emptied"} => Existed(a)
    /\ pc[a] = "checked" /\ a \in Removers => ~cas /\ Existed(a)
    /\ pc[a] \in Exchanged \cup {"stuck"} => Aside(a) /\ Taken(a)
    /\ pc[a] = "installed" /\ a \in Removers => cas /\ Aside(a) /\ Taken(a) /\ Captured(a, temp[a])
    /\ pc[a] = "emptied" /\ cas => Aside(a) /\ Captured(a, temp[a])
    /\ a \in Publishers /\ pc[a] \in {"installed", "dropped", "withdraw"} => IsFile(target)
    /\ pc[a] = "unlink" => ~Existed(a)
    /\ pc[a] \in {"rewrite", "overwrite"} =>
          Existed(a) /\ IsFile(target) /\ spare[a] = Copy(a) /\ data[Copy(a)] = guard[a].val
    /\ pc[a] \in {"restored", "reswap"} =>
          /\ Existed(a) /\ IsFile(target) /\ data[target] \in {guard[a].val} \cup Edits
          /\ IsFile(spare[a]) /\ spare[a] # target /\ spare[a] # Copy(a)
    /\ pc[a] = "reswap" /\ "rollback" \notin broken[a] => ~IsCandidate(a, spare[a])

Owned == \A a \in Publishers : OwnOK(a)
Placed == \A a \in Actors : PlaceOK(a)

\* The only content a call writes is that of its copy, and the only guard it
\* takes is that of the name it finds.
LEMMA Course ==
    ASSUME Base, NEW a \in Actors, Acts(a)
    PROVE  /\ \/ data' = data
              \/ /\ pc[a] = "withdraw" /\ Existed(a) /\ a \in Publishers /\ guard' = guard
                 /\ data' = [data EXCEPT ![Copy(a)] = guard[a].val]
           /\ guard' = guard \/ (pc[a] = "idle" /\ guard' = [guard EXCEPT ![a] = Identity(target)])
           /\ pc[a] = "idle" => UNCHANGED <<target, temp, spare, data>>
           /\ pc'[a] \in {"idle"} \cup Waiting => pc[a] \in {"idle"} \cup Waiting
           /\ pc'[a] # "idle"
           /\ pc'[a] \in Uncopied =>
                 pc[a] \in Uncopied /\ target' \in {target, temp[a], Nothing}
<1>1. TypeOK /\ NamesOK(a)
  BY DEF Base
<1> USE <1>1
<1> USE DEF Goes, Keeps, Fails, names, SwapsTemp, TypeOK, NamesOK, Waiting, Exchanged, Uncopied,
            Ended, PublisherSteps, Writing, Copy, Existed
<1>11. CASE Capture(a)
  BY <1>11 DEF Capture
<1>12. CASE Snapshot(a)
  BY <1>12 DEF Snapshot
<1>13. CASE Stage(a)
  BY <1>13 DEF Stage
<1>14. CASE Check(a)
  BY <1>14 DEF Check
<1>15. CASE GiveUp(a)
  BY <1>15 DEF GiveUp
<1>16. CASE Exchange(a)
  BY <1>16 DEF Exchange
<1>17. CASE Compare(a)
  BY <1>17 DEF Compare
<1>18. CASE SwapBack(a)
  BY <1>18 DEF SwapBack
<1>19. CASE Link(a)
  BY <1>19 DEF Link
<1>20. CASE Replace(a)
  BY <1>20 DEF Replace
<1>21. CASE DropDisplaced(a)
  BY <1>21 DEF DropDisplaced
<1>22. CASE Confirm(a)
  BY <1>22 DEF Confirm
<1>23. CASE Doubt(a)
  BY <1>23 DEF Doubt
<1>24. CASE Withdraw(a)
  <2>1. a \in Publishers
    BY <1>24 DEF Withdraw, RemoverSteps, Actors
  <2>2. QED
    BY <1>24, <2>1 DEF Withdraw
<1>25. CASE LeaveIt(a)
  BY <1>25 DEF LeaveIt
<1>26. CASE UnlinkCandidate(a)
  BY <1>26 DEF UnlinkCandidate
<1>27. CASE SwapRestore(a)
  BY <1>27 DEF SwapRestore
<1>28. CASE CompareRestore(a)
  BY <1>28 DEF CompareRestore
<1>29. CASE UnswapRestore(a)
  BY <1>29 DEF UnswapRestore
<1>30. CASE RecheckRestore(a)
  BY <1>30 DEF RecheckRestore
<1>31. CASE ReplaceRestore(a)
  BY <1>31 DEF ReplaceRestore
<1>32. CASE Cleanup(a)
  BY <1>32 DEF Cleanup
<1>33. CASE RemoveNothing(a)
  BY <1>33 DEF RemoveNothing
<1>34. CASE PutSentinel(a)
  BY <1>34 DEF PutSentinel
<1>35. CASE RemoveSentinel(a)
  BY <1>35 DEF RemoveSentinel
<1>36. CASE Reseat(a)
  BY <1>36 DEF Reseat
<1>37. CASE Removed(a)
  BY <1>37 DEF Removed
<1>38. CASE Relink(a)
  BY <1>38 DEF Relink
<1>39. CASE PortableCheck(a)
  BY <1>39 DEF PortableCheck
<1>40. CASE PortableRemove(a)
  BY <1>40 DEF PortableRemove
<1>41. CASE PortableEnd(a)
  BY <1>41 DEF PortableEnd
<1>42. CASE Crash(a)
  BY <1>42 DEF Crash
<1>43. CASE SwapBackFails(a)
  BY <1>43 DEF SwapBackFails
<1>44. CASE RollbackFails(a)
  BY <1>44 DEF RollbackFails
<1>45. CASE Misread(a)
  BY <1>45 DEF Misread
<1>46. CASE UnswapLeaves(a)
  BY <1>46 DEF UnswapLeaves
<1>47. CASE CleanupFails(a)
  BY <1>47 DEF CleanupFails
<1>48. CASE PutBackFails(a)
  BY <1>48 DEF PutBackFails
<1> QED
  BY <1>11, <1>12, <1>13, <1>14, <1>15, <1>16, <1>17, <1>18, <1>19, <1>20, <1>21, <1>22, <1>23,
     <1>24, <1>25, <1>26, <1>27, <1>28, <1>29, <1>30, <1>31, <1>32, <1>33, <1>34, <1>35, <1>36,
     <1>37, <1>38, <1>39, <1>40, <1>41, <1>42, <1>43, <1>44, <1>45, <1>46, <1>47, <1>48
     DEF Acts, Publishing, Restoring, Deleting

LEMMA Inodes2 ==
    /\ \A a \in Publishers :
          /\ Copy(a) \in Inodes /\ Candidate(a) \in Inodes /\ Copy(a) # Candidate(a)
          /\ IsFile(Copy(a)) /\ IsFile(Candidate(a))
          /\ \A b \in Publishers : a # b => Copy(a) # Copy(b) /\ Candidate(a) # Candidate(b)
                                            /\ Candidate(a) # Copy(b)
          /\ \A b \in Actors : Copy(a) # Sentinel(b) /\ Candidate(a) # Sentinel(b)
          /\ \A e \in Edits : Copy(a) # Inode("file", e) /\ Candidate(a) # Inode("file", e) /\ a # e
    /\ \A r \in Actors : ~IsFile(Sentinel(r)) /\ \A e \in Edits : Sentinel(r) # Inode("file", e)
    /\ \A r \in Removers : Sentinel(r) \in Inodes
    /\ \A e \in Edits : Inode("file", e) \in Inodes /\ IsFile(Inode("file", e))
<1>1. /\ \A a \in Publishers : Candidate(a) \in Inodes /\ Copy(a) \in Inodes
      /\ \A r \in Removers : Sentinel(r) \in Inodes
      /\ \A e \in Edits : Inode("file", e) \in Inodes
      /\ Nothing \notin Inodes
  BY OwnInodes DEF Copy
<1>2. \A a \in Publishers, e \in Edits : a # e
  BY PublicationAssumption DEF Actors
<1>3. QED
  BY <1>1, <1>2 DEF IsFile, Copy, Candidate, Sentinel, Inode

\* A capture that is there names a file with its content.
LEMMA Guarded ==
    ASSUME TypeOK, NEW a \in Actors
    PROVE  /\ Existed(a) => guard[a] \in Identities /\ guard[a].val \in Authors
           /\ \A i \in Inodes \cup {Nothing} :
                 /\ i # Nothing => Identity(i) # Nothing /\ Identity(i).val = data[i]
                                   /\ Identity(i).ino = i
                 /\ Captured(a, i) /\ Existed(a) =>
                       i # Nothing /\ i = guard[a].ino /\ data[i] = guard[a].val
                 /\ Captured(a, i) /\ ~Existed(a) => i = Nothing
<1>1. \A i \in Inodes : Identity(i) = [ino |-> i, val |-> data[i]] /\ Identity(i) \in Identities
  BY OwnInodes DEF Identity, TypeOK, Identities
<1>2. Identity(Nothing) = Nothing
  BY DEF Identity
<1>3. \A i \in Inodes : Identity(i) # Nothing
  BY <1>1, PublicationAssumption
<1>4. Existed(a) => guard[a] \in Identities /\ guard[a].val \in Authors
  BY DEF TypeOK, Existed, Identities
<1>5. QED
  BY <1>1, <1>2, <1>3, <1>4 DEF Captured, Existed

\* What keeps an edit unborn.
LEMMA NextUnborn ==
    ASSUME Base, Unborn, Next
    PROVE  Unborn'
<1>1. ASSUME NEW a \in Actors, Acts(a)
      PROVE  Unborn'
  <2>1. done' = done
    BY <1>1, Frame DEF Base
  <2>2. SUFFICES ASSUME NEW e \in Edits \ done
                 PROVE  /\ data'[Inode("file", e)] = e
                        /\ target' # Inode("file", e)
                        /\ \A b \in Actors : temp'[b] # Inode("file", e) /\ spare'[b] # Inode("file", e)
    BY <2>1 DEF Unborn
  <2>3. /\ data[Inode("file", e)] = e /\ target # Inode("file", e)
        /\ \A b \in Actors : temp[b] # Inode("file", e) /\ spare[b] # Inode("file", e)
    BY DEF Unborn
  <2>4. /\ Inode("file", e) \in Inodes /\ Inode("file", e) # Nothing
        /\ Inode("file", e) # Inode("restore", a) /\ Inode("file", e) # Candidate(a)
        /\ Inode("file", e) # Sentinel(a)
    BY OwnInodes DEF Candidate, Sentinel, Inode
  <2>5. /\ target' \in {target, temp[a], spare[a], Nothing}
        /\ temp'[a] \in {temp[a], target, Nothing, Candidate(a), Sentinel(a)}
        /\ spare'[a] \in {spare[a], target, Nothing, Inode("restore", a)}
        /\ \A i \in Inodes : i # Inode("restore", a) => data'[i] = data[i]
    BY <1>1, Effect
  <2>6. \A b \in Actors \ {a} : temp'[b] = temp[b] /\ spare'[b] = spare[b]
    BY <1>1, Frame DEF Base
  <2>7. QED
    BY <2>3, <2>4, <2>5, <2>6
<1>2. ASSUME NEW f \in Edits, External(f)
      PROVE  Unborn'
  <2>1. SUFFICES ASSUME NEW e \in Edits \ done, e # f
                 PROVE  /\ data'[Inode("file", e)] = e
                        /\ target' # Inode("file", e)
                        /\ \A b \in Actors : temp'[b] # Inode("file", e) /\ spare'[b] # Inode("file", e)
    BY <1>2 DEF Unborn, External
  <2>2. /\ data[Inode("file", e)] = e /\ target # Inode("file", e)
        /\ \A b \in Actors : temp[b] # Inode("file", e) /\ spare[b] # Inode("file", e)
    BY DEF Unborn
  <2>3. Inode("file", e) # Inode("file", f) /\ Inode("file", e) \in Inodes
    BY <2>1, OwnInodes DEF Inode
  <2>4. QED
    BY <1>2, <2>2, <2>3 DEF External, SaveOver, WriteInto, Base, TypeOK
<1>3. QED
  BY <1>1, <1>2 DEF Next, Acts

\* A step of the call itself keeps its content its own.
LEMMA OwnOwned ==
    ASSUME Serialised, SerialInv, Owned, NEW a \in Publishers, Acts(a)
    PROVE  OwnOK(a)'
<1>0. a \in Actors /\ TypeOK /\ Base
  BY DEF Actors, SerialInv, Base
<1>1. /\ \/ data' = data
         \/ /\ pc[a] = "withdraw" /\ Existed(a) /\ guard' = guard
            /\ data' = [data EXCEPT ![Copy(a)] = guard[a].val]
      /\ guard' = guard \/ (pc[a] = "idle" /\ guard' = [guard EXCEPT ![a] = Identity(target)])
      /\ pc[a] = "idle" => UNCHANGED <<target, temp, spare, data>>
      /\ pc'[a] \in {"idle"} \cup Waiting => pc[a] \in {"idle"} \cup Waiting
      /\ pc'[a] # "idle"
      /\ pc'[a] \in Uncopied => pc[a] \in Uncopied /\ target' \in {target, temp[a], Nothing}
  BY <1>0, Course
<1>2. /\ temp'[a] \in {temp[a], target, Nothing, Candidate(a), Sentinel(a)}
      /\ pc[a] \notin Ended
      /\ \A b \in Actors \ {a} : pc'[b] = pc[b] /\ guard'[b] = guard[b] /\ ~Active(b)
  BY <1>0, Effect, Frame, OthersWait DEF SerialInv
<1>3. OwnOK(a)
  BY DEF Owned
<1>4. pc'[a] \in {"idle"} \cup Waiting => data'[Candidate(a)] = a
  BY <1>0, <1>1, <1>3, Inodes2 DEF OwnOK, TypeOK, Waiting
<1>5. pc'[a] \in Uncopied =>
          /\ target' # Copy(a)
          /\ temp'[a] # Copy(a)
          /\ \A b \in Actors \ {a} : Active(b)' => temp'[b] # Copy(a) /\ spare'[b] # Copy(a)
  <2>1. SUFFICES ASSUME pc'[a] \in Uncopied
                 PROVE  target' # Copy(a) /\ temp'[a] # Copy(a)
    BY <1>2 DEF Active
  <2>2. target # Copy(a) /\ temp[a] # Copy(a)
    BY <1>1, <1>3, <2>1 DEF OwnOK
  <2>3. Copy(a) # Nothing /\ Copy(a) # Candidate(a) /\ Copy(a) # Sentinel(a)
    BY <1>0, Inodes2, OwnInodes
  <2>4. QED
    BY <1>1, <1>2, <2>1, <2>2, <2>3
<1>6. Existed(a)' => guard'[a].val # a
  <2>1. CASE guard' = guard
    <3>1. Existed(a) => guard[a].val # a
      BY <1>0, <1>2, <1>3 DEF OwnOK, Active
    <3>2. QED
      BY <2>1, <3>1 DEF Existed
  <2>2. CASE pc[a] = "idle" /\ guard' = [guard EXCEPT ![a] = Identity(target)]
    <3>1. guard'[a] = Identity(target)
      BY <1>0, <2>2 DEF TypeOK
    <3>2. SUFFICES ASSUME target # Nothing
                   PROVE  data[target] # a
      <4>1. target # Nothing => Identity(target).val = data[target]
        BY <1>0, Guarded DEF TypeOK
      <4>2. target = Nothing => Identity(target) = Nothing
        BY DEF Identity
      <4>3. QED
        BY <3>1, <4>1, <4>2 DEF Existed
    <3>3. target \in Inodes /\ target # Copy(a) /\ target # Candidate(a)
      BY <1>0, <1>3, <2>2, <3>2 DEF OwnOK, Uncopied, TypeOK, SerialInv, Absent, AbsentOK, Elsewhere
    <3>4. QED
      BY <1>2, <1>3, <3>3 DEF OwnOK
  <2>3. QED
    BY <1>1, <2>1, <2>2
<1>7. \A i \in Inodes : data'[i] = a => i \in {Candidate(a), Copy(a)}
  BY <1>0, <1>1, <1>2, <1>3, Inodes2 DEF OwnOK, TypeOK
<1>8. QED
  BY <1>1, <1>4, <1>5, <1>6, <1>7 DEF OwnOK

\* And so does a step of another.
LEMMA OthersOwned ==
    ASSUME Serialised, SerialInv, Owned, NEW a \in Actors, Acts(a), NEW b \in Publishers, a # b
    PROVE  OwnOK(b)'
<1>0. b \in Actors /\ TypeOK /\ Base
  BY DEF Actors, SerialInv, Base
<1>1. /\ \/ data' = data
         \/ /\ pc[a] = "withdraw" /\ Existed(a) /\ a \in Publishers /\ guard' = guard
            /\ data' = [data EXCEPT ![Copy(a)] = guard[a].val]
      /\ guard' = guard \/ (pc[a] = "idle" /\ guard' = [guard EXCEPT ![a] = Identity(target)])
      /\ pc[a] = "idle" => UNCHANGED <<target, temp, spare, data>>
  BY <1>0, Course
<1>2. /\ target' \in {target, temp[a], spare[a], Nothing}
      /\ temp'[a] \in {temp[a], target, Nothing, Candidate(a), Sentinel(a)}
      /\ spare'[a] \in {spare[a], target, Nothing, Copy(a)}
      /\ pc[a] \notin Ended
      /\ \A c \in Actors \ {a} : pc'[c] = pc[c] /\ temp'[c] = temp[c] /\ spare'[c] = spare[c]
                                 /\ guard'[c] = guard[c] /\ ~Active(c)
  BY <1>0, Effect, Frame, OthersWait DEF SerialInv, Copy
<1>3. OwnOK(b) /\ pc'[b] = pc[b] /\ ~Active(b)
  BY <1>0, <1>2 DEF Owned
<1>4. SUFFICES ASSUME pc[b] = "idle"
               PROVE  OwnOK(b)'
  BY <1>3 DEF OwnOK, Active, Waiting, Exchanged, Uncopied, Ended
<1>5. /\ data[Candidate(b)] = b /\ target # Copy(b) /\ temp[b] = Nothing
      /\ \A i \in Inodes : data[i] = b => i \in {Candidate(b), Copy(b)}
      /\ \A c \in Actors : Existed(c) => guard[c].val # b
      /\ target # Candidate(b)
      /\ Active(a) => temp[a] # Copy(b) /\ spare[a] # Copy(b)
  <2>1. Elsewhere(b)
    BY <1>4 DEF SerialInv, Absent, AbsentOK
  <2>2. temp[b] = Nothing
    BY <1>0, <1>4 DEF Base, NamesOK
  <2>3. QED
    BY <1>3, <1>4, <2>1, <2>2 DEF OwnOK, Uncopied, Waiting, Ended, Elsewhere
<1>6. CASE pc[a] = "idle"
  <2>1. UNCHANGED <<target, temp, spare, data>> /\ temp[a] = Nothing /\ spare[a] = Nothing
    BY <1>0, <1>1, <1>6 DEF Base, NamesOK, Writing
  <2>2. \A c \in Actors : Existed(c)' => guard'[c].val # b
    <3>1. SUFFICES ASSUME guard' = [guard EXCEPT ![a] = Identity(target)], Existed(a)'
                   PROVE  guard'[a].val # b
      BY <1>1, <1>2, <1>5 DEF Existed
    <3>2. guard'[a] = Identity(target) /\ target # Nothing
      BY <1>0, <3>1 DEF TypeOK, Existed, Identity
    <3>3. guard'[a].val = data[target] /\ target \in Inodes
      BY <1>0, <3>2, Guarded DEF TypeOK
    <3>4. QED
      BY <1>5, <3>3
  <2>3. Copy(b) # Nothing
    BY Inodes2, OwnInodes
  <2>4. QED
    BY <1>2, <1>3, <1>4, <1>5, <2>1, <2>2, <2>3 DEF OwnOK, Active
<1>7. CASE pc[a] # "idle"
  <2>1. Active(a) /\ guard' = guard
    BY <1>1, <1>2, <1>7 DEF Active
  <2>2. /\ Copy(b) # Nothing /\ Copy(b) # Candidate(a) /\ Copy(b) # Sentinel(a) /\ Copy(b) # Copy(a)
        /\ Candidate(b) \in Inodes /\ Candidate(b) # Copy(a)
    BY <1>0, Inodes2, OwnInodes DEF Copy, Candidate, Sentinel, Inode
  <2>3. target' # Copy(b) /\ temp'[a] # Copy(b) /\ spare'[a] # Copy(b)
    BY <1>2, <1>5, <2>1, <2>2
  <2>4. data'[Candidate(b)] = b /\ \A i \in Inodes : data'[i] = b => i \in {Candidate(b), Copy(b)}
    BY <1>0, <1>1, <1>5, <2>2 DEF TypeOK
  <2>5. temp'[b] # Copy(b) /\ \A c \in Actors \ {b} : Active(c)' => temp'[c] # Copy(b) /\ spare'[c] # Copy(b)
    BY <1>0, <1>2, <1>5, <2>2, <2>3 DEF Active
  <2>6. \A c \in Actors : Existed(c)' => guard'[c].val # b
    BY <1>5, <2>1 DEF Existed
  <2>7. QED
    BY <1>3, <1>4, <2>3, <2>4, <2>5, <2>6 DEF OwnOK, Active
<1>8. QED
  BY <1>6, <1>7

LEMMA ExternalOwned ==
    ASSUME SerialInv, Owned, NEW e \in Edits, External(e), NEW a \in Publishers
    PROVE  OwnOK(a)'
<1>1. OwnOK(a) /\ UNCHANGED <<cas, temp, spare, guard, pc, broken>> /\ TypeOK /\ a # e
  BY Inodes2 DEF Owned, External, SerialInv, Base
<1>2. pc[a] \in {"idle"} \cup Waiting => target # Candidate(a)
  BY DEF SerialInv, Absent, AbsentOK, Elsewhere, Waiting
<1>3. \/ target' = Inode("file", e) /\ data' = data
      \/ target' = target /\ data' = [data EXCEPT ![target] = e]
  BY DEF External, SaveOver, WriteInto
<1>4. Candidate(a) \in Inodes /\ Inode("file", e) # Copy(a)
  BY Inodes2
<1>5. pc[a] \in {"idle"} \cup Waiting => data'[Candidate(a)] = a
  BY <1>1, <1>2, <1>3, <1>4 DEF OwnOK, TypeOK
<1>6. pc[a] \notin Ended => \A i \in Inodes : data'[i] = a => i \in {Candidate(a), Copy(a)}
  BY <1>1, <1>3 DEF OwnOK, TypeOK
<1>7. pc[a] \in Uncopied => target' # Copy(a)
  BY <1>1, <1>3, <1>4 DEF OwnOK
<1>8. QED
  BY <1>1, <1>5, <1>6, <1>7 DEF OwnOK, Active, Existed

\* What a step of the call itself makes of its places.
LEMMA OwnPlaced ==
    ASSUME SerialInv, Owned, Placed, NEW a \in Actors, Acts(a)
    PROVE  PlaceOK(a)'
<1>1. TypeOK /\ NamesOK(a) /\ PlaceOK(a) /\ (a \in Publishers => OwnOK(a))
  BY DEF SerialInv, Base, Owned, Placed
<1>2. /\ a \in Publishers <=> a \notin Removers
      /\ a \in Publishers =>
            /\ Copy(a) \in Inodes /\ Candidate(a) \in Inodes /\ Copy(a) # Candidate(a)
            /\ IsFile(Copy(a)) /\ IsFile(Candidate(a))
            /\ pc[a] \in {"idle"} \cup Waiting => target # Candidate(a)
      /\ ~IsFile(Sentinel(a)) /\ ~IsFile(Nothing)
      /\ Copy(a) = Inode("restore", a)
  BY Inodes2, PublicationAssumption DEF Actors, SerialInv, Absent, AbsentOK, Elsewhere, Waiting,
     IsFile, Copy
<1>3. \A i \in Inodes : [ino |-> i, val |-> data[i]] # Nothing /\ i # Nothing
  BY <1>1, PublicationAssumption, OwnInodes DEF Identities, TypeOK
<1> USE <1>1, <1>2, <1>3
<1> HIDE DEF IsFile, Candidate, Copy, Sentinel
<1> USE DEF Goes, Keeps, Fails, names, SwapsTemp, TypeOK, NamesOK, PlaceOK, OwnOK, Empty, Taken,
            Aside, Captured, Identity, IsCandidate, Existed, Waiting, Exchanged, Uncopied,
            Writing, Ended, PublisherSteps, RemoverSteps
<1>11. CASE Capture(a)
  BY <1>11 DEF Capture
<1>12. CASE Snapshot(a)
  BY <1>12 DEF Snapshot
<1>13. CASE Stage(a)
  BY <1>13 DEF Stage
<1>14. CASE Check(a)
  BY <1>14 DEF Check
<1>15. CASE GiveUp(a)
  BY <1>15 DEF GiveUp
<1>16. CASE Exchange(a)
  BY <1>16 DEF Exchange
<1>17. CASE Compare(a)
  BY <1>17 DEF Compare
<1>18. CASE SwapBack(a)
  BY <1>18 DEF SwapBack
<1>19. CASE Link(a)
  BY <1>19 DEF Link
<1>20. CASE Replace(a)
  BY <1>20 DEF Replace
<1>21. CASE DropDisplaced(a)
  BY <1>21 DEF DropDisplaced
<1>22. CASE Confirm(a)
  BY <1>22 DEF Confirm
<1>23. CASE Doubt(a)
  BY <1>23 DEF Doubt
<1>24. CASE Withdraw(a)
  BY <1>24 DEF Withdraw
<1>25. CASE LeaveIt(a)
  BY <1>25 DEF LeaveIt
<1>26. CASE UnlinkCandidate(a)
  BY <1>26 DEF UnlinkCandidate
<1>27. CASE SwapRestore(a)
  BY <1>27 DEF SwapRestore
<1>28. CASE CompareRestore(a)
  BY <1>28 DEF CompareRestore
<1>29. CASE UnswapRestore(a)
  BY <1>29 DEF UnswapRestore
<1>30. CASE RecheckRestore(a)
  BY <1>30 DEF RecheckRestore
<1>31. CASE ReplaceRestore(a)
  BY <1>31 DEF ReplaceRestore
<1>32. CASE Cleanup(a)
  BY <1>32 DEF Cleanup
<1>33. CASE RemoveNothing(a)
  BY <1>33 DEF RemoveNothing
<1>34. CASE PutSentinel(a)
  BY <1>34 DEF PutSentinel
<1>35. CASE RemoveSentinel(a)
  BY <1>35 DEF RemoveSentinel
<1>36. CASE Reseat(a)
  BY <1>36 DEF Reseat
<1>37. CASE Removed(a)
  BY <1>37 DEF Removed
<1>38. CASE Relink(a)
  BY <1>38 DEF Relink
<1>39. CASE PortableCheck(a)
  BY <1>39 DEF PortableCheck
<1>40. CASE PortableRemove(a)
  BY <1>40 DEF PortableRemove
<1>41. CASE PortableEnd(a)
  BY <1>41 DEF PortableEnd
<1>42. CASE Crash(a)
  BY <1>42 DEF Crash
<1>43. CASE SwapBackFails(a)
  BY <1>43 DEF SwapBackFails
<1>44. CASE RollbackFails(a)
  BY <1>44 DEF RollbackFails
<1>45. CASE Misread(a)
  BY <1>45 DEF Misread
<1>46. CASE UnswapLeaves(a)
  BY <1>46 DEF UnswapLeaves
<1>47. CASE CleanupFails(a)
  BY <1>47 DEF CleanupFails
<1>48. CASE PutBackFails(a)
  BY <1>48 DEF PutBackFails
<1> QED
  BY <1>11, <1>12, <1>13, <1>14, <1>15, <1>16, <1>17, <1>18, <1>19, <1>20, <1>21, <1>22, <1>23,
     <1>24, <1>25, <1>26, <1>27, <1>28, <1>29, <1>30, <1>31, <1>32, <1>33, <1>34, <1>35, <1>36,
     <1>37, <1>38, <1>39, <1>40, <1>41, <1>42, <1>43, <1>44, <1>45, <1>46, <1>47, <1>48
     DEF Acts, Publishing, Restoring, Deleting

\* A file saved over the name, or written into the one that is there, disturbs
\* nothing that a call has put aside.
LEMMA ExternalPlaced ==
    ASSUME SerialInv, Owned, Placed, Unborn, NEW e \in Edits, External(e), NEW a \in Actors
    PROVE  PlaceOK(a)'
<1>1. /\ TypeOK /\ NamesOK(a) /\ PlaceOK(a) /\ (a \in Publishers => OwnOK(a))
      /\ UNCHANGED <<cas, temp, spare, guard, pc, broken>> /\ e \notin done
  BY DEF External, SerialInv, Base, Owned, Placed
<1>2. /\ IsFile(target') /\ target' \in Inodes /\ data'[target'] = e
      /\ a \in Removers => target # Sentinel(a)
      /\ \A i \in Inodes : i # target => data'[i] = data[i]
      /\ target' \in {target, Inode("file", e)}
  <2>1. IsFile(target) => target \in Inodes
    BY <1>1 DEF IsFile, TypeOK
  <2>2. a \in Removers => target # Sentinel(a)
    BY Inodes2, OwnInodes DEF External, SaveOver, WriteInto
  <2>3. data[Inode("file", e)] = e
    BY <1>1 DEF Unborn
  <2>4. QED
    BY <1>1, <2>1, <2>2, <2>3, Inodes2 DEF External, SaveOver, WriteInto, TypeOK
<1>3. temp[a] # Inode("file", e) /\ spare[a] # Inode("file", e)
  BY <1>1 DEF Unborn
<1>4. Aside(a) => Aside(a)' /\ data'[temp[a]] = data[temp[a]] /\ (Captured(a, temp[a])' <=> Captured(a, temp[a]))
  <2>1. Aside(a) => temp[a] \in Inodes
    BY <1>1 DEF Aside, IsFile, TypeOK
  <2>2. QED
    BY <1>1, <1>2, <1>3, <2>1 DEF Aside, Captured, Identity, Existed
<1>5. pc[a] \in {"rewrite", "overwrite"} => data'[Copy(a)] = data[Copy(a)]
  <2>1. pc[a] \in {"rewrite", "overwrite"} => a \in Publishers
    BY <1>1 DEF NamesOK, RemoverSteps, Writing, Actors
  <2>2. QED
    BY <1>1, <1>2, <2>1, Inodes2 DEF OwnOK, Uncopied
<1>6. pc[a] \in {"restored", "reswap"} =>
         spare[a] # target' /\ (IsCandidate(a, spare[a])' <=> IsCandidate(a, spare[a]))
  <2>1. pc[a] \in {"restored", "reswap"} => spare[a] \in Inodes /\ spare[a] # target
    BY <1>1 DEF PlaceOK, IsFile, TypeOK
  <2>2. QED
    BY <1>1, <1>2, <1>3, <2>1 DEF IsCandidate
<1>7. Taken(a) => Taken(a)'
  BY <1>2 DEF Taken
<1> HIDE DEF IsFile, Aside, Taken, Captured, IsCandidate, Copy, Candidate, Sentinel
<1>8. Existed(a)' <=> Existed(a)
  BY <1>1 DEF Existed
<1>9. QED
  BY <1>1, <1>2, <1>4, <1>5, <1>6, <1>7, <1>8 DEF PlaceOK, Empty, Exchanged

Faithful == SerialInv /\ Unborn /\ Owned /\ Placed

LEMMA InitFaithful ==
    ASSUME Init
    PROVE  Unborn /\ Owned /\ Placed
<1>1. Unborn
  <2>1. \A e \in Edits : Inode("file", e) \in Inodes /\ Inode("file", e).by = e /\ e # Initial
    BY Inodes2, PublicationAssumption DEF Inode
  <2>2. \A e \in Edits : Inode("file", e) # Inode("file", Initial) /\ Inode("file", e) # Nothing
    BY <2>1, OwnInodes DEF Inode
  <2>3. QED
    BY <2>1, <2>2 DEF Init, Unborn
<1>2. ASSUME NEW a \in Publishers
      PROVE  OwnOK(a)
  <2>1. a \in Actors /\ pc[a] = "idle" /\ temp[a] = Nothing /\ \A b \in Actors : ~Existed(b) /\ pc[b] = "idle"
    BY DEF Init, Actors, Existed
  <2>2. Candidate(a) \in Inodes /\ Candidate(a).by = a /\ Copy(a) # Nothing
    BY Inodes2, OwnInodes DEF Candidate, Inode
  <2>3. target # Copy(a)
    BY <2>2 DEF Init, Copy, Inode
  <2>4. \A i \in Inodes : i.by = a => i \in {Candidate(a), Copy(a)}
    BY PublicationAssumption DEF Inodes, Candidate, Copy, Inode, Actors
  <2>5. QED
    BY <2>1, <2>2, <2>3, <2>4 DEF Init, OwnOK, Active
<1>3. Placed
  BY DEF Init, Placed, PlaceOK, Waiting, Exchanged
<1>4. QED
  BY <1>1, <1>2, <1>3 DEF Owned

LEMMA NextFaithful ==
    ASSUME Serialised, Faithful, [Next]_vars
    PROVE  Faithful'
<1> USE DEF Faithful
<1>1. SerialInv'
  BY NextSerial
<1>2. CASE UNCHANGED vars
  BY <1>1, <1>2 DEF vars, names, Unborn, Owned, Placed, OwnOK, PlaceOK, Active, Existed, Empty, Taken,
     Aside, Captured, Identity, IsCandidate
<1>3. ASSUME NEW e \in Edits, External(e)
      PROVE  Owned' /\ Placed'
  BY <1>3, ExternalOwned, ExternalPlaced DEF Owned, Placed
<1>4. ASSUME NEW a \in Actors, Acts(a)
      PROVE  Owned' /\ Placed'
  <2>1. Owned'
    BY <1>4, OwnOwned, OthersOwned DEF Owned
  <2>2. ASSUME NEW b \in Actors, b # a
        PROVE  PlaceOK(b)'
    <3>1. ~Active(b) /\ pc'[b] = pc[b]
      BY <1>4, <2>2, Frame, OthersWait DEF SerialInv, Base
    <3>2. QED
      BY <3>1 DEF PlaceOK, Active, Waiting, Exchanged, Ended
  <2>3. QED
    BY <1>4, <2>1, <2>2, OwnPlaced DEF Placed
<1>5. Next => Unborn'
  BY NextUnborn DEF SerialInv
<1>6. QED
  BY <1>1, <1>2, <1>3, <1>4, <1>5 DEF Next, Acts

LEMMA FaithfulHolds == ASSUME Serialised PROVE Spec => []Faithful
<1>1. Init => Faithful
  BY InitBase, InitAlone, InitAbsent, InitFaithful DEF SerialInv, Faithful
<1>2. Faithful /\ [Next]_vars => Faithful'
  BY NextFaithful
<1>3. QED
  BY <1>1, <1>2, PTL DEF Spec

-----------------------------------------------------------------------------
\* The version at the name, what a call expects there and what it puts there, and
\* whether something it had to put back has stayed away.
Owning == {"installed", "dropped", "withdraw", "unlink", "rewrite", "overwrite", "emptied"}
Seen == Content(target)
Expects(a) == IF Existed(a) THEN guard[a].val ELSE Nothing
Puts(a) == IF a \in Removers THEN Nothing ELSE a
Failing(a) == broken[a] \ {"unlink"} # {}

\* How far a call is, told from where it is.
LEMMA OutcomeIs ==
    ASSUME NEW a \in Actors
    PROVE  /\ pc[a] = "idle" => Outcome(a) = "idle" /\ TakenBy(a) = Nothing
           /\ pc[a] \in Waiting \cup {"sentinel"} => Outcome(a) = "pending" /\ TakenBy(a) = Nothing
           /\ pc[a] \in Exchanged \cup {"stuck"} => Outcome(a) = "swapped" /\ TakenBy(a) = Content(temp[a])
           /\ pc[a] \in {"restored", "reswap"} => Outcome(a) = "restoring" /\ TakenBy(a) = Content(spare[a])
           /\ pc[a] \in {"published", "removed"} => Outcome(a) = "ok" /\ TakenBy(a) = Nothing
           /\ pc[a] \in {"cleanup", "failed", "absent"} => Outcome(a) = "failed" /\ TakenBy(a) = Nothing
           /\ pc[a] = "dead" => Outcome(a) = "crashed" /\ TakenBy(a) = Nothing
           /\ pc[a] \in Owning => Outcome(a) = "installed" /\ TakenBy(a) = Nothing
<1> HIDE DEF Content
<1> QED BY DEF Outcome, TakenBy, Waiting, Exchanged, Owning

LEMMA OutcomeNext ==
    ASSUME NEW a \in Actors
    PROVE  /\ pc'[a] = "idle" => Outcome(a)' = "idle" /\ TakenBy(a)' = Nothing
           /\ pc'[a] \in Waiting \cup {"sentinel"} => Outcome(a)' = "pending" /\ TakenBy(a)' = Nothing
           /\ pc'[a] \in Exchanged \cup {"stuck"} => Outcome(a)' = "swapped" /\ TakenBy(a)' = Content(temp[a])'
           /\ pc'[a] \in {"restored", "reswap"} => Outcome(a)' = "restoring" /\ TakenBy(a)' = Content(spare[a])'
           /\ pc'[a] \in {"published", "removed"} => Outcome(a)' = "ok" /\ TakenBy(a)' = Nothing
           /\ pc'[a] \in {"cleanup", "failed", "absent"} => Outcome(a)' = "failed" /\ TakenBy(a)' = Nothing
           /\ pc'[a] = "dead" => Outcome(a)' = "crashed" /\ TakenBy(a)' = Nothing
           /\ pc'[a] \in Owning => Outcome(a)' = "installed" /\ TakenBy(a)' = Nothing
<1> HIDE DEF Content
<1> QED BY DEF Outcome, TakenBy, Waiting, Exchanged, Owning

\* What a step of the call is to the register.
Becomes(a, from, to) == Outcome(a) \in from /\ Outcome(a)' = to
Lets(a) == TakenBy(a)' = Nothing
Takes(a) == TakenBy(a)' = Seen
Rests(a) == TakenBy(a)' = TakenBy(a)
Stays == Seen' = Seen

Does(a) ==
    /\ Failing(a) => Failing(a)'
    /\ Expects(a)' = Expects(a) \/ (Outcome(a) = "idle" /\ Outcome(a)' = "pending" /\ Expects(a)' = Seen)
    /\ \/ Outcome(a)' = Outcome(a) /\ Stays /\ Rests(a) /\ Failing(a)' = Failing(a)
       \/ Outcome(a)' = Outcome(a) /\ Outcome(a) \in {"swapped", "restoring"} /\ Stays /\ Rests(a) /\ Failing(a)'
       \/ Becomes(a, {"idle"}, "pending") /\ Expects(a)' = Seen /\ Stays /\ Rests(a)
       \/ Becomes(a, {"pending"}, "swapped") /\ cas /\ Seen' = Puts(a) /\ Takes(a)
       \/ Becomes(a, {"swapped"}, "installed") /\ (TakenBy(a) = Expects(a) \/ Failing(a)') /\ Stays /\ Lets(a)
       \/ Becomes(a, {"swapped"}, "failed") /\ Seen' = TakenBy(a) /\ Lets(a)
       \/ /\ Becomes(a, {"pending"}, "installed") /\ (cas => Seen = Nothing /\ Expects(a) = Nothing)
          /\ Seen' = Puts(a) /\ Rests(a)
       \/ Becomes(a, {"installed"}, "ok") /\ Stays /\ Rests(a)
       \/ Becomes(a, {"installed"}, "restoring") /\ cas /\ a \notin Removers /\ Seen' = Expects(a) /\ Takes(a)
       \/ Becomes(a, {"restoring"}, "failed") /\ TakenBy(a) = Puts(a) /\ Stays /\ Lets(a)
       \/ /\ Becomes(a, {"restoring"}, "failed") /\ (TakenBy(a) # Puts(a) \/ Failing(a)')
          /\ Seen' = TakenBy(a) /\ Lets(a)
       \/ /\ Becomes(a, {"installed"}, "failed") /\ Seen' = Expects(a) /\ Rests(a)
          /\ cas => IF a \in Removers THEN Seen = Puts(a) ELSE Expects(a) = Nothing
       \/ /\ Becomes(a, {"idle", "pending", "swapped", "installed", "restoring"}, "failed")
          /\ cas /\ Outcome(a) = "installed" => Seen # Puts(a) \/ Failing(a)'
          /\ Outcome(a) \in {"swapped", "restoring"} => Failing(a)'
          /\ Stays /\ Lets(a)
       \/ /\ Becomes(a, {"pending", "swapped", "installed", "restoring", "failed"}, "crashed")
          /\ Stays /\ Lets(a)

Expectations == [x \in Actors |-> Expects(x)]
Outcomes == [x \in Actors |-> Outcome(x)]
Takings == [x \in Actors |-> TakenBy(x)]
Failed == [x \in Actors |-> Failing(x)]

LEMMA Lifts ==
    ASSUME NEW a \in Actors, Does(a), cas' = cas,
           \A b \in Actors \ {a} : /\ Outcome(b)' = Outcome(b) /\ Expects(b)' = Expects(b)
                                   /\ TakenBy(b)' = TakenBy(b) /\ Failing(b)' = Failing(b)
    PROVE  [Promise!Next]_(Promise!vars)
<1>1. /\ Outcomes' = [Outcomes EXCEPT ![a] = Outcome(a)'] /\ Outcomes[a] = Outcome(a)
      /\ Expectations' = [Expectations EXCEPT ![a] = Expects(a)'] /\ Expectations[a] = Expects(a)
      /\ Takings' = [Takings EXCEPT ![a] = TakenBy(a)'] /\ Takings[a] = TakenBy(a)
  BY DEF Outcomes, Expectations, Takings
<1>2. /\ Expects(a)' = Expects(a) => Expectations' = Expectations
      /\ TakenBy(a)' = TakenBy(a) => Takings' = Takings
      /\ Outcome(a)' = Outcome(a) => Outcomes' = Outcomes
  BY DEF Expectations, Takings, Outcomes
<1>3. Failed' = [Failed EXCEPT ![a] = Failing(a)'] /\ Failed = [Failed EXCEPT ![a] = Failing(a)]
  <2> HIDE DEF Failing
  <2> QED BY DEF Failed
<1>4. /\ Failing(a)' = Failing(a) => Failed' = Failed
      /\ Failing(a)' => Failed' = [Failed EXCEPT ![a] = TRUE]
      /\ Failed' \in {Failed, [Failed EXCEPT ![a] = TRUE]}
  <2>1. Failing(a)' = TRUE \/ Failing(a)' = Failing(a)
    BY DEF Does, Failing
  <2>2. Failing(a)' => Failing(a)' = TRUE
    BY DEF Failing
  <2>3. Failing(a)' = TRUE => Failed' = [Failed EXCEPT ![a] = TRUE]
    BY <1>3, Zenon
  <2>4. Failing(a)' = Failing(a) => Failed' = Failed
    BY <1>3, Zenon
  <2> QED BY <2>1, <2>2, <2>3, <2>4
<1>5. /\ [x \in Actors |-> Outcome(x)] = Outcomes
      /\ [x \in Actors |-> Outcome(x)'] = Outcomes'
      /\ [x \in Actors |-> TakenBy(x)] = Takings
      /\ [x \in Actors |-> TakenBy(x)'] = Takings'
      /\ [x \in Actors |-> IF Existed(x) THEN guard[x].val ELSE Nothing] = Expectations
      /\ [x \in Actors |-> IF Existed(x)' THEN guard'[x].val ELSE Nothing] = Expectations'
      /\ [x \in Actors |-> broken[x] \ {"unlink"} # {}] = Failed
      /\ [x \in Actors |-> broken'[x] \ {"unlink"} # {}] = Failed'
  BY DEF Outcomes, Expectations, Takings, Failed, Expects, Failing
<1>6. Content(target) = Seen /\ Content(target)' = Seen' /\ Puts(a) = Promise!Candidate(a)
  BY DEF Seen, Puts, Promise!Candidate
<1> USE <1>1, <1>2, <1>3, <1>4, <1>5, <1>6
<1> HIDE DEF Outcomes, Expectations, Takings, Failed, Outcome, Expects, TakenBy, Failing, Seen, Puts,
             Content, Existed
<1> USE DEF Promise!Becomes, Promise!Takes, Becomes, Lets, Takes, Rests, Stays
<1>11. CASE Outcome(a)' = Outcome(a) /\ Stays /\ Rests(a) /\ Failing(a)' = Failing(a) /\ Expects(a)' = Expects(a)
  BY <1>11 DEF Promise!vars
<1>12. CASE Outcome(a)' = Outcome(a) /\ Outcome(a) \in {"swapped", "restoring"} /\ Stays /\ Rests(a) /\ Failing(a)'
             /\ Expects(a)' = Expects(a)
  <2>1. Promise!Slip(a)
    BY <1>12 DEF Promise!Slip
  <2> QED BY <2>1 DEF Promise!Next
<1>13. CASE Becomes(a, {"idle"}, "pending") /\ Expects(a)' = Seen /\ Stays /\ Rests(a)
  <2>1. Promise!Capture(a)
    BY <1>13 DEF Promise!Capture
  <2> QED BY <2>1 DEF Promise!Next
<1>14. CASE Becomes(a, {"pending"}, "swapped") /\ cas /\ Seen' = Puts(a) /\ Takes(a) /\ Expects(a)' = Expects(a)
  <2>1. Promise!Displace(a)
    BY <1>14 DEF Promise!Displace
  <2> QED BY <2>1 DEF Promise!Next
<1>15. CASE /\ Becomes(a, {"swapped"}, "installed") /\ (TakenBy(a) = Expects(a) \/ Failing(a)') /\ Stays
            /\ Lets(a) /\ Expects(a)' = Expects(a)
  <2>1. Promise!Keep(a)
    BY <1>15 DEF Promise!Keep
  <2> QED BY <2>1 DEF Promise!Next
<1>16. CASE Becomes(a, {"swapped"}, "failed") /\ Seen' = TakenBy(a) /\ Lets(a) /\ Expects(a)' = Expects(a)
  <2>1. Promise!PutBack(a)
    BY <1>16 DEF Promise!PutBack
  <2> QED BY <2>1 DEF Promise!Next
<1>17. CASE /\ Becomes(a, {"pending"}, "installed") /\ (cas => Seen = Nothing /\ Expects(a) = Nothing)
            /\ Seen' = Puts(a) /\ Rests(a) /\ Expects(a)' = Expects(a)
  <2>1. Promise!Publish(a)
    BY <1>17 DEF Promise!Publish
  <2> QED BY <2>1 DEF Promise!Next
<1>18. CASE Becomes(a, {"installed"}, "ok") /\ Stays /\ Rests(a) /\ Expects(a)' = Expects(a)
  <2>1. Promise!Confirm(a)
    BY <1>18 DEF Promise!Confirm
  <2> QED BY <2>1 DEF Promise!Next
<1>19. CASE /\ Becomes(a, {"installed"}, "restoring") /\ cas /\ a \notin Removers /\ Seen' = Expects(a)
            /\ Takes(a) /\ Expects(a)' = Expects(a)
  <2>1. Promise!Exchange(a)
    BY <1>19 DEF Promise!Exchange
  <2> QED BY <2>1 DEF Promise!Next
<1>20. CASE /\ Becomes(a, {"restoring"}, "failed") /\ TakenBy(a) = Puts(a) /\ Stays /\ Lets(a)
            /\ Expects(a)' = Expects(a)
  <2>1. Promise!Restored(a)
    BY <1>20 DEF Promise!Restored
  <2> QED BY <2>1 DEF Promise!Next
<1>21. CASE /\ Becomes(a, {"restoring"}, "failed") /\ (TakenBy(a) # Puts(a) \/ Failing(a)')
            /\ Seen' = TakenBy(a) /\ Lets(a) /\ Expects(a)' = Expects(a)
  <2>1. Promise!Unrestore(a)
    BY <1>21 DEF Promise!Unrestore
  <2> QED BY <2>1 DEF Promise!Next
<1>22. CASE /\ Becomes(a, {"installed"}, "failed") /\ Seen' = Expects(a) /\ Rests(a)
            /\ cas => IF a \in Removers THEN Seen = Puts(a) ELSE Expects(a) = Nothing
            /\ Expects(a)' = Expects(a)
  <2>1. Promise!Withdraw(a)
    BY <1>22 DEF Promise!Withdraw
  <2> QED BY <2>1 DEF Promise!Next
<1>23. CASE /\ Becomes(a, {"idle", "pending", "swapped", "installed", "restoring"}, "failed")
            /\ cas /\ Outcome(a) = "installed" => Seen # Puts(a) \/ Failing(a)'
            /\ Outcome(a) \in {"swapped", "restoring"} => Failing(a)'
            /\ Stays /\ Lets(a) /\ Expects(a)' = Expects(a)
  <2>1. Promise!Fail(a)
    BY <1>23 DEF Promise!Fail
  <2> QED BY <2>1 DEF Promise!Next
<1>24. CASE /\ Becomes(a, {"pending", "swapped", "installed", "restoring", "failed"}, "crashed")
            /\ Stays /\ Lets(a) /\ Expects(a)' = Expects(a)
  <2>1. Promise!Crash(a)
    BY <1>24 DEF Promise!Crash
  <2> QED BY <2>1 DEF Promise!Next
<1> QED
  BY <1>11, <1>12, <1>13, <1>14, <1>15, <1>16, <1>17, <1>18, <1>19, <1>20, <1>21, <1>22, <1>23,
     <1>24
     DEF Does

\* Every step of a call does one of these things, or nothing.
LEMMA OwnDoes ==
    ASSUME SerialInv, Owned, Placed, NEW a \in Actors, Acts(a)
    PROVE  Does(a)
<1>1. TypeOK /\ NamesOK(a) /\ PlaceOK(a) /\ (a \in Publishers => OwnOK(a))
  BY DEF SerialInv, Base, Owned, Placed
<1>2. /\ a \in Publishers <=> a \notin Removers
      /\ a \in Publishers =>
            /\ Copy(a) \in Inodes /\ Candidate(a) \in Inodes /\ Copy(a) # Candidate(a)
            /\ IsFile(Copy(a)) /\ IsFile(Candidate(a)) /\ a # Nothing
      /\ ~IsFile(Sentinel(a)) /\ ~IsFile(Nothing) /\ Nothing \notin Inodes
      /\ Copy(a) = Inode("restore", a)
  BY Inodes2, OwnInodes, PublicationAssumption DEF Actors, IsFile, Copy, Authors
<1>3. /\ Existed(a) => Expects(a) = guard[a].val
      /\ ~Existed(a) => Expects(a) = Nothing
      /\ guard'[a] = guard[a] => Expects(a)' = Expects(a) /\ (Existed(a)' <=> Existed(a))
  BY DEF Expects, Existed
<1>4. \A i \in Inodes \cup {Nothing} :
         /\ Captured(a, i) /\ Existed(a) => i # Nothing /\ data[i] = guard[a].val
         /\ Captured(a, i) /\ ~Existed(a) => i = Nothing
  BY <1>1, Guarded
<1>5. \A i : IsCandidate(a, i) <=> i = Candidate(a) /\ data[i] = a
  BY DEF IsCandidate
<1>6. (a \in Removers => Puts(a) = Nothing) /\ (a \in Publishers => Puts(a) = a)
  BY <1>2 DEF Puts
<1>7. \A i \in Inodes : data[i] \in Authors /\ data[i] # Nothing
  BY <1>1, PublicationAssumption DEF TypeOK
<1>8. /\ \A i : (IsFile(i) => Content(i) = data[i]) /\ (~IsFile(i) => Content(i) = Nothing)
      /\ Seen' = IF IsFile(target') THEN data'[target'] ELSE Nothing
      /\ Content(temp[a])' = IF IsFile(temp'[a]) THEN data'[temp'[a]] ELSE Nothing
      /\ Content(spare[a])' = IF IsFile(spare'[a]) THEN data'[spare'[a]] ELSE Nothing
      /\ Seen = Content(target)
  BY DEF Seen, Content
<1>9. /\ broken'[a] = broken[a] => Failing(a)' = Failing(a)
      /\ broken'[a] = broken[a] \cup {"putback"} => Failing(a)'
      /\ broken'[a] = broken[a] \cup {"rollback"} => Failing(a)'
      /\ broken'[a] = broken[a] \cup {"unlink"} => Failing(a)' = Failing(a)
      /\ "rollback" \in broken[a] => Failing(a)
  BY DEF Failing
<1> USE <1>1, <1>2, <1>3, <1>4, <1>5, <1>6, <1>7, <1>8, <1>9, OutcomeIs, OutcomeNext
<1> HIDE DEF IsFile, Candidate, Copy, Sentinel, Seen, Content, Outcome, TakenBy, Failing, Expects, Puts,
             Captured, IsCandidate, Existed
<1> USE DEF Goes, Keeps, Fails, names, SwapsTemp, TypeOK, NamesOK, PlaceOK, OwnOK, Empty, Taken, Aside,
            Does, Becomes, Lets, Takes, Rests, Stays, Waiting, Exchanged, Uncopied, Writing, Owning,
            Ended, PublisherSteps, RemoverSteps, Published
<1>11. CASE Capture(a)
  <2>0. pc[a] = "idle" /\ UNCHANGED <<target, temp, spare, data, broken>>
    BY <1>11 DEF Capture
  <2>1. CASE target = Nothing \/ IsFile(target)
    <3>1. pc'[a] = "captured" /\ guard'[a] = Identity(target)
      BY <1>11, <2>1 DEF Capture
    <3>2. Expects(a)' = Seen
      <4>1. Expects(a)' = IF guard'[a] = Nothing THEN Nothing ELSE guard'[a].val
        BY DEF Expects, Existed
      <4>2. CASE target = Nothing
        BY <3>1, <4>1, <4>2 DEF Identity
      <4>3. CASE target # Nothing
        <5>1. Identity(target) # Nothing /\ Identity(target).val = data[target]
          BY <4>3, Guarded
        <5> QED BY <2>1, <3>1, <4>1, <4>3, <5>1
      <4> QED BY <4>2, <4>3
    <3> QED BY <2>0, <3>1, <3>2
  <2>2. CASE ~(target = Nothing \/ IsFile(target))
    BY <1>11, <2>0, <2>2 DEF Capture
  <2> QED BY <2>1, <2>2
<1>12. CASE Snapshot(a)
  BY <1>12 DEF Snapshot
<1>13. CASE Stage(a)
  BY <1>13 DEF Stage
<1>14. CASE Check(a)
  BY <1>14 DEF Check
<1>15. CASE GiveUp(a)
  <2>1. /\ pc[a] \in Waiting \cup {"sentinel"} /\ pc'[a] \in {"failed", "cleanup"}
        /\ UNCHANGED <<target, temp, spare, data, guard, broken>>
    BY <1>15 DEF GiveUp
  <2>2. Becomes(a, {"pending"}, "failed") /\ Stays /\ Lets(a)
    BY <2>1
  <2> QED BY <2>1, <2>2
<1>16. CASE Exchange(a)
  <2>1. /\ cas /\ Existed(a) /\ target # Nothing /\ pc[a] \in {"checked", "sentinel"}
        /\ pc'[a] = "swapped" /\ target' = temp[a] /\ temp'[a] = target
        /\ UNCHANGED <<data, guard, broken>>
    BY <1>16 DEF Exchange
  <2>2. IsFile(target) /\ Content(temp[a])' = Seen
    BY <2>1
  <2>3. Seen' = Puts(a)
    <3>1. CASE a \in Publishers
      BY <2>1, <3>1
    <3>2. CASE a \in Removers
      BY <2>1, <3>2
    <3> QED BY <3>1, <3>2
  <2>4. Becomes(a, {"pending"}, "swapped") /\ Takes(a)
    BY <2>1, <2>2
  <2> QED BY <2>1, <2>3, <2>4
<1>17. CASE Compare(a)
  BY <1>17 DEF Compare
<1>18. CASE SwapBack(a)
  BY <1>18 DEF SwapBack
<1>19. CASE Link(a)
  BY <1>19 DEF Link
<1>20. CASE Replace(a)
  BY <1>20 DEF Replace
<1>21. CASE DropDisplaced(a)
  BY <1>21 DEF DropDisplaced
<1>22. CASE Confirm(a)
  BY <1>22 DEF Confirm
<1>23. CASE Doubt(a)
  BY <1>23 DEF Doubt
<1>24. CASE Withdraw(a)
  BY <1>24 DEF Withdraw
<1>25. CASE LeaveIt(a)
  BY <1>25 DEF LeaveIt
<1>26. CASE UnlinkCandidate(a)
  BY <1>26 DEF UnlinkCandidate
<1>27. CASE SwapRestore(a)
  BY <1>27 DEF SwapRestore
<1>28. CASE CompareRestore(a)
  BY <1>28 DEF CompareRestore
<1>29. CASE UnswapRestore(a)
  BY <1>29 DEF UnswapRestore
<1>30. CASE RecheckRestore(a)
  BY <1>30 DEF RecheckRestore
<1>31. CASE ReplaceRestore(a)
  BY <1>31 DEF ReplaceRestore
<1>32. CASE Cleanup(a)
  BY <1>32 DEF Cleanup
<1>33. CASE RemoveNothing(a)
  BY <1>33 DEF RemoveNothing
<1>34. CASE PutSentinel(a)
  BY <1>34 DEF PutSentinel
<1>35. CASE RemoveSentinel(a)
  BY <1>35 DEF RemoveSentinel
<1>36. CASE Reseat(a)
  BY <1>36 DEF Reseat
<1>37. CASE Removed(a)
  BY <1>37 DEF Removed
<1>38. CASE Relink(a)
  BY <1>38 DEF Relink
<1>39. CASE PortableCheck(a)
  BY <1>39 DEF PortableCheck
<1>40. CASE PortableRemove(a)
  BY <1>40 DEF PortableRemove
<1>41. CASE PortableEnd(a)
  BY <1>41 DEF PortableEnd
<1>42. CASE Crash(a)
  <2>1. /\ pc[a] \in Steps \ ({"idle"} \cup Ended) /\ pc'[a] = "dead"
        /\ UNCHANGED <<target, temp, spare, data, guard, broken>>
    BY <1>42 DEF Crash
  <2>2. Outcome(a) \in {"pending", "swapped", "installed", "restoring", "failed"}
    BY <2>1 DEF Steps, Removing
  <2>3. Becomes(a, {"pending", "swapped", "installed", "restoring", "failed"}, "crashed") /\ Stays /\ Lets(a)
    BY <2>1, <2>2
  <2> QED BY <2>1, <2>3
<1>43. CASE SwapBackFails(a)
  <2>1. /\ pc[a] = "swapback" /\ pc'[a] = IF a \in Publishers THEN "withdraw" ELSE "stuck"
        /\ broken'[a] = broken[a] \cup {"putback"}
        /\ UNCHANGED <<target, temp, spare, data, guard>>
    BY <1>43 DEF SwapBackFails
  <2>2. Failing(a)' /\ Stays /\ Expects(a)' = Expects(a) /\ Outcome(a) = "swapped"
    BY <2>1
  <2>3. CASE a \in Publishers
    BY <2>1, <2>2, <2>3
  <2>4. CASE a \notin Publishers
    <3>1. pc'[a] = "stuck" /\ Content(temp[a])' = Content(temp[a])
      BY <2>1, <2>4
    <3>2. Outcome(a)' = "swapped" /\ Rests(a)
      BY <2>1, <3>1
    <3> QED BY <2>2, <3>2
  <2> QED BY <2>3, <2>4
<1>44. CASE RollbackFails(a)
  BY <1>44 DEF RollbackFails
<1>45. CASE Misread(a)
  <2>1. /\ pc[a] = "restored" /\ pc'[a] = "reswap" /\ broken'[a] = broken[a] \cup {"rollback"}
        /\ UNCHANGED <<target, temp, spare, data, guard>>
    BY <1>45 DEF Misread
  <2>2. Failing(a)' /\ Stays /\ Expects(a)' = Expects(a) /\ Content(spare[a])' = Content(spare[a])
    BY <2>1
  <2>3. Outcome(a) = "restoring" /\ Outcome(a)' = "restoring" /\ Rests(a)
    BY <2>1, <2>2
  <2> QED BY <2>2, <2>3
<1>46. CASE UnswapLeaves(a)
  BY <1>46 DEF UnswapLeaves
<1>47. CASE CleanupFails(a)
  BY <1>47 DEF CleanupFails
<1>48. CASE PutBackFails(a)
  <2>1. /\ a \in Removers /\ cas /\ pc[a] \in {"installed", "stuck", "emptied"} /\ pc'[a] = "failed"
        /\ broken'[a] = broken[a] \cup {"rollback"} /\ UNCHANGED <<data, guard>>
        /\ \/ target' = target
           \/ pc[a] = "emptied" /\ target = Nothing /\ Captured(a, temp[a]) /\ target' = temp[a]
    BY <1>48 DEF PutBackFails
  <2>2. /\ Failing(a)' /\ Expects(a)' = Expects(a) /\ Outcome(a) \in {"installed", "swapped"}
        /\ Lets(a) /\ Outcome(a)' = "failed"
    BY <2>1
  <2>3. CASE target' = target
    BY <2>1, <2>2, <2>3
  <2>4. CASE pc[a] = "emptied" /\ target = Nothing /\ Captured(a, temp[a]) /\ target' = temp[a]
    <3>1. Seen = Nothing /\ Seen' = Expects(a) /\ Rests(a)
      BY <2>1, <2>4
    <3> QED BY <2>1, <2>2, <2>4, <3>1
  <2> QED BY <2>1, <2>3, <2>4
<1> QED
  BY <1>11, <1>12, <1>13, <1>14, <1>15, <1>16, <1>17, <1>18, <1>19, <1>20, <1>21, <1>22, <1>23,
     <1>24, <1>25, <1>26, <1>27, <1>28, <1>29, <1>30, <1>31, <1>32, <1>33, <1>34, <1>35, <1>36,
     <1>37, <1>38, <1>39, <1>40, <1>41, <1>42, <1>43, <1>44, <1>45, <1>46, <1>47, <1>48
     DEF Acts, Publishing, Restoring, Deleting

LEMMA StepKeeps ==
    ASSUME Serialised, Faithful, [Next]_vars
    PROVE  [Promise!Next]_(Promise!vars)
<1> USE DEF Faithful
<1>1. ASSUME NEW a \in Actors, Acts(a)
      PROVE  [Promise!Next]_(Promise!vars)
  <2>1. /\ cas' = cas
        /\ \A b \in Actors \ {a} :
              pc'[b] = pc[b] /\ guard'[b] = guard[b] /\ broken'[b] = broken[b] /\ ~Active(b)
    BY <1>1, Frame, OthersWait DEF SerialInv, Base
  <2>2. ASSUME NEW b \in Actors \ {a}
        PROVE  /\ Outcome(b)' = Outcome(b) /\ Expects(b)' = Expects(b)
               /\ TakenBy(b)' = TakenBy(b) /\ Failing(b)' = Failing(b)
    <3>1. pc'[b] = pc[b] /\ guard'[b] = guard[b] /\ pc[b] \in {"idle"} \cup Ended
      BY <2>1 DEF Active
    <3>2. Outcome(b)' = Outcome(b) /\ TakenBy(b)' = TakenBy(b)
      BY <3>1, OutcomeIs, OutcomeNext DEF Ended
    <3> QED BY <2>1, <3>1, <3>2 DEF Expects, Existed, Failing
  <2>3. Does(a)
    BY <1>1, OwnDoes
  <2> QED BY <2>1, <2>2, <2>3, Lifts
<1>2. ASSUME NEW e \in Edits, External(e)
      PROVE  [Promise!Next]_(Promise!vars)
  <2>1. /\ UNCHANGED <<cas, temp, spare, guard, pc, broken>> /\ e \notin done /\ TypeOK
        /\ \/ target' = Inode("file", e) /\ data' = data
           \/ target' = target /\ IsFile(target) /\ data' = [data EXCEPT ![target] = e]
    BY <1>2 DEF External, SaveOver, WriteInto, SerialInv, Base
  <2>2. Content(target)' = e /\ \A i \in Inodes : i # target => data'[i] = data[i]
    <3>1. data[Inode("file", e)] = e /\ IsFile(Inode("file", e))
      BY <2>1, Inodes2 DEF Unborn
    <3>2. IsFile(target) => target \in Inodes
      BY <2>1 DEF TypeOK, IsFile
    <3> QED BY <2>1, <3>1, <3>2 DEF TypeOK, Content
  <2>3. ASSUME NEW a \in Actors
        PROVE  /\ Outcome(a)' = Outcome(a) /\ Expects(a)' = Expects(a)
               /\ TakenBy(a)' = TakenBy(a) /\ Failing(a)' = Failing(a)
    <3>1. pc[a] \in Exchanged \cup {"stuck"} => temp[a] \in Inodes /\ temp[a] # target
      BY <2>1 DEF Placed, PlaceOK, Aside, IsFile, TypeOK
    <3>2. pc[a] \in {"restored", "reswap"} => spare[a] \in Inodes /\ spare[a] # target
      BY <2>1 DEF Placed, PlaceOK, IsFile, TypeOK
    <3>3. /\ pc[a] \in Exchanged \cup {"stuck"} => Content(temp[a])' = Content(temp[a])
          /\ pc[a] \in {"restored", "reswap"} => Content(spare[a])' = Content(spare[a])
      BY <2>1, <2>2, <3>1, <3>2 DEF Content
    <3>4. Outcome(a)' = Outcome(a)
      BY <2>1 DEF Outcome
    <3>5. TakenBy(a)' = TakenBy(a)
      <4>1. pc[a] \in Steps /\ pc'[a] = pc[a]
        BY <2>1 DEF TypeOK
      <4> HIDE DEF Content, Outcome, TakenBy
      <4> QED BY <3>3, <4>1, OutcomeIs, OutcomeNext DEF Steps, Waiting, Exchanged, Published,
              Removing, Ended, Owning
    <3> QED BY <2>1, <3>4, <3>5 DEF Expects, Existed, Failing
  <2>4. Outcomes' = Outcomes /\ Expectations' = Expectations /\ Takings' = Takings /\ Failed' = Failed
    <3> HIDE DEF Outcome, Expects, TakenBy, Failing
    <3> QED BY <2>3 DEF Outcomes, Expectations, Takings, Failed
  <2>5. Promise!External
    BY <2>1, <2>2, <2>4 DEF Promise!External, Outcomes, Expectations, Takings, Failed, Expects, Failing
  <2> QED BY <2>5 DEF Promise!Next
<1>3. CASE UNCHANGED vars
  <2>1. UNCHANGED <<cas, target, temp, spare, data, guard, pc, broken>>
    BY <1>3 DEF vars, names
  <2> QED BY <2>1 DEF Promise!vars, Outcome, TakenBy, Content, Existed
<1> QED BY <1>1, <1>2, <1>3 DEF Next, Acts

\* Serialised calls keep the promise of GuardedRegister, whatever is written from
\* outside between their steps and whatever fails: a call keeps in the end only the
\* version it captured away from the name, and puts any other back.
THEOREM PromiseKept == ASSUME Serialised PROVE Spec => KeepsPromise
<1>1. ASSUME Init
      PROVE  Promise!Init
  <2>1. \A a \in Actors : /\ Outcome(a) = "idle" /\ TakenBy(a) = Nothing /\ ~Existed(a)
                          /\ broken[a] \ {"unlink"} = {}
    BY <1>1, OutcomeIs DEF Init, Existed
  <2>2. target = Inode("file", Initial) => target \in Inodes /\ target.by = Initial /\ IsFile(target)
    BY OwnInodes DEF Inode, IsFile
  <2>3. Content(target) \in {Initial, Nothing}
    BY <1>1, <2>2 DEF Init, IsFile, Content
  <2> HIDE DEF Outcome, TakenBy, Content
  <2> QED BY <1>1, <2>1, <2>3 DEF Promise!Init, Init
<1>2. Faithful /\ [Next]_vars => [Promise!Next]_(Promise!vars)
  BY StepKeeps
<1> QED BY <1>1, <1>2, FaithfulHolds, PTL DEF Spec, KeepsPromise, Promise!Spec
=============================================================================
