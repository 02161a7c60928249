-------------------------- MODULE DesktopLockProofs --------------------------
(***************************************************************************)
(* Proofs about the desktop lock, for any processes, threads and nesting.  *)
(*                                                                         *)
(* A level that took the flock (outer[t] > 0) is tied to the flock itself: *)
(* the flock is its file's and its process has a descriptor of that file,  *)
(* so neither a child that closes its copy nor the death of another        *)
(* process can free it (Backed).  That is enough for OneHolder.  Every     *)
(* level of a thread that is alone in its forked process, or in a process  *)
(* that was not forked, stands on such a level and held says so            *)
(* (Grounded), whatever slips in elsewhere.                                *)
(***************************************************************************)
EXTENDS DesktopLock, TLAPS

Backed ==
    /\ \A t \in Threads : outer[t] > 0 =>
          /\ ProcOf[t] \in alive
          /\ ProcOf[t] \in fds[t]
          /\ flock = t
          /\ outer[t] <= depth[t]
    /\ \A t \in Threads : pc[t] = "flock" => ProcOf[t] \in fds[t]
    /\ \A t \in Threads : pc[t] \in {"resetting", "mutex", "flock"} => depth[t] < MaxDepth
    /\ \A t, o \in Threads : o \in past[t] => ProcOf[o] # ProcOf[t]

\* The inductive invariant of every instance.
LockInv == TypeOK /\ Backed

\* What is added to it for the lone threads.
Stands(t) ==
    /\ held[t] <=> depth[t] > 0
    /\ depth[t] > 0 => outer[t] = 1
    /\ pc[t] = "flock" => depth[t] = 0
    /\ ProcOf[t] \notin alive => depth[t] = 0 /\ pc[t] = "user"
    /\ stage[ProcOf[t]] # "own" => depth[t] = 0
    /\ stage[ProcOf[t]] = "halfway" <=> pc[t] = "resetting"
    /\ pc[t] \in {"mutex", "flock"} => stage[ProcOf[t]] = "own"
Grounded ==
    /\ \A t \in Lone : Stands(t)
    /\ \A p \in Processes : stage[p] # "own" => p \in Forked /\ p \in alive

LEMMA Facts == /\ \A t \in Threads : ProcOf[t] \in Processes
               /\ Free \notin Threads
               /\ MaxDepth \in Nat
BY DesktopAssumption

LEMMA InitLockInv == Init => LockInv
BY Facts DEF Init, LockInv, TypeOK, Backed

-----------------------------------------------------------------------------
(* Types.                                                                  *)

LEMMA EnteringTyped ==
    ASSUME LockInv, NEW t \in Threads,
           \/ Notices(t) \/ Replaces(t) \/ Calls(t) \/ CallsHalfway(t)
           \/ Acquires(t) \/ Locks(t) \/ Refused(t)
    PROVE  TypeOK'
<1> USE DEF LockInv
<1>0. ProcOf[t] \in Processes /\ MaxDepth \in Nat
  BY Facts
<1>1. CASE Notices(t)
  BY <1>1 DEF TypeOK, Notices, Goes, code, lock
<1>2. CASE Replaces(t)
  <2>1. held' \in [Threads -> BOOLEAN]
    BY <1>2 DEF Replaces, TypeOK
  <2>2. QED
    BY <1>2, <2>1 DEF TypeOK, Replaces, Goes, code, lock
<1>3. CASE Calls(t)
  BY <1>3 DEF TypeOK, Calls, Goes, code, lock
<1>4. \A ps \in SUBSET Processes : Files(t, ps) \in [Threads -> SUBSET Processes]
  BY DEF Files, TypeOK
<1>5. depth[t] < MaxDepth => [depth EXCEPT ![t] = @ + 1] \in [Threads -> 0 .. MaxDepth]
  BY <1>0 DEF TypeOK
<1>6. CASE CallsHalfway(t)
  BY <1>0, <1>4, <1>5, <1>6 DEF TypeOK, CallsHalfway, Goes, code
<1>7. CASE Acquires(t)
  BY <1>0, <1>4, <1>5, <1>7 DEF TypeOK, Acquires, Goes, code, Backed, At
<1>8. CASE Locks(t)
  <2>1. depth[t] < MaxDepth
    BY <1>8 DEF Locks, At, Backed
  <2>2. outer' \in [Threads -> 0 .. MaxDepth]
    BY <1>0, <1>8, <2>1 DEF TypeOK, Locks
  <2>3. QED
    BY <1>0, <1>5, <1>8, <2>1, <2>2 DEF TypeOK, Locks, Goes, code
<1>9. CASE Refused(t)
  BY <1>0, <1>4, <1>9 DEF TypeOK, Refused, Goes, code
<1>10. QED
  BY <1>1, <1>2, <1>3, <1>6, <1>7, <1>8, <1>9

LEMMA LeavingTyped ==
    ASSUME LockInv, NEW t \in Threads, Leaves(t) \/ Releases(t) \/ Unwinds(t)
    PROVE  TypeOK'
<1> USE DEF LockInv
<1>0. ProcOf[t] \in Processes /\ MaxDepth \in Nat
  BY Facts
<1>1. CASE Leaves(t)
  <2>1. depth' \in [Threads -> 0 .. MaxDepth]
    BY <1>0, <1>1 DEF TypeOK, Leaves
  <2>2. /\ pc' \in [Threads -> {"user", "resetting", "mutex", "flock", "release"}]
        /\ outer' \in [Threads -> 0 .. MaxDepth]
        /\ held' \in [Threads -> BOOLEAN]
        /\ flock' \in Threads \cup {Free}
        /\ fds' \in [Threads -> SUBSET Processes]
    <3>1. CASE outer[t] = depth[t]
      <4>1. /\ pc' = [pc EXCEPT ![t] = "release"]
            /\ outer' = [outer EXCEPT ![t] = 0]
            /\ held' = [held EXCEPT ![t] = FALSE]
            /\ flock' = Free
            /\ fds' = [fds EXCEPT ![t] = {}]
        BY <1>1, <3>1 DEF Leaves, Goes
      <4>2. 0 \in 0 .. MaxDepth
        BY <1>0
      <4>3. QED
        BY <4>1, <4>2 DEF TypeOK
    <3>2. CASE outer[t] # depth[t]
      BY <1>1, <3>2 DEF TypeOK, Leaves, lock
    <3>3. QED
      BY <3>1, <3>2
  <2>3. QED
    BY <1>1, <2>1, <2>2 DEF TypeOK, Leaves, code
<1>2. CASE Releases(t)
  BY <1>2 DEF TypeOK, Releases, Goes, code, lock
<1>3. CASE Unwinds(t)
  <2>1. PICK o \in past[t] : /\ past' = [past EXCEPT ![t] = @ \ {o}]
                             /\ fds' = [fds EXCEPT ![o] = @ \ {ProcOf[t]}]
                             /\ flock' = Closed(fds')
    BY <1>3 DEF Unwinds
  <2>2. /\ past' \in [Threads -> SUBSET Threads]
        /\ fds' \in [Threads -> SUBSET Processes]
        /\ flock' \in Threads \cup {Free}
    BY <2>1 DEF TypeOK, Closed
  <2>3. QED
    BY <1>3, <2>2 DEF TypeOK, Unwinds
<1>4. QED
  BY <1>1, <1>2, <1>3

LEMMA ProcessesTyped ==
    ASSUME LockInv,
           \/ \E t, c \in Threads : Fork(t, c)
           \/ \E p \in Processes : Starts(p) \/ Ends(p)
    PROVE  TypeOK'
<1> USE DEF LockInv
<1>1. ASSUME NEW t \in Threads, NEW c \in Threads, Fork(t, c)
      PROVE  TypeOK'
  <2>1. ProcOf[t] \in Processes /\ ProcOf[c] \in Processes
    BY Facts
  <2>2. /\ alive' \subseteq Processes
        /\ stage' \in [Processes -> {"own", "inherited", "halfway"}]
        /\ past' \in [Threads -> SUBSET Threads]
        /\ fds' \in [Threads -> SUBSET Processes]
    BY <1>1, <2>1 DEF TypeOK, Fork
  <2>3. copied' \in [Threads -> BOOLEAN]
    BY <1>1 DEF TypeOK, Fork
  <2>4. QED
    BY <1>1, <2>2, <2>3 DEF TypeOK, Fork
<1>2. ASSUME NEW p \in Processes, Starts(p)
      PROVE  TypeOK'
  BY <1>2 DEF TypeOK, Starts, lock
<1>3. ASSUME NEW p \in Processes, Ends(p)
      PROVE  TypeOK'
  <2>1. /\ alive' \subseteq Processes
        /\ stage' \in [Processes -> {"own", "inherited", "halfway"}]
        /\ pc' \in [Threads -> {"user", "resetting", "mutex", "flock", "release"}]
        /\ past' \in [Threads -> SUBSET Threads]
    BY <1>3 DEF TypeOK, Ends
  <2>2. depth' \in [Threads -> 0 .. MaxDepth] /\ outer' \in [Threads -> 0 .. MaxDepth]
    BY <1>3, Facts DEF TypeOK, Ends
  <2>3. held' \in [Threads -> BOOLEAN] /\ copied' \in [Threads -> BOOLEAN]
    BY <1>3 DEF TypeOK, Ends
  <2>4. fds' \in [Threads -> SUBSET Processes] /\ flock' \in Threads \cup {Free}
    BY <1>3 DEF TypeOK, Ends, Closed
  <2>5. QED
    BY <2>1, <2>2, <2>3, <2>4 DEF TypeOK
<1>4. QED
  BY <1>1, <1>2, <1>3

-----------------------------------------------------------------------------
(* A level that has the flock keeps it.                                    *)

LEMMA EnteringBacked ==
    ASSUME LockInv, NEW t \in Threads,
           \/ Notices(t) \/ Replaces(t) \/ Calls(t) \/ CallsHalfway(t)
           \/ Acquires(t) \/ Locks(t) \/ Refused(t)
    PROVE  Backed'
<1> USE DEF LockInv
<1>0. \A u \in Threads : depth[u] \in Nat /\ outer[u] \in Nat
  BY DEF TypeOK
<1>1. CASE Notices(t)
  BY <1>1 DEF TypeOK, Backed, Notices, Goes, code, lock
<1>2. CASE Replaces(t)
  BY <1>2 DEF TypeOK, Backed, Replaces, Goes, code, lock, At
<1>3. CASE Calls(t)
  BY <1>3 DEF TypeOK, Backed, Calls, Goes, code, lock
<1>4. CASE CallsHalfway(t)
  BY <1>0, <1>4 DEF TypeOK, Backed, CallsHalfway, Goes, code, Files, At
<1>5. CASE Acquires(t)
  BY <1>0, <1>5 DEF TypeOK, Backed, Acquires, Goes, code, Files, At
<1>6. CASE Locks(t)
  <2>1. \A u \in Threads : outer[u] = 0
    BY <1>0, <1>6, Facts DEF Locks, Backed
  <2>2. ProcOf[t] \in alive /\ ProcOf[t] \in fds[t]
    BY <1>6 DEF Locks, At, Backed
  <2>3. QED
    BY <1>0, <1>6, <2>1, <2>2 DEF TypeOK, Backed, Locks, Goes, code
<1>7. CASE Refused(t)
  BY <1>0, <1>7 DEF TypeOK, Backed, Refused, Goes, code, Files, At
<1>8. QED
  BY <1>1, <1>2, <1>3, <1>4, <1>5, <1>6, <1>7

LEMMA LeavingBacked ==
    ASSUME LockInv, NEW t \in Threads, Leaves(t) \/ Releases(t) \/ Unwinds(t)
    PROVE  Backed'
<1> USE DEF LockInv
<1>0. \A u \in Threads : depth[u] \in Nat /\ outer[u] \in Nat
  BY DEF TypeOK
<1>1. CASE Leaves(t) /\ outer[t] = depth[t]
  <2>1. outer[t] > 0 /\ \A u \in Threads \ {t} : outer[u] = 0
    BY <1>0, <1>1 DEF Leaves, Backed
  <2>2. /\ outer' = [outer EXCEPT ![t] = 0] /\ fds' = [fds EXCEPT ![t] = {}]
        /\ pc' = [pc EXCEPT ![t] = "release"] /\ depth' = [depth EXCEPT ![t] = @ - 1]
        /\ UNCHANGED code
    BY <1>1 DEF Leaves, Goes
  <2>3. QED
    BY <1>0, <2>1, <2>2 DEF TypeOK, Backed, code
<1>2. CASE Leaves(t) /\ outer[t] # depth[t]
  <2>1. /\ UNCHANGED <<pc, outer, lock, code>> /\ depth' = [depth EXCEPT ![t] = @ - 1]
        /\ pc[t] = "user"
    BY <1>2 DEF Leaves, At
  <2>2. outer[t] <= depth[t]
    BY <1>0 DEF Backed
  <2>3. QED
    BY <1>0, <1>2, <2>1, <2>2 DEF TypeOK, Backed, lock, code
<1>3. CASE Releases(t)
  BY <1>3 DEF TypeOK, Backed, Releases, Goes, code, lock
<1>4. CASE Unwinds(t)
  <2>1. PICK o \in past[t] : /\ past' = [past EXCEPT ![t] = @ \ {o}]
                             /\ fds' = [fds EXCEPT ![o] = @ \ {ProcOf[t]}]
                             /\ flock' = Closed(fds')
    BY <1>4 DEF Unwinds
  <2>2. o \in Threads /\ ProcOf[o] # ProcOf[t]
    BY DEF TypeOK, Backed
  <2>3. \A u \in Threads : ProcOf[u] \in fds[u] => ProcOf[u] \in fds'[u]
    BY <2>1, <2>2 DEF TypeOK
  <2>4. \A u \in Threads : outer[u] > 0 => flock' = u
    BY <2>1, <2>3 DEF Backed, Closed
  <2>5. \A u \in Threads : past'[u] \subseteq past[u]
    BY <2>1 DEF TypeOK
  <2>6. QED
    BY <1>4, <2>3, <2>4, <2>5 DEF Backed, Unwinds
<1>5. QED
  BY <1>1, <1>2, <1>3, <1>4

LEMMA ProcessesBacked ==
    ASSUME LockInv,
           \/ \E t, c \in Threads : Fork(t, c)
           \/ \E p \in Processes : Starts(p) \/ Ends(p)
    PROVE  Backed'
<1> USE DEF LockInv
<1>1. ASSUME NEW t \in Threads, NEW c \in Threads, Fork(t, c)
      PROVE  Backed'
  <2>1. \A o \in past[t] \cup {t} : ProcOf[o] # ProcOf[c]
    <3>1. ProcOf[t] \in alive /\ ProcOf[c] \notin alive
      BY <1>1 DEF Fork, At, Gone
    <3>2. \A o \in past[t] : ProcOf[o] # ProcOf[c]
      BY <1>1 DEF Fork, Gone, TypeOK
    <3>3. QED
      BY <3>1, <3>2
  <2>2. \A u, o \in Threads : o \in past'[u] => ProcOf[o] # ProcOf[u]
    BY <1>1, <2>1 DEF Fork, TypeOK, Backed
  <2>3. \A o \in Threads : fds[o] \subseteq fds'[o]
    BY <1>1 DEF Fork
  <2>4. alive \subseteq alive' /\ UNCHANGED <<pc, depth, outer, flock>>
    BY <1>1 DEF Fork
  <2>5. QED
    BY <2>2, <2>3, <2>4 DEF Backed
<1>2. ASSUME NEW p \in Processes, Starts(p)
      PROVE  Backed'
  BY <1>2 DEF Backed, Starts, lock
<1>3. ASSUME NEW p \in Processes, Ends(p)
      PROVE  Backed'
  <2>1. ASSUME NEW u \in Threads
        PROVE  /\ outer'[u] = IF ProcOf[u] = p THEN 0 ELSE outer[u]
               /\ depth'[u] = IF ProcOf[u] = p THEN 0 ELSE depth[u]
               /\ pc'[u] = IF ProcOf[u] = p THEN "user" ELSE pc[u]
               /\ past'[u] \subseteq past[u]
               /\ fds'[u] = fds[u] \ {p}
               /\ ProcOf[u] \in alive /\ ProcOf[u] # p => ProcOf[u] \in alive'
    BY <1>3 DEF Ends
  <2>2. flock' = Closed(fds')
    BY <1>3 DEF Ends
  <2>3. \A u \in Threads : outer'[u] > 0 => flock' = u
    BY <2>1, <2>2 DEF Backed, Closed
  <2>4. \A u \in Threads : outer'[u] > 0 =>
           ProcOf[u] \in alive' /\ ProcOf[u] \in fds'[u] /\ outer'[u] <= depth'[u]
    BY <2>1 DEF Backed
  <2>5. \A u \in Threads : pc'[u] = "flock" => ProcOf[u] \in fds'[u]
    BY <2>1 DEF Backed
  <2>6. \A u \in Threads : pc'[u] \in {"resetting", "mutex", "flock"} => depth'[u] < MaxDepth
    BY <2>1 DEF Backed
  <2>7. \A u, o \in Threads : o \in past'[u] => ProcOf[o] # ProcOf[u]
    BY <2>1 DEF Backed
  <2>8. QED
    BY <2>3, <2>4, <2>5, <2>6, <2>7 DEF Backed
<1>4. QED
  BY <1>1, <1>2, <1>3

LEMMA NextLockInv == LockInv /\ [Next]_vars => LockInv'
<1>1. LockInv /\ Next => LockInv'
  BY EnteringTyped, LeavingTyped, ProcessesTyped, EnteringBacked, LeavingBacked, ProcessesBacked
     DEF Next, LockInv
<1>2. LockInv /\ UNCHANGED vars => LockInv'
  BY DEF LockInv, TypeOK, Backed, vars
<1>3. QED
  BY <1>1, <1>2

LEMMA LockInvariance == Spec => []LockInv
BY InitLockInv, NextLockInv, PTL DEF Spec

\* The lock's files, levels and flags keep their types in every behaviour.
THEOREM DesktopTyped == Spec => []TypeOK
<1>1. LockInv => TypeOK
  BY DEF LockInv
<1>2. QED
  BY <1>1, LockInvariance, PTL

\* Whatever is forked, killed or nested, and however many threads a child has,
\* no two threads are inside levels that rest on the flock.
THEOREM OneFlock == Spec => []OneHolder
<1>1. LockInv => OneHolder
  BY DEF LockInv, Backed, OneHolder
<1>2. QED
  BY <1>1, LockInvariance, PTL

-----------------------------------------------------------------------------
(* Every level of a lone thread stands on one that has the flock.          *)

LEMMA InitGrounded == Init => Grounded
BY Facts DEF Init, Grounded, Stands, Lone

LEMMA EnteringGrounded ==
    ASSUME LockInv, Grounded, NEW t \in Threads,
           \/ Notices(t) \/ Replaces(t) \/ Calls(t) \/ CallsHalfway(t)
           \/ Acquires(t) \/ Locks(t) \/ Refused(t)
    PROVE  Grounded'
<1> USE DEF LockInv
<1>0. /\ \A u \in Threads : depth[u] \in Nat /\ outer[u] \in Nat /\ ProcOf[u] \in Processes
      /\ \A u \in Lone : u \in Threads
  BY Facts DEF TypeOK, Lone
<1>1. CASE Notices(t)
  <2>1. \A u \in Lone : ProcOf[u] = ProcOf[t] => u = t
    BY <1>0, <1>1 DEF Notices, Grounded, Lone
  <2>2. QED
    BY <1>0, <1>1, <2>1 DEF TypeOK, Grounded, Stands, Notices, Goes, code, lock, At
<1>2. CASE Replaces(t)
  <2>1. t \in Lone => depth[t] = 0 /\ stage[ProcOf[t]] = "halfway"
    BY <1>2 DEF Replaces, Grounded, Stands, At
  <2>2. \A u \in Lone : ProcOf[u] = ProcOf[t] => u = t
    BY <1>0, <2>1 DEF Grounded, Lone
  <2>3. QED
    BY <1>0, <1>2, <2>1, <2>2
    DEF TypeOK, Grounded, Stands, Replaces, Goes, code, lock, At
<1>3. CASE Calls(t)
  BY <1>0, <1>3 DEF TypeOK, Grounded, Stands, Calls, Goes, code, lock, At
<1>4. CASE CallsHalfway(t)
  <2>1. t \notin Lone
    BY <1>4 DEF Grounded, Stands, CallsHalfway, At
  <2>2. /\ UNCHANGED <<stage, outer, held, alive>>
        /\ \A u \in Threads : u # t => pc'[u] = pc[u] /\ depth'[u] = depth[u]
    BY <1>4 DEF TypeOK, CallsHalfway, Goes, code
  <2>3. QED
    BY <1>0, <2>1, <2>2 DEF Grounded, Stands
<1>5. CASE Acquires(t)
  BY <1>0, <1>5 DEF TypeOK, Grounded, Stands, Acquires, Goes, code, At
<1>6. CASE Locks(t)
  <2>1. t \in Lone => depth[t] = 0 /\ ProcOf[t] \in alive /\ stage[ProcOf[t]] = "own"
    BY <1>6 DEF Locks, At, Grounded, Stands
  <2>2. QED
    BY <1>0, <1>6, <2>1 DEF TypeOK, Grounded, Stands, Locks, Goes, code
<1>7. CASE Refused(t)
  BY <1>0, <1>7 DEF TypeOK, Grounded, Stands, Refused, Goes, code, At
<1>8. QED
  BY <1>1, <1>2, <1>3, <1>4, <1>5, <1>6, <1>7

LEMMA LeavingGrounded ==
    ASSUME LockInv, Grounded, NEW t \in Threads, Leaves(t) \/ Releases(t) \/ Unwinds(t)
    PROVE  Grounded'
<1> USE DEF LockInv
<1>0. /\ \A u \in Threads : depth[u] \in Nat /\ outer[u] \in Nat /\ ProcOf[u] \in Processes
      /\ \A u \in Lone : u \in Threads
  BY Facts DEF TypeOK, Lone
<1>1. CASE Leaves(t) /\ outer[t] = depth[t]
  <2>1. t \in Lone => depth[t] = 1
    BY <1>0, <1>1 DEF Leaves, Grounded, Stands
  <2>2. /\ outer' = [outer EXCEPT ![t] = 0] /\ held' = [held EXCEPT ![t] = FALSE]
        /\ pc' = [pc EXCEPT ![t] = "release"] /\ depth' = [depth EXCEPT ![t] = @ - 1]
        /\ UNCHANGED <<stage, code>> /\ ProcOf[t] \in alive
    BY <1>1 DEF Leaves, Goes, At
  <2>3. QED
    BY <1>0, <2>1, <2>2 DEF TypeOK, Grounded, Stands, code
<1>2. CASE Leaves(t) /\ outer[t] # depth[t]
  <2>1. /\ UNCHANGED <<pc, outer, held, stage, code>> /\ depth' = [depth EXCEPT ![t] = @ - 1]
        /\ t \in Lone => depth[t] > 1
    BY <1>0, <1>2 DEF Leaves, Grounded, Stands
  <2>2. QED
    BY <1>0, <2>1 DEF TypeOK, Grounded, Stands, code
<1>3. CASE Releases(t)
  BY <1>0, <1>3 DEF TypeOK, Grounded, Stands, Releases, Goes, code, lock, At
<1>4. CASE Unwinds(t)
  BY <1>4 DEF Grounded, Stands, Unwinds
<1>5. QED
  BY <1>1, <1>2, <1>3, <1>4

LEMMA ProcessesGrounded ==
    ASSUME LockInv, Grounded,
           \/ \E t, c \in Threads : Fork(t, c)
           \/ \E p \in Processes : Starts(p) \/ Ends(p)
    PROVE  Grounded'
<1> USE DEF LockInv
<1>0. /\ \A u \in Threads : depth[u] \in Nat /\ outer[u] \in Nat /\ ProcOf[u] \in Processes
      /\ \A u \in Lone : u \in Threads
  BY Facts DEF TypeOK, Lone
<1>1. ASSUME NEW t \in Threads, NEW c \in Threads, Fork(t, c)
      PROVE  Grounded'
  <2>1. /\ ProcOf[c] \notin alive /\ ProcOf[c] \in Forked
        /\ alive' = alive \cup {ProcOf[c]}
        /\ stage' = [stage EXCEPT ![ProcOf[c]] = "inherited"]
        /\ UNCHANGED <<pc, depth, outer, held>>
    BY <1>1 DEF Fork, Gone
  <2>2. QED
    BY <1>0, <2>1 DEF TypeOK, Grounded, Stands
<1>2. ASSUME NEW p \in Processes, Starts(p)
      PROVE  Grounded'
  BY <1>0, <1>2 DEF Grounded, Stands, Starts
<1>3. ASSUME NEW p \in Processes, Ends(p)
      PROVE  Grounded'
  <2>1. /\ alive' = alive \ {p}
        /\ stage' = [stage EXCEPT ![p] = "own"]
        /\ \A u \in Threads :
              /\ pc'[u] = IF ProcOf[u] = p THEN "user" ELSE pc[u]
              /\ depth'[u] = IF ProcOf[u] = p THEN 0 ELSE depth[u]
              /\ outer'[u] = IF ProcOf[u] = p THEN 0 ELSE outer[u]
              /\ held'[u] = IF ProcOf[u] = p THEN FALSE ELSE held[u]
    BY <1>3 DEF Ends
  <2>2. ASSUME NEW u \in Threads, ProcOf[u] = p
        PROVE  pc'[u] = "user" /\ depth'[u] = 0 /\ ~held'[u] /\ stage'[ProcOf[u]] = "own"
    BY <1>0, <2>1, <2>2 DEF TypeOK
  <2>3. ASSUME NEW u \in Threads, ProcOf[u] # p
        PROVE  /\ pc'[u] = pc[u] /\ depth'[u] = depth[u] /\ outer'[u] = outer[u]
               /\ held'[u] = held[u] /\ stage'[ProcOf[u]] = stage[ProcOf[u]]
               /\ ProcOf[u] \in alive' <=> ProcOf[u] \in alive
    BY <1>0, <2>1, <2>3 DEF TypeOK
  <2>4. \A q \in Processes : stage'[q] # "own" => q \in Forked /\ q \in alive'
    BY <2>1 DEF TypeOK, Grounded, Stands
  <2>5. ASSUME NEW u \in Lone
        PROVE  Stands(u)'
    <3>1. CASE ProcOf[u] = p
      BY <1>0, <2>2, <3>1 DEF Stands
    <3>2. CASE ProcOf[u] # p
      BY <1>0, <2>3, <3>2 DEF Grounded, Stands
    <3>3. QED
      BY <3>1, <3>2
  <2>6. QED
    BY <2>4, <2>5 DEF Grounded, Lone
<1>4. QED
  BY <1>1, <1>2, <1>3

LEMMA NextGrounded == LockInv /\ Grounded /\ [Next]_vars => Grounded'
<1>1. LockInv /\ Grounded /\ Next => Grounded'
  BY EnteringGrounded, LeavingGrounded, ProcessesGrounded DEF Next
<1>2. Grounded /\ UNCHANGED vars => Grounded'
  BY DEF Grounded, Stands, vars, code
<1>3. QED
  BY <1>1, <1>2

LEMMA GroundedAlways == Spec => []Grounded
<1>1. LockInv /\ Grounded /\ [Next]_vars => Grounded'
  BY NextGrounded
<1>2. QED
  BY <1>1, InitGrounded, LockInvariance, PTL DEF Spec

\* A lone thread that has entered a level, a nested one included, is the only lone
\* thread inside, in whatever process.
THEOREM AloneInside == Spec => []Alone
<1>1. Grounded /\ OneHolder => Alone
  BY DEF Grounded, Stands, OneHolder, Alone, Lone
<1>2. QED
  BY <1>1, GroundedAlways, OneFlock, PTL

\* A nested level of a lone thread never waits for the flock its thread has.
THEOREM ReentersHolds == Spec => []Reenters
<1>1. LockInv /\ Grounded => Reenters
  BY DEF Grounded, Stands, Reenters, LockInv, TypeOK
<1>2. QED
  BY <1>1, GroundedAlways, LockInvariance, PTL
=============================================================================
