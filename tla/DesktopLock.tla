----------------------------- MODULE DesktopLock -----------------------------
(***************************************************************************)
(* hancom_desktop_lock of office/rendering/mac_session.py: one user's      *)
(* processes and their threads share one desktop.  A thread enters levels  *)
(* of the context manager, the first of which opens the lock file and      *)
(* takes its flock under a mutex of the process; a process may be forked   *)
(* anywhere in its caller's code, and then the child shares the parent's   *)
(* open file and unwinds the parent's levels.                              *)
(*                                                                         *)
(* An open file is named by the thread that opened it.  Windows, where the *)
(* lock is a no-op, is left out.                                           *)
(***************************************************************************)
EXTENDS Naturals

CONSTANTS
    Processes,  \* processes of one user
    Threads,    \* their threads
    ProcOf,     \* the process of each thread
    Forked,     \* the processes that come to be by fork
    MaxDepth,   \* bound on nesting
    Free        \* nobody has the flock

ASSUME DesktopAssumption ==
    /\ ProcOf \in [Threads -> Processes]
    /\ Forked \subseteq Processes
    /\ MaxDepth \in Nat
    /\ Free \notin Threads

VARIABLES
    alive,      \* the processes that run
    stage,      \* whose _DESKTOP_THREADS and _DESKTOP_LOCAL a process has
    pc,         \* where each thread is in the context manager, "user" outside its code
    depth,      \* the levels it has entered itself
    outer,      \* the one of them that took the flock, 0 if none did
    held,       \* held of its process's own _DESKTOP_LOCAL
    copied,     \* held of the _DESKTOP_LOCAL it was forked with
    past,       \* the open files of levels its process was forked in
    flock,      \* the open file that has the flock
    fds         \* the processes that have a descriptor of each open file

vars == <<alive, stage, pc, depth, outer, held, copied, past, flock, fds>>
code == <<alive, copied, past>>
lock == <<flock, fds>>

TypeOK ==
    /\ alive \subseteq Processes
    /\ stage \in [Processes -> {"own", "inherited", "halfway"}]
    /\ pc \in [Threads -> {"user", "resetting", "mutex", "flock", "release"}]
    /\ depth \in [Threads -> 0 .. MaxDepth]
    /\ outer \in [Threads -> 0 .. MaxDepth]
    /\ held \in [Threads -> BOOLEAN]
    /\ copied \in [Threads -> BOOLEAN]
    /\ past \in [Threads -> SUBSET Threads]
    /\ flock \in Threads \cup {Free}
    /\ fds \in [Threads -> SUBSET Processes]

Init ==
    /\ alive = Processes \ Forked
    /\ stage = [p \in Processes |-> "own"]
    /\ pc = [t \in Threads |-> "user"]
    /\ depth = [t \in Threads |-> 0]
    /\ outer = [t \in Threads |-> 0]
    /\ held = [t \in Threads |-> FALSE]
    /\ copied = [t \in Threads |-> FALSE]
    /\ past = [t \in Threads |-> {}]
    /\ flock = Free
    /\ fds = [t \in Threads |-> {}]

At(t, s) == ProcOf[t] \in alive /\ pc[t] = s
Goes(t, s) == pc' = [pc EXCEPT ![t] = s]

\* The last descriptor of an open file takes its flock with it.
Closed(open) == IF flock # Free /\ open[flock] = {} THEN Free ELSE flock
\* A thread whose level has the flock can only wait with a second file, in vain.
Files(t, ps) == [fds EXCEPT ![t] = IF outer[t] > 0 THEN @ ELSE ps]
HasMutex(t) == depth[t] > 0 \/ pc[t] \in {"flock", "release"}
Blocked(t) == \E u \in Threads : u # t /\ ProcOf[u] = ProcOf[t] /\ HasMutex(u)

-----------------------------------------------------------------------------
(* Entering.                                                               *)

\* _desktop_thread_state in a child: the first call finds another process's pid
\* and stores its own before it replaces the mutex and the thread-local.
Notices(t) ==
    /\ At(t, "user") /\ depth[t] < MaxDepth
    /\ stage[ProcOf[t]] = "inherited"
    /\ stage' = [stage EXCEPT ![ProcOf[t]] = "halfway"]
    /\ Goes(t, "resetting")
    /\ UNCHANGED <<depth, outer, held, code, lock>>

Replaces(t) ==
    /\ At(t, "resetting")
    /\ stage' = [stage EXCEPT ![ProcOf[t]] = "own"]
    /\ held' = [u \in Threads |-> ProcOf[u] # ProcOf[t] /\ held[u]]
    /\ Goes(t, "mutex")
    /\ UNCHANGED <<depth, outer, code, lock>>

Calls(t) ==
    /\ At(t, "user") /\ depth[t] < MaxDepth
    /\ stage[ProcOf[t]] = "own"
    /\ Goes(t, "mutex")
    /\ UNCHANGED <<stage, depth, outer, held, code, lock>>

\* Between the two assignments another thread still gets what was inherited: a
\* copy of the thread that was inside goes straight in, and others may find the
\* inherited mutex free.
CallsHalfway(t) ==
    /\ At(t, "user") /\ depth[t] < MaxDepth
    /\ stage[ProcOf[t]] = "halfway"
    /\ IF copied[t] \/ held[t]
       THEN depth' = [depth EXCEPT ![t] = @ + 1] /\ UNCHANGED <<pc, fds>>
       ELSE /\ Goes(t, "flock")
            /\ fds' = Files(t, {ProcOf[t]})
            /\ UNCHANGED depth
    /\ UNCHANGED <<stage, outer, held, code, flock>>

\* The mutex is the thread's: a nested level is entered, a first one opens the file.
Acquires(t) ==
    /\ At(t, "mutex") /\ ~Blocked(t)
    /\ IF held[t]
       THEN Goes(t, "user") /\ depth' = [depth EXCEPT ![t] = @ + 1] /\ UNCHANGED fds
       ELSE Goes(t, "flock") /\ fds' = Files(t, {ProcOf[t]}) /\ UNCHANGED depth
    /\ UNCHANGED <<stage, outer, held, code, flock>>

\* flock(LOCK_EX | LOCK_NB) succeeds.
Locks(t) ==
    /\ At(t, "flock") /\ flock = Free
    /\ flock' = t
    /\ held' = [held EXCEPT ![t] = TRUE]
    /\ depth' = [depth EXCEPT ![t] = @ + 1]
    /\ outer' = [outer EXCEPT ![t] = depth[t] + 1]
    /\ Goes(t, "user")
    /\ UNCHANGED <<stage, code, fds>>

\* HancomBusy: the deadline passes before the mutex or the flock is free.
Refused(t) ==
    /\ \/ At(t, "mutex") /\ Blocked(t) /\ UNCHANGED fds
       \/ At(t, "flock") /\ flock # Free /\ fds' = Files(t, {})
    /\ Goes(t, "user")
    /\ UNCHANGED <<stage, depth, outer, held, code, flock>>

-----------------------------------------------------------------------------
(* Leaving.                                                                *)

\* Bug: every level forgets that the desktop is held.
LeavesForgetting(t) ==
    /\ At(t, "user") /\ depth[t] > 0
    /\ depth' = [depth EXCEPT ![t] = @ - 1]
    /\ held' = [held EXCEPT ![t] = FALSE]
    /\ IF outer[t] = depth[t]
       THEN /\ Goes(t, "release")
            /\ outer' = [outer EXCEPT ![t] = 0]
            /\ flock' = Free
            /\ fds' = [fds EXCEPT ![t] = {}]
       ELSE UNCHANGED <<pc, outer, lock>>
    /\ UNCHANGED <<stage, code>>

\* A level that took the flock gives it back, then its mutex; a nested one has
\* only counted the mutex.
Leaves(t) ==
    /\ At(t, "user") /\ depth[t] > 0
    /\ depth' = [depth EXCEPT ![t] = @ - 1]
    /\ IF outer[t] = depth[t]
       THEN /\ Goes(t, "release")
            /\ outer' = [outer EXCEPT ![t] = 0]
            /\ held' = [held EXCEPT ![t] = FALSE]
            /\ flock' = Free
            /\ fds' = [fds EXCEPT ![t] = {}]
       ELSE UNCHANGED <<pc, outer, held, lock>>
    /\ UNCHANGED <<stage, code>>

Releases(t) ==
    /\ At(t, "release")
    /\ Goes(t, "user")
    /\ UNCHANGED <<stage, depth, outer, held, code, lock>>

\* Bug: the child unlocks whatever file it unwinds.
UnwindsUnlocking(t) ==
    /\ At(t, "user") /\ depth[t] = 0
    /\ \E o \in past[t] :
          /\ past' = [past EXCEPT ![t] = @ \ {o}]
          /\ fds' = [fds EXCEPT ![o] = @ \ {ProcOf[t]}]
          /\ flock' = IF ProcOf[t] \in fds[o] /\ flock = o THEN Free ELSE Closed(fds')
    /\ UNCHANGED <<alive, stage, pc, depth, outer, held, copied>>

\* A child leaves a level it was forked in: its pid is not owner_pid, so it only
\* closes its descriptor.
Unwinds(t) ==
    /\ At(t, "user") /\ depth[t] = 0
    /\ \E o \in past[t] :
          /\ past' = [past EXCEPT ![t] = @ \ {o}]
          /\ fds' = [fds EXCEPT ![o] = @ \ {ProcOf[t]}]
          /\ flock' = Closed(fds')
    /\ UNCHANGED <<alive, stage, pc, depth, outer, held, copied>>

-----------------------------------------------------------------------------
(* Processes.                                                              *)

\* The name of a process is free again when nothing is left of what it opened.
Gone(p) ==
    /\ p \notin alive
    /\ \A t \in Threads : ProcOf[t] = p => fds[t] = {} /\ \A u \in Threads : t \notin past[u]

\* The copy c of thread t is the only thread the child starts with.
Fork(t, c) ==
    LET p == ProcOf[t]
        q == ProcOf[c]
    IN  /\ At(t, "user")
        /\ q \in Forked /\ Gone(q)
        /\ alive' = alive \cup {q}
        /\ stage' = [stage EXCEPT ![q] = "inherited"]
        /\ copied' = [copied EXCEPT ![c] = held[t] \/ (stage[p] # "own" /\ copied[t])]
        /\ past' = [past EXCEPT ![c] = past[t] \cup (IF outer[t] > 0 THEN {t} ELSE {})]
        /\ fds' = [o \in Threads |-> fds[o] \cup (IF p \in fds[o] THEN {q} ELSE {})]
        /\ UNCHANGED <<pc, depth, outer, held, flock>>

Starts(p) ==
    /\ p \notin Forked /\ Gone(p)
    /\ alive' = alive \cup {p}
    /\ UNCHANGED <<stage, pc, depth, outer, held, copied, past, lock>>

\* A process ends or is killed anywhere, and its descriptors are closed.
Ends(p) ==
    LET Reset(f, v) == [t \in Threads |-> IF ProcOf[t] = p THEN v ELSE f[t]] IN
    /\ p \in alive
    /\ alive' = alive \ {p}
    /\ stage' = [stage EXCEPT ![p] = "own"]
    /\ pc' = Reset(pc, "user")
    /\ depth' = Reset(depth, 0)
    /\ outer' = Reset(outer, 0)
    /\ held' = Reset(held, FALSE)
    /\ copied' = Reset(copied, FALSE)
    /\ past' = Reset(past, {})
    /\ fds' = [t \in Threads |-> fds[t] \ {p}]
    /\ flock' = Closed(fds')

Next ==
    \/ \E t \in Threads :
          \/ Notices(t) \/ Replaces(t) \/ Calls(t) \/ CallsHalfway(t)
          \/ Acquires(t) \/ Locks(t) \/ Refused(t)
          \/ Leaves(t) \/ Releases(t) \/ Unwinds(t)
    \/ \E t, c \in Threads : Fork(t, c)
    \/ \E p \in Processes : Starts(p) \/ Ends(p)

Spec == Init /\ [][Next]_vars

-----------------------------------------------------------------------------
(* Properties.                                                             *)

\* A child with two threads that use the lock may lose it: _desktop_thread_state
\* is not atomic, and the second thread finds the pid reset and the parent's
\* thread-local not yet, so that it enters on a held that is its parent's
\* (mac_session.py:40-43).  Lone are the threads this does not happen to.
Lone == {t \in Threads :
            ProcOf[t] \in Forked => \A u \in Threads : ProcOf[u] = ProcOf[t] => u = t}

\* No two of them, of one process or of two, are at once inside levels they
\* entered themselves, though children share the open file, unwind levels that
\* are not theirs and enter again, though processes are killed inside, and
\* whatever the children with more threads do.
Alone == \A t, u \in Lone : depth[t] > 0 /\ depth[u] > 0 => t = u

\* One of them that is inside and enters again never comes to wait for the flock
\* it has: it would wait for itself and be refused.
Reenters == \A t \in Lone : depth[t] > 0 => pc[t] # "flock"

\* However many threads a child has, no two threads are at once inside levels
\* that rest on the flock: what slips in has found a held that was not its own.
OneHolder == \A t, u \in Threads : outer[t] > 0 /\ outer[u] > 0 => t = u
=============================================================================
