---------------------------- MODULE MCDesktopLock ----------------------------
(* A small instance of the desktop lock: a process with two threads, a child *)
(* with one thread and a child with two, forked from it or from each other.  *)
EXTENDS DesktopLock, TLC

CONSTANTS m1, m2, m3, a1, a2, b1, c1, c2

MCProcOf == (a1 :> m1) @@ (a2 :> m1) @@ (b1 :> m2) @@ (c1 :> m3) @@ (c2 :> m3)

\* Threads of one process are alike.
ThreadSymmetry == {f @@ g : f \in Permutations({a1, a2}), g \in Permutations({c1, c2})}
=============================================================================
