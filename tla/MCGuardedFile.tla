----------------------------- MODULE MCGuardedFile -----------------------------
(* A publication and a removal of one file, and two external edits.          *)
EXTENDS GuardedFile, TLC

CONSTANTS p1, r1, e1, e2

\* One edit is like the other.
EditSymmetry == Permutations({e1, e2})
=============================================================================
