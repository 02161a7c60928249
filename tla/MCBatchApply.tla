----------------------------- MODULE MCBatchApply -----------------------------
(* Two calls under one key, equal or not, and one external file.               *)
EXTENDS BatchApply

CONSTANTS r1, f1
=============================================================================
