--------------------------- MODULE MCRenderWorker ---------------------------
(* Small instances of the render daemons for TLC.                           *)
EXTENDS RenderWorker, TLC

CONSTANTS j1, j2, c1, w1, w2, id1

OneRequest == {[job |-> j1, content |-> c1]}
TwoRequests == {[job |-> j1, content |-> c1], [job |-> j2, content |-> c1]}
SameName == [w \in Workers |-> id1]
=============================================================================
