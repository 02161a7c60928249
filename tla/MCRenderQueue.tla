---------------------------- MODULE MCRenderQueue ----------------------------
(* A small instance of the render queue: two jobs over one shared document, *)
(* and one worker process, whose lease may run out under it.                *)
EXTENDS RenderQueue, TLC

CONSTANTS j1, j2, c1, w1, id1

MCSharedRequests == {[job |-> j1, content |-> c1], [job |-> j2, content |-> c1]}
MCName == [w \in Workers |-> id1]
=============================================================================
