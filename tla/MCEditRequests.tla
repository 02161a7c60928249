---------------------------- MODULE MCEditRequests ----------------------------
(* Two clients, alone or under one key, a cache of one answer and one external *)
(* edit.                                                                       *)
EXTENDS EditRequests

CONSTANTS c1, c2, k1, k2, e1
=============================================================================
