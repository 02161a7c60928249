------------------------------- MODULE MCBackups -------------------------------
(* Two calls on a document with a .bak and its generations .bak.1 and .bak.2. *)
EXTENDS Backups
=============================================================================
