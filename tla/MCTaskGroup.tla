----------------------------- MODULE MCTaskGroup -----------------------------
(* Three spawns in a group of two, stopped by another thread.                 *)
EXTENDS TaskGroup
=============================================================================
