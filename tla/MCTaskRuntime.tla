---------------------------- MODULE MCTaskRuntime ----------------------------
(***************************************************************************)
(* The task framework with two owners of a handle.  With the periodic loop *)
(* three clients compete for channels of capacity 1: one is served, one    *)
(* queued and one waits for room.                                          *)
(***************************************************************************)
EXTENDS TaskRuntime
=============================================================================
