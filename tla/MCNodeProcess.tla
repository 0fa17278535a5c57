--------------------------- MODULE MCNodeProcess ---------------------------
(* Up to three processes on one data directory. *)
EXTENDS NodeProcess

MCProcs == 1..3
=============================================================================
