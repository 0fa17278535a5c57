-------------------------- MODULE MCLeaderElection --------------------------
(* The leader election with pods that are interchangeable. *)
EXTENDS LeaderElection, TLC

LeaderTasks == <<"batch", "block", "proof">>
Producers == <<"batch", "block">>
OneTask == <<"block">>

Symmetry == Permutations(Pods)
=============================================================================
