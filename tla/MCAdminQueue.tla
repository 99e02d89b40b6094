---------------------------- MODULE MCAdminQueue ----------------------------
(* Model-checking instances of AdminQueue.                                 *)
EXTENDS AdminQueue, TLC

Ids == Permutations(Episodes) \cup Permutations(Jobs) \cup Permutations(Workers)

=============================================================================
