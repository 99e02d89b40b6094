----------------------------- MODULE MCJobQueue -----------------------------
(* Model-checking instances of JobQueue.                                   *)
EXTENDS JobQueue, TLC

Ids == Permutations(Episodes) \cup Permutations(Jobs) \cup Permutations(Workers)

=============================================================================
