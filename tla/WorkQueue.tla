------------------------------ MODULE WorkQueue ------------------------------
(***************************************************************************)
(* What the jobs table promises of process jobs, whichever handlers write  *)
(* to it and wherever they are suspended: an atomic queue of work, with at *)
(* most one job under way for each episode, a count of the claims that     *)
(* never starts over, and an answer for a claim at most.  JobQueue and     *)
(* AdminQueue implement it.                                                *)
(***************************************************************************)
EXTENDS Naturals

CONSTANTS Jobs, Episodes, NoEpisode

VARIABLES
    state,      \* jobs.status, "absent" before and "purged" after the row
    episode,    \* jobs.episode_id, NoEpisode for NULL or without a row
    taken,      \* jobs.attempts
    answered    \* how many results have been accepted for it

queueVars == <<state, episode, taken, answered>>

UnderWay(e) == {j \in Jobs : state[j] \in {"pending", "claimed"} /\ episode[j] = e}

QueueInit ==
    /\ state = [j \in Jobs |-> "absent"]
    /\ episode = [j \in Jobs |-> NoEpisode]
    /\ taken = [j \in Jobs |-> 0]
    /\ answered = [j \in Jobs |-> 0]

\* Only an episode without a job under way gets a job.
Submit(j, e) ==
    /\ state[j] = "absent" /\ UnderWay(e) = {}
    /\ state' = [state EXCEPT ![j] = "pending"]
    /\ episode' = [episode EXCEPT ![j] = e]
    /\ UNCHANGED <<taken, answered>>

Take(j) ==
    /\ state[j] = "pending"
    /\ state' = [state EXCEPT ![j] = "claimed"]
    /\ taken' = [taken EXCEPT ![j] = @ + 1]
    /\ UNCHANGED <<episode, answered>>

\* A result ends the claim it is accepted for.
Accept(j) ==
    /\ state[j] = "claimed"
    /\ \E s \in {"completed", "failed"} : state' = [state EXCEPT ![j] = s]
    /\ answered' = [answered EXCEPT ![j] = @ + 1]
    /\ UNCHANGED <<episode, taken>>

Move(S, from, to) ==
    /\ \A j \in S : state[j] \in from
    /\ state' = [j \in Jobs |-> IF j \in S THEN to ELSE state[j]]
    /\ UNCHANGED <<taken, answered>>

GiveBack(S) == Move(S, {"claimed"}, "pending") /\ UNCHANGED episode

Withdraw(S) == Move(S, {"pending", "claimed"}, "failed") /\ UNCHANGED episode

\* A job goes back on the queue from wherever it is, unless another has taken
\* its place.
Revive(j) ==
    /\ episode[j] \in Episodes => UnderWay(episode[j]) \subseteq {j}
    /\ Move({j}, {"pending", "claimed", "completed", "failed"}, "pending")
    /\ UNCHANGED episode

Discard(S) ==
    /\ Move(S, {"completed", "failed"}, "purged")
    /\ episode' = [j \in Jobs |-> IF j \in S THEN NoEpisode ELSE episode[j]]

\* The jobs of a deleted episode stay, and are nobody's.
Forget(e) ==
    /\ episode' = [j \in Jobs |-> IF episode[j] = e THEN NoEpisode ELSE episode[j]]
    /\ UNCHANGED <<state, taken, answered>>

QueueNext ==
    \/ \E j \in Jobs, e \in Episodes : Submit(j, e)
    \/ \E j \in Jobs : Take(j) \/ Accept(j) \/ Revive(j)
    \/ \E S \in SUBSET Jobs : GiveBack(S) \/ Withdraw(S) \/ Discard(S)
    \/ \E e \in Episodes : Forget(e)

QueueSpec == QueueInit /\ [][QueueNext]_queueVars

-----------------------------------------------------------------------------
(* What a queue with these steps guarantees.                                *)

QueueTypeOK ==
    /\ state \in [Jobs -> {"absent", "pending", "claimed", "completed", "failed", "purged"}]
    /\ episode \in [Jobs -> Episodes \cup {NoEpisode}]
    /\ taken \in [Jobs -> Nat] /\ answered \in [Jobs -> Nat]

\* No two jobs are under way for one episode.
OneUnderWay == \A e \in Episodes : \A i, j \in UnderWay(e) : i = j

\* There are no more answers than claims, and none yet for the claim that is open.
AnswersAreTaken == \A j \in Jobs :
    answered[j] + (IF state[j] = "claimed" THEN 1 ELSE 0) <= taken[j]
=============================================================================
