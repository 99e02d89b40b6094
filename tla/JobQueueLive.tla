---------------------------- MODULE JobQueueLive ----------------------------
(***************************************************************************)
(* The process-job queue under the fairness that its scheduler justifies,  *)
(* and what must then happen in the end.                                   *)
(***************************************************************************)
EXTENDS JobQueue

CONSTANT MaxRestarts    \* bound: how often the conductor dies

VARIABLES
    restarts,   \* how often it died: tells a restart from a sweep that changes the same columns
    shut        \* _processing_paused is set, or the setting auto_download is off

liveVars == <<vars, restarts, shut>>

LiveInit == Init /\ restarts = 0 /\ shut \in BOOLEAN

(* dispatch_worker passes over a sweep while processing is paused, and      *)
(* sync_process_jobs creates nothing while auto_download is off.  Both are  *)
(* read just before the SELECT; a change in between has the effect of one   *)
(* right after it.                                                         *)
OpenDispatch == ~shut /\ Dispatch

(* An administrator pauses, resumes and sets auto_download, and five        *)
(* failures in a row pause without being asked: at any time, for as long   *)
(* as it may be.                                                           *)
Gate == shut' = ~shut /\ UNCHANGED <<vars, restarts>>

LiveNext ==
    \/ Run /\ (Dispatch => ~shut) /\ UNCHANGED <<restarts, shut>>
    \/ Restart /\ restarts < MaxRestarts /\ restarts' = restarts + 1 /\ UNCHANGED shut
    \/ Gate

(* A suspended handler goes on and the sweeps come round; the conductor does   *)
(* not crash for ever (MaxRestarts).  Strong fairness because the bound on     *)
(* calls, which the code does not have, disables a sweep now and then.  The    *)
(* dispatcher is only relied on where the gate is shut no more from some time  *)
(* on: nothing makes its sweeps meet the moments at which it is open.  A       *)
(* claim that stays unanswered is some day more than two hours old; the sweep  *)
(* for those asks for neither flag.  Nothing is asked of blurb.                *)
Fairness ==
    /\ \A point \in {"insert", "mark", "claim", "store", "settle", "recover"} :
         WF_vars(\E c \in calls : c.at = point /\ HandlerStep(c))
    /\ []<>shut \/ SF_vars(OpenDispatch)
    /\ SF_vars(\E S \in SUBSET Jobs : Reclaim(S))
    /\ \A j \in Jobs : SF_vars(\E S \in SUBSET Jobs : j \in S /\ Reclaim(S))

FairSpec == LiveInit /\ [][LiveNext]_liveVars /\ Fairness

-----------------------------------------------------------------------------

\* A job is never left claimed: dead, restarted or slow workers lose their claims.
ClaimsResolve ==
    \A j \in Jobs : jobStatus[j] = "claimed" ~> jobStatus[j] # "claimed"

\* An episode is never left downloading with no job to finish the download.
StuckRecovers == \A e \in Episodes : Stuck(e) ~> ~Stuck(e)

\* reclaim_stuck_jobs and recover_interrupted_downloads "reset any 'downloading' episode
\* left with no live job": blacklisted ones too.
DownloadsResolve ==
    LET Lost(e) == status[e] = "downloading" /\ LiveJobs(e) = {}
    IN  \A e \in Episodes : Lost(e) ~> ~Lost(e)

\* A discovered episode gets its job, unless processing is paused or auto_download is
\* off some time later, or the instance has no job ids left: an error in the middle of a
\* batch, a crash or a job that came to nothing only makes it wait for the next sweep.
DiscoveredIsQueued ==
    \A e \in Episodes :
        Eligible(e) ~> (~Eligible(e) \/ shut \/ \A j \in Jobs : jobStatus[j] # "absent")

=============================================================================
