----------------------------- MODULE AdminQueue -----------------------------
(***************************************************************************)
(* What an administrator does to jobs and episodes while JobQueue runs:    *)
(* the /admin/jobs and /admin/episodes endpoints of main.py and the undo   *)
(* of /admin/audit.  The handlers interleave with JobQueue's, statement by *)
(* statement, through the same set of suspended calls.                     *)
(***************************************************************************)
EXTENDS JobQueue

CONSTANTS
    AdminOps,     \* the operations the administrator uses in this instance
    MaxAudit      \* bound: audit rows that can be undone

VARIABLE audit    \* admin_audit rows with an undo and undone_at IS NULL

adminVars == <<vars, audit>>

Snapshot(e) == [status |-> status[e], blacklisted |-> blacklisted[e]]

Record(a) == IF "undo" \in AdminOps
             THEN Cardinality(audit) < MaxAudit /\ audit' = audit \cup {a}
             ELSE UNCHANGED audit

-----------------------------------------------------------------------------
(* Handlers that first read the episode, then cancel its live job.         *)

\* What each of them requires of the episode it read.
MayStart(op, e) ==
    CASE op = "retry"        -> status[e] \in {"failed", "downloading"}
      [] op = "retranscribe" -> Exists(e) /\ status[e] # "downloading"
      [] OTHER               -> Exists(e)

StartEpisodeOp(op, e) ==
    /\ op \in AdminOps \cap {"retry", "retranscribe", "blacklist", "delete"}
    /\ MayStart(op, e)
    /\ Begin([at |-> "cancel", op |-> op, ep |-> e, was |-> Snapshot(e)])
    /\ UNCHANGED <<jobVars, epVars, workerVars, audit>>

\* cancel_process_job
CancelLiveJob(c) ==
    /\ c.at = "cancel"
    /\ SetJobs(LiveJobs(c.ep), "failed")
    /\ Continue(c, [c EXCEPT !.at = c.op])
    /\ UNCHANGED <<epVars, workerVars, audit>>

\* retry_episode and retranscribe_episode put the episode back ...
ResetEpisode(c) ==
    /\ c.at \in {"retry", "retranscribe"}
    /\ SetStatus(c.ep, "discovered")
    /\ Continue(c, [at |-> IF c.at = "retry" THEN "queue" ELSE "clear", ep |-> c.ep])
    /\ UNCHANGED <<jobVars, blacklisted, transcript, workerVars, audit>>

\* ... the latter deletes its chunks ...
ClearChunks(c) ==
    /\ c.at = "clear"
    /\ transcript' = [transcript EXCEPT ![c.ep] = "none"]
    /\ Continue(c, [at |-> "queue", ep |-> c.ep])
    /\ UNCHANGED <<jobVars, status, blacklisted, workerVars, audit>>

\* ... and both force-queue it, if it is still eligible.
QueueEpisode(c) ==
    /\ c.at = "queue"
    /\ IF Eligible(c.ep)
       THEN Continue(c, [at |-> "insert", by |-> "admin", rows |-> {c.ep}])
       ELSE Return(c)
    /\ UNCHANGED <<jobVars, epVars, workerVars, audit>>

\* process_episode, process_all_discovered and the bulk action.
QueueNow(S) ==
    /\ "process" \in AdminOps
    /\ S # {} /\ \A e \in S : Eligible(e)
    /\ Begin([at |-> "insert", by |-> "admin", rows |-> S])
    /\ UNCHANGED <<jobVars, epVars, workerVars, audit>>

FlagBlacklisted(c) ==
    /\ c.at = "blacklist"
    /\ SetStatus(c.ep, IF status[c.ep] = "downloading" THEN "blacklisted" ELSE status[c.ep])
    /\ blacklisted' = [blacklisted EXCEPT ![c.ep] = @ \/ Exists(c.ep)]
    /\ IF Exists(c.ep)
       THEN Record([undo |-> "flag", ep |-> c.ep, was |-> c.was])
       ELSE UNCHANGED audit
    /\ Return(c)
    /\ UNCHANGED <<jobVars, transcript, workerVars>>

\* Mutant of DeleteEpisode: the chunks are left behind.
DeleteMutant(c) ==
    /\ c.at = "delete"
    /\ Return(c)
    /\ SetStatus(c.ep, "gone")
    /\ UNCHANGED <<jobVars, blacklisted, transcript, workerVars, audit>>

\* The DELETE cascades to the chunks and nulls jobs.episode_id; the deletion of
\* the stored transcript before it may raise.
DeleteEpisode(c) ==
    /\ c.at = "delete"
    /\ Return(c)
    /\ \/ UNCHANGED epVars
       \/ /\ SetStatus(c.ep, "gone")
          /\ transcript' = [transcript EXCEPT ![c.ep] = "none"]
          /\ UNCHANGED blacklisted
    /\ UNCHANGED <<jobVars, workerVars, audit>>

StartUnblacklist(e) ==
    /\ "unblacklist" \in AdminOps
    /\ Exists(e)
    /\ Begin([at |-> "unflag", ep |-> e, was |-> Snapshot(e)])
    /\ UNCHANGED <<jobVars, epVars, workerVars, audit>>

\* Mutant of Unflag: it clears the flag and leaves the status.
UnflagMutant(c) ==
    /\ c.at = "unflag"
    /\ blacklisted' = [blacklisted EXCEPT ![c.ep] = @ /\ ~Exists(c.ep)]
    /\ Return(c)
    /\ UNCHANGED <<jobVars, status, transcript, workerVars, audit>>

Unflag(c) ==
    /\ c.at = "unflag"
    /\ SetStatus(c.ep, IF status[c.ep] = "blacklisted" THEN "discovered" ELSE status[c.ep])
    /\ blacklisted' = [blacklisted EXCEPT ![c.ep] = @ /\ ~Exists(c.ep)]
    /\ IF Exists(c.ep)
       THEN Record([undo |-> "flag", ep |-> c.ep, was |-> c.was])
       ELSE UNCHANGED audit
    /\ Return(c)
    /\ UNCHANGED <<jobVars, transcript, workerVars>>

-----------------------------------------------------------------------------
(* Handlers on one job.                                                    *)

\* admin_cancel_job: the job first, then a snapshot of its episode, then the
\* episode's release.
CancelJob(j) ==
    /\ "cancel" \in AdminOps
    /\ jobStatus[j] \in Live
    /\ SetJobs({j}, "failed")
    /\ Begin([at |-> "snapshot", job |-> j])
    /\ UNCHANGED <<epVars, workerVars, audit>>

SnapshotEpisode(c) ==
    /\ c.at = "snapshot"
    /\ Continue(c, [at |-> "release", job |-> c.job, was |-> Snapshot(target[c.job])])
    /\ UNCHANGED <<jobVars, epVars, workerVars, audit>>

ReleaseEpisode(c) ==
    /\ c.at = "release"
    /\ LET e == target[c.job]
       IN  status' = [status EXCEPT ![e] =
                        IF @ = "downloading" /\ ~blacklisted[e] THEN "discovered" ELSE @]
    /\ Record([undo |-> "cancel", job |-> c.job, was |-> c.was])
    /\ Return(c)
    /\ UNCHANGED <<jobVars, blacklisted, transcript, workerVars>>

\* admin_retry_job checks a finished job, then requeues whatever it has become.
StartRetryJob(j) ==
    /\ "requeue" \in AdminOps
    /\ jobStatus[j] \in Finished
    /\ ~(Exists(target[j]) /\ blacklisted[target[j]])
    /\ Begin([at |-> "requeue", job |-> j])
    /\ UNCHANGED <<jobVars, epVars, workerVars, audit>>

\* Mutant of Refused: no unique index.
RefusedMutant(j) == FALSE

\* UPDATE jobs SET status = 'pending' WHERE id = j: no row once j is purged, and
\* the unique index refuses it while the episode has another live job.
Refused(j) == jobStatus[j] # "purged" /\ ~(LiveJobs(target[j]) \subseteq {j})

Requeue(j) == SetJobs({j} \ {i \in Jobs : jobStatus[i] = "purged"}, "pending")

RequeueJob(c) ==
    /\ c.at = "requeue"
    /\ \/ Refused(c.job) /\ Return(c) /\ UNCHANGED jobVars
       \/ /\ ~Refused(c.job)
          /\ Requeue(c.job)
          /\ Continue(c, [at |-> "remark", job |-> c.job])
    /\ UNCHANGED <<epVars, workerVars, audit>>

RemarkEpisode(c) ==
    /\ c.at = "remark"
    /\ LET e == target[c.job]
       IN  SetStatus(e, IF blacklisted[e] THEN status[e] ELSE "downloading")
    /\ Return(c)
    /\ UNCHANGED <<jobVars, blacklisted, transcript, workerVars, audit>>

-----------------------------------------------------------------------------
(* Undo.                                                                   *)

\* The undo of blacklist and unblacklist writes the snapshot back.
UndoFlag(a) ==
    /\ "undo" \in AdminOps
    /\ a.undo = "flag"
    /\ SetStatus(a.ep, a.was.status)
    /\ blacklisted' = [blacklisted EXCEPT ![a.ep] =
                         IF Exists(a.ep) THEN a.was.blacklisted ELSE @]
    /\ audit' = audit \ {a}
    /\ UNCHANGED <<jobVars, transcript, workerVars, calls>>

\* The undo of a cancelled job makes it pending, whatever it has become ...
UndoCancel(a) ==
    /\ "undo" \in AdminOps
    /\ a.undo = "cancel"
    /\ ~Refused(a.job)
    /\ Requeue(a.job)
    /\ Begin([at |-> "restore", row |-> a])
    /\ UNCHANGED <<epVars, workerVars, audit>>

\* ... and writes the episode's snapshot back.
RestoreEpisode(c) ==
    /\ c.at = "restore"
    /\ SetStatus(target[c.row.job], c.row.was.status)
    /\ audit' = audit \ {c.row}
    /\ Return(c)
    /\ UNCHANGED <<jobVars, blacklisted, transcript, workerVars>>

-----------------------------------------------------------------------------

AdminInit == Init /\ audit = {}

AdminStep(c) ==
    \/ CancelLiveJob(c) \/ ResetEpisode(c) \/ ClearChunks(c) \/ QueueEpisode(c)
    \/ FlagBlacklisted(c) \/ DeleteEpisode(c) \/ Unflag(c)
    \/ SnapshotEpisode(c) \/ ReleaseEpisode(c) \/ RequeueJob(c) \/ RemarkEpisode(c)
    \/ RestoreEpisode(c)

AdminNext ==
    \/ Next /\ UNCHANGED audit
    \/ \E op \in AdminOps, e \in Episodes : StartEpisodeOp(op, e)
    \/ \E S \in SUBSET Episodes : QueueNow(S)
    \/ \E e \in Episodes : StartUnblacklist(e)
    \/ \E j \in Jobs : CancelJob(j) \/ StartRetryJob(j)
    \/ \E a \in audit : UndoFlag(a) \/ UndoCancel(a)
    \/ \E c \in calls : AdminStep(c)

AdminSpec == AdminInit /\ [][AdminNext]_adminVars

-----------------------------------------------------------------------------
(* Properties; OneLiveJobPerEpisode and AnsweredOncePerClaim are           *)
(* JobQueue's.  Its OneWorkerPerJob is not promised here: an administrator *)
(* takes jobs from workers that go on with them.                           *)

Snapshots == [status : EpisodeStatuses, blacklisted : BOOLEAN]
AuditRows == [undo : {"flag"}, ep : Episodes, was : Snapshots]
             \cup [undo : {"cancel"}, job : Jobs, was : Snapshots]
EpisodeOps == {"retry", "retranscribe", "blacklist", "delete"}
AdminCalls ==
    [at : {"cancel"} \cup EpisodeOps, op : EpisodeOps, ep : Episodes, was : Snapshots]
    \cup [at : {"clear", "queue"}, ep : Episodes]
    \cup [at : {"unflag"}, ep : Episodes, was : Snapshots]
    \cup [at : {"snapshot", "requeue", "remark"}, job : Jobs]
    \cup [at : {"release"}, job : Jobs, was : Snapshots]
    \cup [at : {"restore"}, row : AuditRows]

\* TypeOK with the administrator's calls and audit rows.
AdminTypeOK ==
    /\ RowsOK
    /\ calls \in SUBSET (Calls \cup AdminCalls)
    /\ audit \in SUBSET AuditRows

\* unblacklist_episode resets the status too: no history of blacklisting, its undo
\* and results leaves "blacklisted=false but status='blacklisted'", which no button
\* matches.
NoBlacklistLimbo == \A e \in Episodes : status[e] = "blacklisted" => blacklisted[e]

\* A deleted episode leaves no chunk behind, not even when a result of it is being
\* stored as it is deleted.
DeletedHasNoChunks == \A e \in Episodes : transcript[e] = "words" => Exists(e)

\* blacklist_episode cancels the job first, or "its eventual result flips status
\* to 'processed' behind the blacklist's back": nothing but an undo makes a
\* blacklisted episode processed.  It does not hold (README, "Statements that do
\* not hold").
NotProcessedBehindBlacklist ==
    [][\A e \in Episodes : blacklisted[e] /\ blacklisted'[e] /\ status[e] # "processed"
          => status'[e] # "processed"]_adminVars

=============================================================================
