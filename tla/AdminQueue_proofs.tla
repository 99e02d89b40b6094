--------------------------- MODULE AdminQueue_proofs ---------------------------
(***************************************************************************)
(* Theorems about AdminQueue, for any episodes, jobs, workers, operations  *)
(* of the administrator and bounds: what JobQueue promises by itself, and  *)
(* what deleting and blacklisting promise, between any two statements.     *)
(***************************************************************************)
EXTENDS AdminQueue, JobQueue_proofs

USE DEF Live, Finished

-----------------------------------------------------------------------------
(* What the administrator's handlers and the audit log carry.              *)

\* A snapshot of a live episode; a snapshot taken for a cancelled job, which may
\* show that the episode is gone already.
Shown(was) == was.status \notin {"absent", "gone"}
Remembers(j, was) ==
    /\ jobStatus[j] # "absent"
    /\ was.status # "absent"
    /\ was.status = "gone" => status[target[j]] = "gone"

RowKept(a) ==
    /\ a.undo = "flag" => Shown(a.was)
    /\ a.undo = "cancel" => Remembers(a.job, a.was)

CallKept(c) ==
    /\ c.at \in {"cancel", "unflag"} \cup EpisodeOps => Shown(c.was)
    /\ c.at \in {"snapshot", "requeue", "remark"} => jobStatus[c.job] # "absent"
    /\ c.at = "release" => Remembers(c.job, c.was)
    /\ c.at = "restore" => c.row.undo = "cancel" /\ RowKept(c.row)

RecordsKept == (\A c \in calls : CallKept(c)) /\ (\A a \in audit : RowKept(a))

\* Created jobs and rows are never uncreated, a job keeps its episode, and a deleted
\* episode does not come back.
Forward ==
    /\ \A j \in Jobs : jobStatus[j] # "absent" =>
          jobStatus'[j] # "absent" /\ target'[j] = target[j]
    /\ \A e \in Episodes : /\ status[e] = "gone" => status'[e] = "gone"
                           /\ status[e] # "absent" => status'[e] # "absent"

\* The administrator's handlers are not JobQueue's.
LEMMA AdminForeign == Foreign(AdminCalls)
BY DEF Foreign, AdminCalls, Statements, EpisodeOps

\* The data of each handler.
LEMMA AdminCallData ==
    ASSUME NEW c \in Calls \cup AdminCalls
    PROVE  /\ c.at \in {"cancel"} \cup EpisodeOps =>
                c.op \in EpisodeOps /\ c.ep \in Episodes /\ c.was \in Snapshots
           /\ c.at \in {"clear", "queue"} => c.ep \in Episodes
           /\ c.at = "unflag" => c.ep \in Episodes /\ c.was \in Snapshots
           /\ c.at \in {"snapshot", "requeue", "remark"} => c.job \in Jobs
           /\ c.at = "release" => c.job \in Jobs /\ c.was \in Snapshots
           /\ c.at = "restore" => c.row \in AuditRows
<1>1. CASE c \in Calls
  BY <1>1 DEF Calls, EpisodeOps
<1>2. CASE c \in AdminCalls
  <2>1. c.at \in {"cancel"} \cup EpisodeOps =>
            c \in [at : {"cancel"} \cup EpisodeOps, op : EpisodeOps, ep : Episodes, was : Snapshots]
    BY <1>2 DEF AdminCalls, EpisodeOps
  <2>2. c.at \in {"clear", "queue"} => c.ep \in Episodes
    BY <1>2 DEF AdminCalls, EpisodeOps
  <2>3. c.at = "unflag" => c.ep \in Episodes /\ c.was \in Snapshots
    BY <1>2 DEF AdminCalls, EpisodeOps
  <2>4. c.at \in {"snapshot", "requeue", "remark"} => c.job \in Jobs
    BY <1>2 DEF AdminCalls, EpisodeOps
  <2>5. c.at = "release" => c.job \in Jobs /\ c.was \in Snapshots
    BY <1>2 DEF AdminCalls, EpisodeOps
  <2>6. c.at = "restore" => c.row \in AuditRows
    BY <1>2 DEF AdminCalls, EpisodeOps
  <2> QED
    BY <2>1, <2>2, <2>3, <2>4, <2>5, <2>6
<1> QED
  BY <1>1, <1>2

\* A record is kept by every step that goes forward.
LEMMA KeptForward ==
    ASSUME RowsOK, Forward, calls \in SUBSET (Calls \cup AdminCalls), audit \in SUBSET AuditRows
    PROVE  /\ \A j \in Jobs : \A w : Remembers(j, w) => Remembers(j, w)'
           /\ \A a \in AuditRows : RowKept(a) => RowKept(a)'
           /\ \A c \in Calls \cup AdminCalls : CallKept(c) => CallKept(c)'
<1>1. ASSUME NEW j \in Jobs, NEW w, Remembers(j, w) PROVE Remembers(j, w)'
  BY <1>1 DEF Remembers, Forward, RowsOK
<1>2. ASSUME NEW a \in AuditRows, RowKept(a) PROVE RowKept(a)'
  <2>1. a.undo = "cancel" => a.job \in Jobs
    BY DEF AuditRows
  <2> QED
    BY <1>1, <1>2, <2>1 DEF RowKept, Shown
<1>3. ASSUME NEW c \in Calls \cup AdminCalls, CallKept(c) PROVE CallKept(c)'
  <2>1. c.at \in {"snapshot", "requeue", "remark"} => jobStatus'[c.job] # "absent"
    BY <1>3, AdminCallData DEF CallKept, Forward
  <2>2. c.at = "release" => Remembers(c.job, c.was)'
    BY <1>1, <1>3, AdminCallData DEF CallKept
  <2>3. c.at = "restore" => RowKept(c.row)'
    BY <1>2, <1>3, AdminCallData DEF CallKept
  <2> QED
    BY <1>3, <2>1, <2>2, <2>3 DEF CallKept, Shown
<1> QED
  BY <1>1, <1>2, <1>3

-----------------------------------------------------------------------------
(* JobQueue's own steps.                                                   *)

LEMMA SetJobsForward ==
    ASSUME RowsOK, NEW S, NEW s, s # "absent", SetJobs(S, s), UNCHANGED status
    PROVE  Forward
BY DEF SetJobs, Forward, RowsOK

LEMMA SetStatusForward ==
    ASSUME RowsOK, NEW e \in Episodes, NEW s, s # "absent", SetStatus(e, s),
           UNCHANGED <<jobStatus, target>>
    PROVE  Forward
BY DEF SetStatus, Forward, RowsOK, Exists

LEMMA NextForward ==
    ASSUME NEW X, Foreign(X), Typed(X), [Next]_vars
    PROVE  Forward
<1>0. RowsOK
  BY DEF Typed
<1>1. ASSUME UNCHANGED <<jobStatus, target, status>> PROVE Forward
  BY <1>1 DEF Forward
<1>2. ASSUME NEW e \in Episodes, Discover(e) \/ BlacklistShort(e) \/ Orphan(e) \/ Reactivate(e)
      PROVE  Forward
  BY <1>0, <1>2 DEF Discover, BlacklistShort, Orphan, Reactivate, Forward, Exists, RowsOK, jobVars
<1>3. ASSUME NEW w \in Workers, NextReset(w) PROVE Forward
  BY <1>0, <1>3, SetJobsForward DEF NextReset, epVars
<1>4. ASSUME NEW p \in posts, AcceptComplete(p) \/ AcceptFail(p) PROVE Forward
  BY <1>0, <1>4 DEF AcceptComplete, AcceptFail, Answer, Forward, epVars, RowsOK
<1>5. ASSUME NEW c \in calls, InsertJob(c) PROVE Forward
  BY <1>0, <1>5 DEF InsertJob, Forward, jobVars, epVars, RowsOK
<1>6. ASSUME NEW c \in calls, MarkDownloading(c) PROVE Forward
  <2>1. c \in Calls \cup X /\ c.at = "mark"
    BY <1>6 DEF MarkDownloading, Typed
  <2>2. c.ep \in Episodes
    BY <2>1, CallData
  <2> QED
    BY <1>0, <1>6, <2>2, SetStatusForward DEF MarkDownloading, jobVars
<1>7. ASSUME NEW c \in calls, Claim(c) PROVE Forward
  BY <1>0, <1>7 DEF Claim, Forward, jobVars, epVars, RowsOK
<1>8. ASSUME NEW c \in calls, Settle(c) PROVE Forward
  <2>1. c \in Calls \cup X /\ c.at = "settle"
    BY <1>8 DEF Settle, Typed
  <2>2. c.ep \in Episodes /\ c.to # "absent"
    BY <2>1, CallData
  <2> QED
    BY <1>0, <1>8, <2>2, SetStatusForward DEF Settle, jobVars
<1>9. ASSUME RecoverInterrupted, UNCHANGED jobVars PROVE Forward
  BY <1>0, <1>9 DEF RecoverInterrupted, Stuck, Forward, jobVars, RowsOK
<1>10. ASSUME NEW S \in SUBSET Jobs, Reclaim(S) \/ Purge(S) PROVE Forward
  BY <1>0, <1>10, SetJobsForward DEF Reclaim, Purge, epVars
<1> QED
  BY <1>1, <1>2, <1>3, <1>4, <1>5, <1>6, <1>7, <1>8, <1>9, <1>10
  DEF Next, Run, HandlerStep, Dispatch, Post, CrashWorker, LosePost, StoreTranscript, Recover,
      Restart, jobVars, epVars, vars

\* They leave no handler of the administrator behind that was not there.
LEMMA NextCalls ==
    ASSUME NEW X, Foreign(X), Typed(X), [Next]_vars
    PROVE  \A c \in calls' \ calls : c.at \in Statements
<1>1. ASSUME NEW c, Begin(c), c.at \in Statements
      PROVE  \A d \in calls' \ calls : d.at \in Statements
  BY <1>1 DEF Begin
<1>2. ASSUME NEW c, NEW d, Continue(c, d), d.at \in Statements
      PROVE  \A b \in calls' \ calls : b.at \in Statements
  BY <1>2 DEF Continue
<1>3. ASSUME calls' \subseteq calls PROVE \A d \in calls' \ calls : d.at \in Statements
  BY <1>3
<1>4. ASSUME NEW c, NEW rows, NextRow(c, rows)
      PROVE  \A d \in calls' \ calls : d.at \in Statements
  <2>1. CASE Return(c)
    BY <2>1, <1>3 DEF Return
  <2>2. CASE Continue(c, [at |-> "insert", by |-> c.by, rows |-> rows])
    BY <2>2, <1>2 DEF Statements
  <2> QED
    BY <1>4, <2>1, <2>2 DEF NextRow
<1>5. ASSUME NEW w \in Workers, NextReset(w) PROVE \A d \in calls' \ calls : d.at \in Statements
  BY <1>5, <1>1 DEF NextReset, Statements
<1>6. CASE Dispatch
  BY <1>6, <1>1 DEF Dispatch, Statements
<1>7. ASSUME NEW p \in posts, AcceptComplete(p) \/ AcceptFail(p)
      PROVE  \A d \in calls' \ calls : d.at \in Statements
  <2>1. CASE AcceptComplete(p)
    BY <2>1, <1>1 DEF AcceptComplete, Statements
  <2>2. CASE AcceptFail(p)
    BY <2>2, <1>1 DEF AcceptFail, Statements
  <2> QED
    BY <1>7, <2>1, <2>2
<1>8. ASSUME NEW c \in calls, InsertJob(c) PROVE \A d \in calls' \ calls : d.at \in Statements
  <2>1. ASSUME NEW e \in c.rows,
               Continue(c, [at |-> "mark", by |-> c.by, rows |-> c.rows \ {e}, ep |-> e])
        PROVE  \A d \in calls' \ calls : d.at \in Statements
    BY <2>1, <1>2 DEF Statements
  <2>2. CASE Return(c)
    BY <2>2, <1>3 DEF Return
  <2> QED
    BY <1>8, <1>4, <2>1, <2>2 DEF InsertJob
<1>9. ASSUME NEW c \in calls, MarkDownloading(c)
      PROVE  \A d \in calls' \ calls : d.at \in Statements
  BY <1>9, <1>4 DEF MarkDownloading
<1>10. ASSUME NEW c \in calls, StoreTranscript(c)
       PROVE  \A d \in calls' \ calls : d.at \in Statements
  <2>1. ASSUME NEW to, Continue(c, [at |-> "settle", ep |-> c.ep, to |-> to])
        PROVE  \A d \in calls' \ calls : d.at \in Statements
    BY <2>1, <1>2 DEF Statements
  <2> QED
    BY <1>10, <2>1 DEF StoreTranscript
<1>11. ASSUME NEW c \in calls, Claim(c) \/ Settle(c) \/ Recover(c)
       PROVE  \A d \in calls' \ calls : d.at \in Statements
  BY <1>11, <1>3 DEF Claim, Settle, Recover, Return
<1>12. ASSUME NEW S \in SUBSET Jobs, Reclaim(S) \/ Purge(S)
       PROVE  \A d \in calls' \ calls : d.at \in Statements
  BY <1>12, <1>1, <1>3 DEF Reclaim, Purge, Statements
<1> QED
  BY <1>3, <1>5, <1>6, <1>7, <1>8, <1>9, <1>10, <1>11, <1>12
  DEF Next, Run, HandlerStep, Discover, BlacklistShort, Orphan, Reactivate, Post, CrashWorker,
      LosePost, Restart, vars

\* A record of JobQueue's handlers says nothing of the administrator's.
LEMMA OwnCallKept == ASSUME NEW c, c.at \in Statements PROVE CallKept(c)'
BY DEF CallKept, Statements, EpisodeOps

-----------------------------------------------------------------------------
(* The administrator's steps: types.                                       *)

AdminInv == AdminTypeOK /\ QueueInv /\ RecordsKept

\* The records a handler leaves are typed, and so are the log's.
LEMMA SnapshotTyped ==
    ASSUME RowsOK, NEW e \in Episodes PROVE Snapshot(e) \in Snapshots
BY DEF RowsOK, Snapshot, Snapshots

LEMMA RowTyped ==
    ASSUME NEW w \in Snapshots
    PROVE  /\ \A e \in Episodes : [undo |-> "flag", ep |-> e, was |-> w] \in AuditRows
           /\ \A j \in Jobs : [undo |-> "cancel", job |-> j, was |-> w] \in AuditRows
BY DEF AuditRows

LEMMA RecordTyped ==
    ASSUME audit \in SUBSET AuditRows, NEW a \in AuditRows, Record(a)
    PROVE  audit' \in SUBSET AuditRows /\ audit' \subseteq audit \cup {a}
BY DEF Record

\* The job of a kept record has an episode.
LEMMA KeptTarget ==
    ASSUME RowsOK, NEW j \in Jobs, jobStatus[j] # "absent"
    PROVE  target[j] \in Episodes
BY DEF RowsOK

LEMMA StartEpisodeOpTyped ==
    ASSUME AdminTypeOK, NEW op \in AdminOps, NEW e \in Episodes, StartEpisodeOp(op, e)
    PROVE  AdminTypeOK'
<1>1. op \in EpisodeOps /\ Begin([at |-> "cancel", op |-> op, ep |-> e, was |-> Snapshot(e)])
  BY DEF StartEpisodeOp, EpisodeOps
<1>2. Snapshot(e) \in Snapshots
  BY SnapshotTyped DEF AdminTypeOK
<1>3. [at |-> "cancel", op |-> op, ep |-> e, was |-> Snapshot(e)] \in AdminCalls
  BY <1>1, <1>2 DEF AdminCalls
<1> QED
  BY <1>1, <1>3 DEF StartEpisodeOp, AdminTypeOK, RowsOK, Begin, jobVars, epVars, workerVars

LEMMA CancelLiveJobTyped ==
    ASSUME AdminTypeOK, NEW c \in calls, CancelLiveJob(c)
    PROVE  AdminTypeOK'
<1>1. c.at = "cancel" /\ c \in Calls \cup AdminCalls
  BY DEF CancelLiveJob, AdminTypeOK
<1>2. c \in AdminCalls
  BY <1>1 DEF Calls
<1>3. c \in [at : {"cancel"} \cup EpisodeOps, op : EpisodeOps, ep : Episodes, was : Snapshots]
  BY <1>1, <1>2 DEF AdminCalls, EpisodeOps
<1>4. [c EXCEPT !.at = c.op] \in AdminCalls
  BY <1>3 DEF AdminCalls
<1>5. /\ LiveJobs(c.ep) \in SUBSET Jobs /\ "failed" \in JobStatuses \ {"absent"}
      /\ \A j \in LiveJobs(c.ep) : jobStatus[j] # "absent"
  BY DEF LiveJobs, JobStatuses
<1>6. /\ jobStatus' \in [Jobs -> JobStatuses] /\ claimedBy' \in [Jobs -> Workers \cup {NoWorker}]
      /\ target' = target /\ attempts' = attempts /\ answers' = answers
      /\ \A j \in Jobs : jobStatus'[j] # "absent" => target[j] \in Episodes
  BY <1>5, SetJobsType DEF CancelLiveJob, AdminTypeOK
<1> QED
  BY <1>4, <1>6 DEF CancelLiveJob, AdminTypeOK, RowsOK, Continue, epVars, workerVars

\* The statements that write an episode.
LEMMA EpisodeStepTyped ==
    ASSUME AdminTypeOK, NEW c \in calls,
           ResetEpisode(c) \/ ClearChunks(c) \/ QueueEpisode(c) \/ DeleteEpisode(c)
    PROVE  AdminTypeOK'
<1>0. RowsOK /\ c \in Calls \cup AdminCalls
  BY DEF AdminTypeOK
<1>1. c.ep \in Episodes
  BY <1>0, AdminCallData DEF ResetEpisode, ClearChunks, QueueEpisode, DeleteEpisode, EpisodeOps
<1>2. ASSUME NEW d \in Calls \cup AdminCalls, Continue(c, d)
      PROVE  calls' \in SUBSET (Calls \cup AdminCalls)
  BY <1>2 DEF Continue, AdminTypeOK
<1>3. ASSUME Return(c) PROVE calls' \in SUBSET (Calls \cup AdminCalls)
  BY <1>3 DEF Return, AdminTypeOK
<1>4. \A s \in {"queue", "clear"} : [at |-> s, ep |-> c.ep] \in AdminCalls
  BY <1>1 DEF AdminCalls
<1>5. [at |-> "insert", by |-> "admin", rows |-> {c.ep}] \in Calls
  BY <1>1 DEF Calls
<1>6. CASE ResetEpisode(c)
  <2>1. status' \in [Episodes -> EpisodeStatuses]
    BY <1>0, <1>1, <1>6, SetStatusType DEF ResetEpisode, EpisodeStatuses
  <2>2. calls' \in SUBSET (Calls \cup AdminCalls)
    BY <1>2, <1>4, <1>6 DEF ResetEpisode
  <2> QED
    BY <1>0, <1>6, <2>1, <2>2 DEF ResetEpisode, AdminTypeOK, RowsOK, jobVars, workerVars
<1>7. CASE ClearChunks(c)
  <2>1. transcript' \in [Episodes -> {"none"} \cup Heard]
    BY <1>0, <1>1, <1>7 DEF ClearChunks, RowsOK
  <2>2. calls' \in SUBSET (Calls \cup AdminCalls)
    BY <1>2, <1>4, <1>7 DEF ClearChunks
  <2> QED
    BY <1>0, <1>7, <2>1, <2>2 DEF ClearChunks, AdminTypeOK, RowsOK, jobVars, workerVars
<1>8. CASE QueueEpisode(c)
  <2>2. calls' \in SUBSET (Calls \cup AdminCalls)
    BY <1>2, <1>3, <1>5, <1>8 DEF QueueEpisode
  <2> QED
    BY <1>0, <1>8, <2>2 DEF QueueEpisode, AdminTypeOK, RowsOK, jobVars, epVars, workerVars
<1>9. CASE DeleteEpisode(c)
  <2>1. status' \in [Episodes -> EpisodeStatuses] /\ transcript' \in [Episodes -> {"none"} \cup Heard]
    BY <1>0, <1>1, <1>9, SetStatusType DEF DeleteEpisode, EpisodeStatuses, RowsOK, epVars
  <2>2. calls' \in SUBSET (Calls \cup AdminCalls)
    BY <1>3, <1>9 DEF DeleteEpisode
  <2> QED
    BY <1>0, <1>9, <2>1, <2>2 DEF DeleteEpisode, AdminTypeOK, RowsOK, jobVars, epVars, workerVars
<1> QED
  BY <1>6, <1>7, <1>8, <1>9

LEMMA QueueNowTyped ==
    ASSUME AdminTypeOK, NEW S \in SUBSET Episodes, QueueNow(S)
    PROVE  AdminTypeOK'
<1>1. [at |-> "insert", by |-> "admin", rows |-> S] \in Calls
  BY DEF Calls
<1> QED
  BY <1>1 DEF QueueNow, AdminTypeOK, RowsOK, Begin, jobVars, epVars, workerVars

LEMMA StartUnblacklistTyped ==
    ASSUME AdminTypeOK, NEW e \in Episodes, StartUnblacklist(e)
    PROVE  AdminTypeOK'
<1>1. Snapshot(e) \in Snapshots
  BY SnapshotTyped DEF AdminTypeOK
<1>2. [at |-> "unflag", ep |-> e, was |-> Snapshot(e)] \in AdminCalls
  BY <1>1 DEF AdminCalls
<1> QED
  BY <1>2 DEF StartUnblacklist, AdminTypeOK, RowsOK, Begin, jobVars, epVars, workerVars

\* Blacklisting and its removal.
LEMMA FlagTyped ==
    ASSUME AdminTypeOK, NEW c \in calls, FlagBlacklisted(c) \/ Unflag(c)
    PROVE  AdminTypeOK'
<1>0. RowsOK /\ c \in Calls \cup AdminCalls /\ audit \in SUBSET AuditRows
  BY DEF AdminTypeOK
<1>1. c.ep \in Episodes /\ c.was \in Snapshots
  BY <1>0, AdminCallData DEF FlagBlacklisted, Unflag, EpisodeOps
<1>2. calls' \in SUBSET (Calls \cup AdminCalls)
  BY DEF FlagBlacklisted, Unflag, Return, AdminTypeOK
<1>3. \E s \in EpisodeStatuses : SetStatus(c.ep, s)
  BY <1>0, <1>1 DEF FlagBlacklisted, Unflag, RowsOK, EpisodeStatuses
<1>4. status' \in [Episodes -> EpisodeStatuses]
  BY <1>0, <1>1, <1>3, SetStatusType
<1>5. blacklisted' \in [Episodes -> BOOLEAN]
  BY <1>0, <1>1 DEF FlagBlacklisted, Unflag, RowsOK
<1>6. audit' \in SUBSET AuditRows
  BY <1>0, <1>1, RowTyped, RecordTyped DEF FlagBlacklisted, Unflag
<1> QED
  BY <1>0, <1>2, <1>4, <1>5, <1>6
  DEF FlagBlacklisted, Unflag, AdminTypeOK, RowsOK, jobVars, workerVars

\* Cancelling a job.
LEMMA CancelJobTyped ==
    ASSUME AdminTypeOK, NEW j \in Jobs, CancelJob(j)
    PROVE  AdminTypeOK'
<1>1. [at |-> "snapshot", job |-> j] \in AdminCalls
  BY DEF AdminCalls
<1>2. /\ {j} \in SUBSET Jobs /\ "failed" \in JobStatuses \ {"absent"}
      /\ \A i \in {j} : jobStatus[i] # "absent"
  BY DEF CancelJob, JobStatuses
<1>3. /\ jobStatus' \in [Jobs -> JobStatuses] /\ claimedBy' \in [Jobs -> Workers \cup {NoWorker}]
      /\ target' = target /\ attempts' = attempts /\ answers' = answers
      /\ \A i \in Jobs : jobStatus'[i] # "absent" => target[i] \in Episodes
  BY <1>2, SetJobsType DEF CancelJob, AdminTypeOK
<1> QED
  BY <1>1, <1>3 DEF CancelJob, AdminTypeOK, RowsOK, Begin, epVars, workerVars

LEMMA JobStepTyped ==
    ASSUME AdminInv, NEW c \in calls, SnapshotEpisode(c) \/ ReleaseEpisode(c) \/ RemarkEpisode(c)
    PROVE  AdminTypeOK'
<1>0. AdminTypeOK /\ RowsOK /\ c \in Calls \cup AdminCalls /\ audit \in SUBSET AuditRows /\ CallKept(c)
  BY DEF AdminInv, AdminTypeOK, RecordsKept
<1>1. c.job \in Jobs /\ jobStatus[c.job] # "absent"
  BY <1>0, AdminCallData DEF SnapshotEpisode, ReleaseEpisode, RemarkEpisode, CallKept, Remembers
<1>2. target[c.job] \in Episodes
  BY <1>0, <1>1, KeptTarget
<1>3. CASE SnapshotEpisode(c)
  <2>1. Snapshot(target[c.job]) \in Snapshots
    BY <1>0, <1>2, SnapshotTyped
  <2>2. [at |-> "release", job |-> c.job, was |-> Snapshot(target[c.job])] \in AdminCalls
    BY <1>1, <2>1 DEF AdminCalls
  <2> QED
    BY <1>0, <1>3, <2>2
    DEF SnapshotEpisode, AdminTypeOK, RowsOK, Continue, jobVars, epVars, workerVars
<1>4. CASE ReleaseEpisode(c)
  <2>1. c.was \in Snapshots
    BY <1>0, <1>4, AdminCallData DEF ReleaseEpisode
  <2>2. audit' \in SUBSET AuditRows
    BY <1>0, <1>1, <1>4, <2>1, RowTyped, RecordTyped DEF ReleaseEpisode
  <2>3. status' \in [Episodes -> EpisodeStatuses]
    BY <1>0, <1>2, <1>4 DEF ReleaseEpisode, RowsOK, EpisodeStatuses
  <2> QED
    BY <1>0, <1>4, <2>2, <2>3 DEF ReleaseEpisode, AdminTypeOK, RowsOK, Return, jobVars, workerVars
<1>5. CASE RemarkEpisode(c)
  <2>1. \E s \in EpisodeStatuses : SetStatus(target[c.job], s)
    BY <1>0, <1>2, <1>5 DEF RemarkEpisode, RowsOK, EpisodeStatuses
  <2>2. status' \in [Episodes -> EpisodeStatuses]
    BY <1>0, <1>2, <2>1, SetStatusType
  <2> QED
    BY <1>0, <1>5, <2>2 DEF RemarkEpisode, AdminTypeOK, RowsOK, Return, jobVars, workerVars
<1> QED
  BY <1>3, <1>4, <1>5

\* Requeueing a job, by hand or by an undo.
LEMMA RequeueTyped ==
    ASSUME RowsOK, NEW j \in Jobs, jobStatus[j] # "absent", Requeue(j)
    PROVE  /\ jobStatus' \in [Jobs -> JobStatuses]
           /\ target' = target /\ attempts' = attempts /\ answers' = answers
           /\ claimedBy' \in [Jobs -> Workers \cup {NoWorker}]
           /\ \A i \in Jobs : jobStatus'[i] # "absent" => target[i] \in Episodes
<1> DEFINE S == {j} \ {i \in Jobs : jobStatus[i] = "purged"}
<1>1. S \in SUBSET Jobs /\ \A i \in S : jobStatus[i] # "absent"
  OBVIOUS
<1>2. "pending" \in JobStatuses \ {"absent"} /\ SetJobs(S, "pending")
  BY DEF Requeue, JobStatuses
<1> HIDE DEF S
<1> QED
  BY <1>1, <1>2, SetJobsType

LEMMA StartRetryJobTyped ==
    ASSUME AdminTypeOK, NEW j \in Jobs, StartRetryJob(j)
    PROVE  AdminTypeOK'
<1>1. [at |-> "requeue", job |-> j] \in AdminCalls
  BY DEF AdminCalls
<1> QED
  BY <1>1 DEF StartRetryJob, AdminTypeOK, RowsOK, Begin, jobVars, epVars, workerVars

LEMMA RequeueJobTyped ==
    ASSUME AdminInv, NEW c \in calls, RequeueJob(c)
    PROVE  AdminTypeOK'
<1>0. AdminTypeOK /\ RowsOK /\ c \in Calls \cup AdminCalls /\ CallKept(c)
  BY DEF AdminInv, AdminTypeOK, RecordsKept
<1>1. c.job \in Jobs /\ jobStatus[c.job] # "absent"
  BY <1>0, AdminCallData DEF RequeueJob, CallKept
<1>2. [at |-> "remark", job |-> c.job] \in AdminCalls
  BY <1>1 DEF AdminCalls
<1>3. calls' \in SUBSET (Calls \cup AdminCalls)
  BY <1>0, <1>2 DEF RequeueJob, Return, Continue, AdminTypeOK
<1>4. CASE UNCHANGED jobVars
  BY <1>0, <1>3, <1>4 DEF RequeueJob, AdminTypeOK, RowsOK, jobVars, epVars, workerVars
<1>5. CASE Requeue(c.job)
  BY <1>0, <1>1, <1>3, <1>5, RequeueTyped DEF RequeueJob, AdminTypeOK, RowsOK, epVars, workerVars
<1> QED
  BY <1>4, <1>5 DEF RequeueJob

\* The undos.
LEMMA UndoFlagTyped ==
    ASSUME AdminInv, NEW a \in audit, UndoFlag(a)
    PROVE  AdminTypeOK'
<1>0. AdminTypeOK /\ RowsOK /\ a \in AuditRows /\ a.undo = "flag"
  BY DEF AdminInv, AdminTypeOK, UndoFlag
<1>1. a.ep \in Episodes /\ a.was.status \in EpisodeStatuses /\ a.was.blacklisted \in BOOLEAN
  BY <1>0 DEF AuditRows, Snapshots
<1>2. status' \in [Episodes -> EpisodeStatuses]
  BY <1>0, <1>1, SetStatusType DEF UndoFlag
<1>3. blacklisted' \in [Episodes -> BOOLEAN]
  BY <1>0, <1>1 DEF UndoFlag, RowsOK
<1> QED
  BY <1>0, <1>2, <1>3 DEF UndoFlag, AdminTypeOK, RowsOK, jobVars, workerVars

LEMMA UndoCancelTyped ==
    ASSUME AdminInv, NEW a \in audit, UndoCancel(a)
    PROVE  AdminTypeOK'
<1>0. AdminTypeOK /\ RowsOK /\ a \in AuditRows /\ a.undo = "cancel" /\ RowKept(a)
  BY DEF AdminInv, AdminTypeOK, UndoCancel, RecordsKept
<1>1. a.job \in Jobs /\ jobStatus[a.job] # "absent"
  BY <1>0 DEF AuditRows, RowKept, Remembers
<1>2. [at |-> "restore", row |-> a] \in AdminCalls
  BY <1>0 DEF AdminCalls
<1>3. calls' \in SUBSET (Calls \cup AdminCalls)
  BY <1>0, <1>2 DEF UndoCancel, Begin, AdminTypeOK
<1> QED
  BY <1>0, <1>1, <1>3, RequeueTyped DEF UndoCancel, AdminTypeOK, RowsOK, epVars, workerVars

LEMMA RestoreEpisodeTyped ==
    ASSUME AdminInv, NEW c \in calls, RestoreEpisode(c)
    PROVE  AdminTypeOK'
<1>0. /\ AdminTypeOK /\ RowsOK /\ c \in Calls \cup AdminCalls /\ c.at = "restore" /\ CallKept(c)
  BY DEF AdminInv, AdminTypeOK, RestoreEpisode, RecordsKept
<1>1. c.row \in AuditRows /\ c.row.undo = "cancel" /\ RowKept(c.row)
  BY <1>0, AdminCallData DEF CallKept
<1>2. /\ c.row.job \in Jobs /\ jobStatus[c.row.job] # "absent"
      /\ c.row.was.status \in EpisodeStatuses
  BY <1>1 DEF AuditRows, Snapshots, RowKept, Remembers
<1>3. target[c.row.job] \in Episodes
  BY <1>0, <1>2, KeptTarget
<1>4. status' \in [Episodes -> EpisodeStatuses]
  BY <1>0, <1>2, <1>3, SetStatusType DEF RestoreEpisode
<1> QED
  BY <1>0, <1>4 DEF RestoreEpisode, AdminTypeOK, RowsOK, Return, jobVars, workerVars

\* What the administrator does, next to JobQueue.
AdminMove ==
    \/ \E op \in AdminOps, e \in Episodes : StartEpisodeOp(op, e)
    \/ \E S \in SUBSET Episodes : QueueNow(S)
    \/ \E e \in Episodes : StartUnblacklist(e)
    \/ \E j \in Jobs : CancelJob(j) \/ StartRetryJob(j)
    \/ \E a \in audit : UndoFlag(a) \/ UndoCancel(a)
    \/ \E c \in calls : AdminStep(c)

LEMMA AdminMoveTyped == ASSUME AdminInv, AdminMove PROVE AdminTypeOK'
<1>1. AdminTypeOK
  BY DEF AdminInv
<1>2. ASSUME NEW c \in calls, AdminStep(c) PROVE AdminTypeOK'
  BY <1>1, <1>2, CancelLiveJobTyped, EpisodeStepTyped, FlagTyped, JobStepTyped, RequeueJobTyped,
     RestoreEpisodeTyped DEF AdminStep
<1> QED
  BY <1>1, <1>2, StartEpisodeOpTyped, QueueNowTyped, StartUnblacklistTyped, CancelJobTyped,
     StartRetryJobTyped, UndoFlagTyped, UndoCancelTyped DEF AdminMove

-----------------------------------------------------------------------------
(* The administrator's steps: rows and records.                            *)

\* What a statement does to the existence of an episode: it may delete it.
Deletes == \E c \in calls : DeleteEpisode(c)

\* A status of a live episode or of one that is gone already moves no row.
LEMMA WriteRows ==
    ASSUME RowsOK, NEW e \in Episodes, NEW s, s # "absent", s = "gone" => status[e] = "gone",
           SetStatus(e, s)
    PROVE  \A f \in Episodes : /\ Exists(f)' <=> Exists(f)
                               /\ status'[f] = "absent" <=> status[f] = "absent"
                               /\ status[f] = "gone" => status'[f] = "gone"
BY DEF RowsOK, SetStatus, Exists

\* No statement but the deletion changes which episodes exist.
LEMMA AdminMoveRows ==
    ASSUME AdminInv, AdminMove, ~Deletes
    PROVE  \A f \in Episodes : /\ Exists(f)' <=> Exists(f)
                               /\ status'[f] = "absent" <=> status[f] = "absent"
                               /\ status[f] = "gone" => status'[f] = "gone"
<1> DEFINE Rows == \A f \in Episodes : /\ Exists(f)' <=> Exists(f)
                                       /\ status'[f] = "absent" <=> status[f] = "absent"
                                       /\ status[f] = "gone" => status'[f] = "gone"
<1>0. RowsOK /\ calls \in SUBSET (Calls \cup AdminCalls) /\ audit \in SUBSET AuditRows
  BY DEF AdminInv, AdminTypeOK
<1>1. ASSUME UNCHANGED status PROVE Rows
  BY <1>1 DEF Exists
<1>2. ASSUME NEW e \in Episodes, NEW s, s \notin {"absent", "gone"}, SetStatus(e, s) PROVE Rows
  BY <1>0, <1>2, WriteRows
<1>3. ASSUME NEW e \in Episodes, NEW s, SetStatus(e, IF Exists(e) THEN s ELSE status[e]),
             s \notin {"absent", "gone"}
      PROVE  Rows
  BY <1>0, <1>3 DEF RowsOK, SetStatus, Exists
<1>4. ASSUME NEW e \in Episodes, NEW s, s \in {"blacklisted", "discovered", "downloading", status[e]},
             SetStatus(e, s)
      PROVE  Rows
  BY <1>0, <1>4 DEF RowsOK, SetStatus, Exists
<1>5. ASSUME NEW c \in calls, ResetEpisode(c) \/ FlagBlacklisted(c) \/ Unflag(c) PROVE Rows
  <2>1. c.ep \in Episodes
    BY <1>0, <1>5, AdminCallData DEF ResetEpisode, FlagBlacklisted, Unflag, EpisodeOps
  <2> QED
    BY <1>4, <1>5, <2>1 DEF ResetEpisode, FlagBlacklisted, Unflag
<1>6. ASSUME NEW c \in calls, ReleaseEpisode(c) \/ RemarkEpisode(c) PROVE Rows
  <2>1. c.job \in Jobs /\ jobStatus[c.job] # "absent"
    BY <1>0, <1>6, AdminCallData
    DEF ReleaseEpisode, RemarkEpisode, AdminInv, RecordsKept, CallKept, Remembers
  <2>2. target[c.job] \in Episodes
    BY <1>0, <2>1, KeptTarget
  <2>3. CASE ReleaseEpisode(c)
    BY <1>0, <2>2, <2>3 DEF ReleaseEpisode, RowsOK, Exists
  <2>4. CASE RemarkEpisode(c)
    BY <1>4, <2>2, <2>4 DEF RemarkEpisode
  <2> QED
    BY <1>6, <2>3, <2>4
<1>7. ASSUME NEW a \in audit, UndoFlag(a) PROVE Rows
  <2>1. a.ep \in Episodes /\ Shown(a.was)
    BY <1>0, <1>7 DEF UndoFlag, AuditRows, AdminInv, RecordsKept, RowKept
  <2> QED
    BY <1>2, <1>7, <2>1 DEF UndoFlag, Shown
<1>8. ASSUME NEW c \in calls, RestoreEpisode(c) PROVE Rows
  <2>1. c.row \in AuditRows /\ c.row.undo = "cancel" /\ RowKept(c.row)
    BY <1>0, <1>8, AdminCallData DEF RestoreEpisode, AdminInv, RecordsKept, CallKept
  <2>2. c.row.job \in Jobs /\ Remembers(c.row.job, c.row.was)
    BY <2>1 DEF AuditRows, RowKept
  <2>3. target[c.row.job] \in Episodes
    BY <1>0, <2>2, KeptTarget DEF Remembers
  <2> QED
    BY <1>0, <1>8, <2>2, <2>3, WriteRows DEF RestoreEpisode, Remembers
<1>9. ASSUME NEW c \in calls, AdminStep(c) PROVE Rows
  BY <1>1, <1>5, <1>6, <1>8, <1>9
  DEF AdminStep, CancelLiveJob, ClearChunks, QueueEpisode, SnapshotEpisode, RequeueJob, Deletes, epVars
<1> QED
  BY <1>1, <1>7, <1>9
  DEF AdminMove, StartEpisodeOp, QueueNow, StartUnblacklist, CancelJob, StartRetryJob, UndoCancel,
      epVars

\* With the deletion: rows are deleted, never created, and the deleted stay so.
LEMMA MoveRows ==
    ASSUME AdminInv, AdminMove
    PROVE  \A f \in Episodes : /\ Exists(f)' => Exists(f)
                               /\ status'[f] = "absent" <=> status[f] = "absent"
                               /\ status[f] = "gone" => status'[f] = "gone"
<1>1. ASSUME NEW c \in calls, DeleteEpisode(c)
      PROVE  \A f \in Episodes : /\ Exists(f)' => Exists(f)
                                 /\ status'[f] = "absent" <=> status[f] = "absent"
                                 /\ status[f] = "gone" => status'[f] = "gone"
  <2>1. c.ep \in Episodes
    BY <1>1, AdminCallData DEF DeleteEpisode, AdminInv, AdminTypeOK, EpisodeOps
  <2> QED
    BY <1>1, <2>1 DEF DeleteEpisode, AdminInv, AdminTypeOK, RowsOK, SetStatus, Exists, epVars
<1> QED
  BY <1>1, AdminMoveRows DEF Deletes

\* A move leaves the jobs alone, fails some, or requeues one the index allows; workers
\* and their results never change.
LEMMA MoveJobs ==
    ASSUME AdminInv, AdminMove
    PROVE  /\ UNCHANGED workerVars
           /\ \/ UNCHANGED jobVars
              \/ \E S \in SUBSET Jobs :
                    (\A j \in S : jobStatus[j] \in Live) /\ SetJobs(S, "failed")
              \/ \E j \in Jobs : /\ jobStatus[j] # "absent" /\ ~Refused(j) /\ Requeue(j)
                                 /\ UNCHANGED status
<1> DEFINE Failed == \E S \in SUBSET Jobs :
                        (\A j \in S : jobStatus[j] \in Live) /\ SetJobs(S, "failed")
           Again == \E j \in Jobs : /\ jobStatus[j] # "absent" /\ ~Refused(j) /\ Requeue(j)
                                    /\ UNCHANGED status
<1>1. ASSUME NEW j \in Jobs, CancelJob(j) PROVE Failed
  <2>1. {j} \in SUBSET Jobs /\ (\A i \in {j} : jobStatus[i] \in Live) /\ SetJobs({j}, "failed")
    BY <1>1 DEF CancelJob
  <2> QED
    BY <2>1
<1>2. ASSUME NEW c \in calls, CancelLiveJob(c) PROVE Failed
  <2>1. /\ LiveJobs(c.ep) \in SUBSET Jobs /\ (\A i \in LiveJobs(c.ep) : jobStatus[i] \in Live)
        /\ SetJobs(LiveJobs(c.ep), "failed")
    BY <1>2 DEF CancelLiveJob, LiveJobs
  <2> QED
    BY <2>1
<1>3. ASSUME NEW c \in calls, RequeueJob(c) PROVE UNCHANGED jobVars \/ Again
  <2>1. c.job \in Jobs /\ jobStatus[c.job] # "absent"
    BY <1>3, AdminCallData DEF RequeueJob, AdminInv, AdminTypeOK, RecordsKept, CallKept
  <2> QED
    BY <1>3, <2>1 DEF RequeueJob, epVars
<1>4. ASSUME NEW a \in audit, UndoCancel(a) PROVE Again
  <2>1. a.job \in Jobs /\ jobStatus[a.job] # "absent"
    BY <1>4 DEF UndoCancel, AdminInv, AdminTypeOK, AuditRows, RecordsKept, RowKept, Remembers
  <2> QED
    BY <1>4, <2>1 DEF UndoCancel, epVars
<1> HIDE DEF Failed, Again
<1>5. UNCHANGED workerVars /\ (UNCHANGED jobVars \/ Failed \/ Again)
  BY <1>1, <1>2, <1>3, <1>4
  DEF AdminMove, AdminStep, StartEpisodeOp, QueueNow, StartUnblacklist, CancelJob, StartRetryJob,
      UndoFlag, UndoCancel, CancelLiveJob, ResetEpisode, ClearChunks, QueueEpisode,
      FlagBlacklisted, DeleteEpisode, Unflag, SnapshotEpisode, ReleaseEpisode, RequeueJob,
      RemarkEpisode, RestoreEpisode, workerVars
<1> QED
  BY <1>5 DEF Failed, Again

LEMMA MoveForward == ASSUME AdminInv, AdminMove PROVE Forward
<1>0. RowsOK
  BY DEF AdminInv, AdminTypeOK
<1>1. \A j \in Jobs : jobStatus[j] # "absent" =>
          jobStatus'[j] # "absent" /\ target'[j] = target[j]
  BY <1>0, MoveJobs DEF SetJobs, Requeue, RowsOK, jobVars
<1> QED
  BY <1>1, MoveRows DEF Forward

\* Every record a move leaves behind is kept.
LEMMA MoveRecords ==
    ASSUME AdminInv, AdminMove
    PROVE  /\ \A d \in calls' \ calls : CallKept(d)'
           /\ \A a \in audit' \ audit : RowKept(a)'
<1> DEFINE Fine == /\ \A d \in calls' \ calls : CallKept(d)'
                   /\ \A a \in audit' \ audit : RowKept(a)'
<1>0. /\ RowsOK /\ calls \in SUBSET (Calls \cup AdminCalls) /\ audit \in SUBSET AuditRows
      /\ JobTargetsExist /\ Forward
      /\ \A c \in calls : CallKept(c)
      /\ \A a \in audit : RowKept(a)
  BY MoveForward DEF AdminInv, AdminTypeOK, QueueInv, RecordsKept
<1>1. ASSUME NEW op \in AdminOps, NEW e \in Episodes, StartEpisodeOp(op, e) PROVE Fine
  <2>1. PICK was : was = Snapshot(e) /\ Shown(was)
    BY <1>1 DEF StartEpisodeOp, MayStart, Exists, Snapshot, Shown
  <2>2. CallKept([at |-> "cancel", op |-> op, ep |-> e, was |-> was])'
    BY <2>1 DEF CallKept, EpisodeOps
  <2> QED
    BY <1>1, <2>1, <2>2 DEF StartEpisodeOp, Begin
<1>2. ASSUME NEW c \in calls, CancelLiveJob(c) PROVE Fine
  <2>1. c.at = "cancel" /\ c \in Calls \cup AdminCalls
    BY <1>0, <1>2 DEF CancelLiveJob
  <2>2. c \in [at : {"cancel"} \cup EpisodeOps, op : EpisodeOps, ep : Episodes, was : Snapshots]
    BY <2>1 DEF Calls, AdminCalls, EpisodeOps
  <2>3. Shown(c.was)
    BY <1>0, <2>1 DEF CallKept
  <2>4. [c EXCEPT !.at = c.op].at \in EpisodeOps /\ [c EXCEPT !.at = c.op].was = c.was
    BY <2>2
  <2>5. CallKept([c EXCEPT !.at = c.op])'
    BY <2>3, <2>4 DEF CallKept, EpisodeOps
  <2> QED
    BY <1>2, <2>5 DEF CancelLiveJob, Continue
<1>3. ASSUME NEW c \in calls, ResetEpisode(c) \/ ClearChunks(c) \/ QueueEpisode(c) PROVE Fine
  <2>1. \A d \in calls' \ calls : d.at \in {"queue", "clear", "insert"}
    BY <1>3 DEF ResetEpisode, ClearChunks, QueueEpisode, Continue, Return
  <2>2. \A d \in calls' \ calls : CallKept(d)'
    BY <2>1 DEF CallKept, EpisodeOps
  <2> QED
    BY <1>3, <2>2 DEF ResetEpisode, ClearChunks, QueueEpisode
<1>4. ASSUME NEW S \in SUBSET Episodes, QueueNow(S) PROVE Fine
  <2>1. \A d \in calls' \ calls : d.at = "insert"
    BY <1>4 DEF QueueNow, Begin
  <2>2. \A d \in calls' \ calls : CallKept(d)'
    BY <2>1 DEF CallKept, EpisodeOps
  <2> QED
    BY <1>4, <2>2 DEF QueueNow
<1>5. ASSUME NEW e \in Episodes, StartUnblacklist(e) PROVE Fine
  <2>1. PICK was : was = Snapshot(e) /\ Shown(was)
    BY <1>5 DEF StartUnblacklist, Exists, Snapshot, Shown
  <2>2. CallKept([at |-> "unflag", ep |-> e, was |-> was])'
    BY <2>1 DEF CallKept, EpisodeOps
  <2> QED
    BY <1>5, <2>1, <2>2 DEF StartUnblacklist, Begin
<1>6. ASSUME NEW c \in calls, FlagBlacklisted(c) \/ Unflag(c) PROVE Fine
  <2>1. Shown(c.was)
    BY <1>0, <1>6 DEF FlagBlacklisted, Unflag, CallKept, EpisodeOps
  <2>2. \A a \in audit' \ audit : a = [undo |-> "flag", ep |-> c.ep, was |-> c.was]
    BY <1>6 DEF FlagBlacklisted, Unflag, Record
  <2>3. RowKept([undo |-> "flag", ep |-> c.ep, was |-> c.was])'
    BY <2>1 DEF RowKept
  <2> QED
    BY <1>6, <2>2, <2>3 DEF FlagBlacklisted, Unflag, Return
<1>7. ASSUME NEW c \in calls, DeleteEpisode(c) \/ RemarkEpisode(c) PROVE Fine
  BY <1>7 DEF DeleteEpisode, RemarkEpisode, Return
<1>8. ASSUME NEW j \in Jobs, CancelJob(j) \/ StartRetryJob(j) PROVE Fine
  <2>1. jobStatus'[j] # "absent"
    BY <1>0, <1>8 DEF CancelJob, StartRetryJob, Forward
  <2>2. /\ CallKept([at |-> "snapshot", job |-> j])'
        /\ CallKept([at |-> "requeue", job |-> j])'
    BY <2>1 DEF CallKept, EpisodeOps
  <2> QED
    BY <1>8, <2>2 DEF CancelJob, StartRetryJob, Begin
<1>9. ASSUME NEW c \in calls, SnapshotEpisode(c) PROVE Fine
  <2>1. c.job \in Jobs /\ jobStatus[c.job] # "absent"
    BY <1>0, <1>9, AdminCallData DEF SnapshotEpisode, CallKept
  <2>2. target[c.job] \in Episodes /\ status[target[c.job]] # "absent"
    BY <1>0, <2>1, KeptTarget DEF JobTargetsExist
  <2>3. Remembers(c.job, Snapshot(target[c.job]))'
    <3>1. UNCHANGED <<jobStatus, target, status, blacklisted>>
      BY <1>9 DEF SnapshotEpisode, jobVars, epVars
    <3> QED
      BY <2>1, <2>2, <3>1 DEF Remembers, Snapshot
  <2>4. Snapshot(target[c.job])' = Snapshot(target[c.job])
    BY <1>9 DEF SnapshotEpisode, Snapshot, jobVars, epVars
  <2>5. CallKept([at |-> "release", job |-> c.job, was |-> Snapshot(target[c.job])])'
    BY <2>3, <2>4 DEF CallKept, EpisodeOps
  <2> QED
    BY <1>9, <2>4, <2>5 DEF SnapshotEpisode, Continue
<1>10. ASSUME NEW c \in calls, ReleaseEpisode(c) PROVE Fine
  <2>1. c.job \in Jobs /\ Remembers(c.job, c.was)
    BY <1>0, <1>10, AdminCallData DEF ReleaseEpisode, CallKept
  <2>2. Remembers(c.job, c.was)'
    BY <1>0, <2>1, KeptForward
  <2>3. RowKept([undo |-> "cancel", job |-> c.job, was |-> c.was])'
    BY <2>2 DEF RowKept
  <2>4. \A a \in audit' \ audit : a = [undo |-> "cancel", job |-> c.job, was |-> c.was]
    BY <1>10 DEF ReleaseEpisode, Record
  <2> QED
    BY <1>10, <2>3, <2>4 DEF ReleaseEpisode, Return
<1>11. ASSUME NEW c \in calls, RequeueJob(c) PROVE Fine
  <2>1. c.job \in Jobs /\ jobStatus[c.job] # "absent"
    BY <1>0, <1>11, AdminCallData DEF RequeueJob, CallKept
  <2>2. jobStatus'[c.job] # "absent"
    BY <1>0, <2>1 DEF Forward
  <2>3. CallKept([at |-> "remark", job |-> c.job])'
    BY <2>2 DEF CallKept, EpisodeOps
  <2> QED
    BY <1>11, <2>3 DEF RequeueJob, Continue, Return
<1>12. ASSUME NEW a \in audit, UndoFlag(a) PROVE Fine
  BY <1>12 DEF UndoFlag
<1>13. ASSUME NEW a \in audit, UndoCancel(a) PROVE Fine
  <2>1. RowKept(a)' /\ a.undo = "cancel"
    BY <1>0, <1>13, KeptForward DEF UndoCancel
  <2>2. CallKept([at |-> "restore", row |-> a])'
    BY <2>1 DEF CallKept, EpisodeOps
  <2> QED
    BY <1>13, <2>2 DEF UndoCancel, Begin
<1>14. ASSUME NEW c \in calls, RestoreEpisode(c) PROVE Fine
  BY <1>14 DEF RestoreEpisode, Return
<1> HIDE DEF Fine
<1>15. Fine
  BY <1>1, <1>2, <1>3, <1>4, <1>5, <1>6, <1>7, <1>8, <1>9, <1>10, <1>11, <1>12, <1>13, <1>14
  DEF AdminMove, AdminStep
<1> QED
  BY <1>15 DEF Fine

-----------------------------------------------------------------------------
(* One live job per episode.                                               *)

\* The unique index guards a requeue as it guards an INSERT.
LEMMA RequeueInv ==
    ASSUME RowsOK, QueueInv, NEW j \in Jobs, jobStatus[j] # "absent", ~Refused(j), Requeue(j),
           UNCHANGED status
    PROVE  QueueInv'
<1>1. UNCHANGED target /\ \A i \in Jobs \ {j} : jobStatus'[i] = jobStatus[i]
  BY DEF Requeue, SetJobs
<1>2. \A i \in Jobs : jobStatus'[i] # "absent" => jobStatus[i] # "absent"
  BY <1>1
<1>3. CASE jobStatus[j] = "purged"
  <2>1. jobStatus'[j] = "purged"
    BY <1>3 DEF Requeue, SetJobs
  <2> QED
    BY <1>1, <1>2, <1>3, <2>1 DEF QueueInv, OneLiveJobPerEpisode, JobTargetsExist, Exists
<1>4. CASE jobStatus[j] # "purged"
  <2>1. \A i \in Jobs : jobStatus[i] \in Live /\ target[i] = target[j] /\ Exists(target[j]) => i = j
    BY <1>4 DEF Refused, LiveJobs
  <2> QED
    BY <1>1, <1>2, <2>1 DEF QueueInv, OneLiveJobPerEpisode, JobTargetsExist, Exists
<1> QED
  BY <1>3, <1>4

LEMMA MoveQueue == ASSUME AdminInv, AdminMove PROVE QueueInv'
<1>0. RowsOK /\ RowsOK' /\ QueueInv
  BY AdminMoveTyped DEF AdminInv, AdminTypeOK
<1>1. \A f \in Episodes : (Exists(f)' => Exists(f)) /\ (status'[f] = "absent" => status[f] = "absent")
  BY MoveRows
<1>2. CASE UNCHANGED jobVars
  BY <1>0, <1>1, <1>2, NothingGoesLive DEF jobVars
<1>3. ASSUME NEW S \in SUBSET Jobs, \A j \in S : jobStatus[j] # "absent", SetJobs(S, "failed")
      PROVE  QueueInv'
  <2>1. \A j \in Jobs : /\ jobStatus'[j] # "absent" => jobStatus[j] # "absent"
                        /\ jobStatus'[j] \in Live => jobStatus[j] \in Live
                        /\ jobStatus'[j] # "absent" => target'[j] = target[j]
    BY <1>0, <1>3 DEF SetJobs, RowsOK
  <2> QED
    BY <1>0, <1>1, <2>1, NothingGoesLive
<1> QED
  BY <1>0, <1>2, <1>3, RequeueInv, MoveJobs

\* A step of the queue, a step of the administrator, or none.
LEMMA AdminSteps ==
    ASSUME AdminTypeOK, [AdminNext]_adminVars
    PROVE  \/ Typed(AdminCalls) /\ [Next]_vars /\ UNCHANGED audit
           \/ AdminMove
BY DEF AdminNext, AdminMove, adminVars, Typed, AdminTypeOK

LEMMA AdminInitInv == AdminInit => AdminInv
<1> SUFFICES ASSUME AdminInit PROVE AdminInv
  OBVIOUS
<1>1. TypeOK /\ QueueInv
  BY InitType, QueueInit DEF AdminInit
<1> QED
  BY <1>1 DEF AdminInit, Init, AdminInv, AdminTypeOK, TypeOK, RecordsKept

\* Every statement, of the queue or of the administrator, keeps the invariant.
LEMMA AdminNextInv == AdminInv /\ [AdminNext]_adminVars => AdminInv'
<1> SUFFICES ASSUME AdminInv, [AdminNext]_adminVars PROVE AdminInv'
  OBVIOUS
<1>0. /\ AdminTypeOK /\ QueueInv /\ RowsOK
      /\ calls \in SUBSET (Calls \cup AdminCalls) /\ audit \in SUBSET AuditRows
      /\ \A c \in calls : CallKept(c)
      /\ \A a \in audit : RowKept(a)
  BY DEF AdminInv, AdminTypeOK, RecordsKept
<1>1. ASSUME Forward, \A d \in calls' \ calls : CallKept(d)', \A a \in audit' \ audit : RowKept(a)'
      PROVE  RecordsKept'
  BY <1>0, <1>1, KeptForward DEF RecordsKept
<1>2. CASE Typed(AdminCalls) /\ [Next]_vars /\ UNCHANGED audit
  <2>1. Typed(AdminCalls)'
    BY <1>2, AdminForeign, NextTyped
  <2>2. QueueInv'
    BY <1>0, <1>2, <2>1, AdminForeign, QueueNext
  <2>3. Forward
    BY <1>2, AdminForeign, NextForward
  <2>4. \A d \in calls' \ calls : CallKept(d)'
    BY <1>2, AdminForeign, NextCalls, OwnCallKept
  <2>5. RecordsKept'
    BY <1>1, <1>2, <2>3, <2>4
  <2>6. AdminTypeOK'
    BY <1>0, <1>2, <2>1 DEF AdminTypeOK, Typed
  <2> QED
    BY <2>2, <2>5, <2>6 DEF AdminInv
<1>3. CASE AdminMove
  BY <1>1, <1>3, AdminMoveTyped, MoveQueue, MoveForward, MoveRecords DEF AdminInv
<1> QED
  BY <1>0, <1>2, <1>3, AdminSteps

\* The administrator's handlers, suspended anywhere, leave tables, calls and the audit
\* log typed.
THEOREM AdminTypeCorrect == AdminSpec => []AdminTypeOK
<1>1. AdminInv => AdminTypeOK
  BY DEF AdminInv
<1> QED
  BY <1>1, AdminInitInv, AdminNextInv, PTL DEF AdminSpec

\* No cancellation, retry, requeue or undo, however it interleaves with the dispatcher,
\* gives an episode a second live job.
THEOREM OneLiveJobUnderAdmin == AdminSpec => []OneLiveJobPerEpisode
<1>1. AdminInv => OneLiveJobPerEpisode
  BY DEF AdminInv, QueueInv
<1> QED
  BY <1>1, AdminInitInv, AdminNextInv, PTL DEF AdminSpec

-----------------------------------------------------------------------------
(* One answer per claim.                                                   *)

\* A requeued job is answered again only after a claim of its own.
LEMMA MoveAnswers ==
    ASSUME AdminInv, AdminMove, AnsweredOncePerClaim PROVE AnsweredOncePerClaim'
<1>0. RowsOK
  BY DEF AdminInv, AdminTypeOK
<1>1. /\ UNCHANGED <<attempts, answers>>
      /\ \A j \in Jobs : jobStatus'[j] = "claimed" => jobStatus[j] = "claimed"
  BY <1>0, MoveJobs DEF SetJobs, Requeue, RowsOK, jobVars
<1> QED
  BY <1>0, <1>1, NothingAnswered

\* Nothing the administrator does to a job whose worker is still at work lets the
\* conductor apply two results of one claim.
THEOREM OneAnswerUnderAdmin == AdminSpec => []AnsweredOncePerClaim
<1>1. AdminInit => AdminInv /\ AnsweredOncePerClaim
  BY AdminInitInv, AnswersInit DEF AdminInit
<1>2. ASSUME AdminInv, AnsweredOncePerClaim, [AdminNext]_adminVars
      PROVE  (AdminInv /\ AnsweredOncePerClaim)'
  <2>1. CASE Typed(AdminCalls) /\ [Next]_vars
    BY <1>2, <2>1, AdminForeign, NextTyped, AnswersNext, AdminNextInv
  <2> QED
    BY <1>2, <2>1, AdminSteps, MoveAnswers, AdminNextInv DEF AdminInv
<1>3. AdminInv /\ AnsweredOncePerClaim /\ [AdminNext]_adminVars => (AdminInv /\ AnsweredOncePerClaim)'
  BY <1>2
<1> QED
  BY <1>1, <1>3, PTL DEF AdminSpec

-----------------------------------------------------------------------------
(* Deletion.                                                               *)

\* The queue's own steps delete nothing.
LEMMA NextKeepsRows ==
    ASSUME NEW X, Foreign(X), Typed(X), [Next]_vars
    PROVE  \A e \in Episodes : Exists(e) => Exists(e)'
<1>0. RowsOK
  BY DEF Typed
<1> DEFINE Keeps == \A e \in Episodes : Exists(e) => Exists(e)'
<1>1. ASSUME UNCHANGED status PROVE Keeps
  BY <1>1 DEF Exists
<1>2. ASSUME NEW e \in Episodes, Discover(e) \/ BlacklistShort(e) \/ Orphan(e) \/ Reactivate(e)
      PROVE  Keeps
  BY <1>0, <1>2 DEF Discover, BlacklistShort, Orphan, Reactivate, Exists, RowsOK
<1>3. ASSUME NEW e \in Episodes, NEW s, s \notin {"absent", "gone"}, SetStatus(e, s) PROVE Keeps
  BY <1>0, <1>3 DEF SetStatus, Exists, RowsOK
<1>4. ASSUME NEW c \in calls, MarkDownloading(c) PROVE Keeps
  <2>1. c.ep \in Episodes
    BY <1>4, CallData DEF MarkDownloading, Typed
  <2> QED
    BY <1>3, <1>4, <2>1 DEF MarkDownloading
<1>5. ASSUME NEW c \in calls, Settle(c) PROVE Keeps
  <2>1. c.ep \in Episodes /\ c.to \notin {"absent", "gone"}
    BY <1>5, CallData DEF Settle, Typed
  <2> QED
    BY <1>3, <1>5, <2>1 DEF Settle
<1>6. ASSUME RecoverInterrupted PROVE Keeps
  BY <1>0, <1>6 DEF RecoverInterrupted, Stuck, Exists, RowsOK
<1> HIDE DEF Keeps
<1>7. Keeps
  BY <1>1, <1>2, <1>4, <1>5, <1>6
  DEF Next, Run, HandlerStep, Dispatch, NextReset, Post, CrashWorker, AcceptComplete, AcceptFail,
      LosePost, InsertJob, Claim, StoreTranscript, Recover, Restart, Reclaim, Purge, epVars, vars
<1> QED
  BY <1>7 DEF Keeps

\* The one step that stores words looks for the row.
LEMMA NextStores ==
    ASSUME NEW X, Foreign(X), Typed(X), [Next]_vars, NEW e \in Episodes, transcript'[e] = "words"
    PROVE  transcript[e] = "words" \/ Exists(e)
<1>0. RowsOK
  BY DEF Typed
<1>1. ASSUME UNCHANGED transcript PROVE transcript[e] = "words"
  BY <1>1
<1>2. ASSUME NEW c \in calls, StoreTranscript(c) PROVE transcript[e] = "words" \/ Exists(e)
  <2>1. c.ep \in Episodes
    BY <1>2, CallData DEF StoreTranscript, Typed
  <2> QED
    BY <1>0, <1>2, <2>1 DEF StoreTranscript, RowsOK
<1> QED
  BY <1>1, <1>2
  DEF Next, Run, HandlerStep, Discover, BlacklistShort, Orphan, Reactivate, Dispatch, NextReset,
      Post, CrashWorker, AcceptComplete, AcceptFail, LosePost, InsertJob, MarkDownloading, Claim,
      Settle, Recover, Restart, Reclaim, Purge, epVars, vars

\* A move stores nothing, and a deletion takes the words with the row.
LEMMA MoveChunks ==
    ASSUME AdminInv, AdminMove, DeletedHasNoChunks PROVE DeletedHasNoChunks'
<1>0. RowsOK /\ calls \in SUBSET (Calls \cup AdminCalls)
  BY DEF AdminInv, AdminTypeOK
<1>1. ASSUME NEW c \in calls, DeleteEpisode(c) PROVE DeletedHasNoChunks'
  <2>1. c.ep \in Episodes
    BY <1>0, <1>1, AdminCallData DEF DeleteEpisode, EpisodeOps
  <2> QED
    BY <1>0, <1>1, <2>1 DEF DeleteEpisode, DeletedHasNoChunks, SetStatus, Exists, RowsOK, epVars
<1>2. ASSUME ~Deletes PROVE DeletedHasNoChunks'
  <2>1. \A e \in Episodes : Exists(e)' <=> Exists(e)
    BY <1>2, AdminMoveRows
  <2>2. ASSUME NEW c \in calls, ClearChunks(c)
        PROVE  \A e \in Episodes : transcript'[e] = "words" => transcript[e] = "words"
    <3>1. c.ep \in Episodes
      BY <1>0, <2>2, AdminCallData DEF ClearChunks
    <3> QED
      BY <1>0, <2>2, <3>1 DEF ClearChunks, RowsOK
  <2>3. \A e \in Episodes : transcript'[e] = "words" => transcript[e] = "words"
    BY <1>2, <2>2
    DEF AdminMove, AdminStep, StartEpisodeOp, QueueNow, StartUnblacklist, CancelJob,
        StartRetryJob, UndoFlag, UndoCancel, CancelLiveJob, ResetEpisode, QueueEpisode,
        FlagBlacklisted, Unflag, SnapshotEpisode, ReleaseEpisode, RequeueJob, RemarkEpisode,
        RestoreEpisode, Deletes, epVars
  <2> QED
    BY <2>1, <2>3 DEF DeletedHasNoChunks
<1> QED
  BY <1>1, <1>2 DEF Deletes

\* A result that is stored while its episode is deleted leaves nothing behind: the words
\* go with the row, and none are written without it.
THEOREM DeletedIsGone == AdminSpec => []DeletedHasNoChunks
<1>1. AdminInit => AdminInv /\ DeletedHasNoChunks
  BY AdminInitInv DEF AdminInit, Init, DeletedHasNoChunks
<1>2. ASSUME AdminInv, DeletedHasNoChunks, [AdminNext]_adminVars
      PROVE  (AdminInv /\ DeletedHasNoChunks)'
  <2>1. CASE Typed(AdminCalls) /\ [Next]_vars
    BY <1>2, <2>1, AdminForeign, NextKeepsRows, NextStores, AdminNextInv DEF DeletedHasNoChunks
  <2> QED
    BY <1>2, <2>1, AdminSteps, MoveChunks, AdminNextInv DEF AdminInv
<1>3. AdminInv /\ DeletedHasNoChunks /\ [AdminNext]_adminVars => (AdminInv /\ DeletedHasNoChunks)'
  BY <1>2
<1> QED
  BY <1>1, <1>3, PTL DEF AdminSpec

-----------------------------------------------------------------------------
(* Blacklisting.                                                           *)

\* A snapshot with the status has the flag.
Flagged(was) == was.status = "blacklisted" => was.blacklisted

\* What makes NoBlacklistLimbo inductive while no job is cancelled by hand: snapshots
\* that will be written back are flagged, and none is on its way back without its flag.
LimboInv ==
    /\ NoBlacklistLimbo
    /\ \A c \in calls : /\ c.at \notin {"snapshot", "release", "restore"}
                        /\ c.at \in {"cancel", "unflag"} \cup EpisodeOps => Flagged(c.was)
    /\ \A a \in audit : a.undo = "flag" /\ Flagged(a.was)

\* The queue writes the status with the flag, and never clears the flag.
LEMMA NextFlags ==
    ASSUME NEW X, Foreign(X), Typed(X), [Next]_vars, NoBlacklistLimbo PROVE NoBlacklistLimbo'
<1>0. RowsOK
  BY DEF Typed
<1>1. ASSUME UNCHANGED <<status, blacklisted>> PROVE NoBlacklistLimbo'
  BY <1>1 DEF NoBlacklistLimbo
<1>2. ASSUME NEW e \in Episodes, Discover(e) \/ BlacklistShort(e) \/ Orphan(e) \/ Reactivate(e)
      PROVE  NoBlacklistLimbo'
  BY <1>0, <1>2 DEF Discover, BlacklistShort, Orphan, Reactivate, NoBlacklistLimbo, RowsOK
<1>3. ASSUME NEW c \in calls, MarkDownloading(c) PROVE NoBlacklistLimbo'
  BY <1>0, <1>3 DEF MarkDownloading, SetStatus, NoBlacklistLimbo, RowsOK
<1>4. ASSUME NEW c \in calls, Settle(c) PROVE NoBlacklistLimbo'
  <2>1. c.ep \in Episodes
    BY <1>4, CallData DEF Settle, Typed
  <2> QED
    BY <1>0, <1>4, <2>1 DEF Settle, SetStatus, NoBlacklistLimbo, RowsOK
<1>5. ASSUME RecoverInterrupted, UNCHANGED blacklisted PROVE NoBlacklistLimbo'
  BY <1>0, <1>5 DEF RecoverInterrupted, NoBlacklistLimbo, RowsOK
<1> QED
  BY <1>1, <1>2, <1>3, <1>4, <1>5
  DEF Next, Run, HandlerStep, Dispatch, NextReset, Post, CrashWorker, AcceptComplete, AcceptFail,
      LosePost, InsertJob, Claim, StoreTranscript, Recover, Restart, Reclaim, Purge, epVars, vars

LEMMA NextLimbo ==
    ASSUME Typed(AdminCalls), [Next]_vars, UNCHANGED audit, LimboInv PROVE LimboInv'
<1>1. NoBlacklistLimbo'
  BY AdminForeign, NextFlags DEF LimboInv
<1>2. \A c \in calls' \ calls : /\ c.at \notin {"snapshot", "release", "restore"}
                                /\ c.at \notin {"cancel", "unflag"} \cup EpisodeOps
  BY AdminForeign, NextCalls DEF Statements, EpisodeOps
<1> QED
  BY <1>1, <1>2 DEF LimboInv, Flagged

\* Unblacklisting resets both, blacklisting keeps a status it did not write, and an undo
\* writes back what some state was.
LEMMA MoveLimbo ==
    ASSUME "cancel" \notin AdminOps, AdminInv, AdminMove, LimboInv PROVE LimboInv'
<1>0. RowsOK /\ calls \in SUBSET (Calls \cup AdminCalls) /\ audit \in SUBSET AuditRows
  BY DEF AdminInv, AdminTypeOK
<1>1. ASSUME UNCHANGED <<status, blacklisted, audit>>,
             NEW d, calls' \subseteq calls \cup {d},
             d.at \notin {"snapshot", "release", "restore"},
             d.at \in {"cancel", "unflag"} \cup EpisodeOps => Flagged(d.was)
      PROVE  LimboInv'
  BY <1>1 DEF LimboInv, NoBlacklistLimbo, Flagged
<1>2. ASSUME NEW e \in Episodes PROVE Flagged(Snapshot(e))
  BY DEF LimboInv, NoBlacklistLimbo, Flagged, Snapshot
<1>3. ASSUME NEW op \in AdminOps, NEW e \in Episodes, StartEpisodeOp(op, e) PROVE LimboInv'
  BY <1>1, <1>2, <1>3 DEF StartEpisodeOp, Begin, epVars
<1>4. ASSUME NEW c \in calls, CancelLiveJob(c) PROVE LimboInv'
  <2>1. c \in [at : {"cancel"} \cup EpisodeOps, op : EpisodeOps, ep : Episodes, was : Snapshots]
    BY <1>0, <1>4 DEF CancelLiveJob, Calls, AdminCalls, EpisodeOps
  <2>2. Flagged(c.was)
    BY <1>4 DEF CancelLiveJob, LimboInv
  <2>3. [c EXCEPT !.at = c.op].at \in EpisodeOps /\ [c EXCEPT !.at = c.op].was = c.was
    BY <2>1
  <2>4. [c EXCEPT !.at = c.op].at \notin {"snapshot", "release", "restore"}
    BY <2>3 DEF EpisodeOps
  <2> QED
    BY <1>1, <1>4, <2>2, <2>3, <2>4 DEF CancelLiveJob, Continue, epVars
<1>5. ASSUME NEW c \in calls, ResetEpisode(c) PROVE LimboInv'
  <2>1. NoBlacklistLimbo'
    BY <1>0, <1>5 DEF ResetEpisode, SetStatus, LimboInv, NoBlacklistLimbo, RowsOK
  <2>2. \A d \in calls' \ calls : d.at \in {"queue", "clear"}
    BY <1>5 DEF ResetEpisode, Continue
  <2> QED
    BY <1>5, <2>1, <2>2 DEF ResetEpisode, LimboInv, Flagged, EpisodeOps
<1>6. ASSUME NEW c \in calls, ClearChunks(c) \/ QueueEpisode(c) PROVE LimboInv'
  <2>1. \A d \in calls' \ calls : d.at \in {"queue", "insert"}
    BY <1>6 DEF ClearChunks, QueueEpisode, Continue, Return
  <2> QED
    BY <1>6, <2>1
    DEF ClearChunks, QueueEpisode, epVars, LimboInv, NoBlacklistLimbo, Flagged, EpisodeOps
<1>7. ASSUME NEW S \in SUBSET Episodes, QueueNow(S) PROVE LimboInv'
  BY <1>1, <1>7 DEF QueueNow, Begin, epVars, EpisodeOps
<1>8. ASSUME NEW e \in Episodes, StartUnblacklist(e) PROVE LimboInv'
  BY <1>1, <1>2, <1>8 DEF StartUnblacklist, Begin, epVars
<1>9. ASSUME NEW c \in calls, FlagBlacklisted(c) \/ Unflag(c) PROVE LimboInv'
  <2>1. c.ep \in Episodes /\ Flagged(c.was)
    BY <1>0, <1>9, AdminCallData DEF FlagBlacklisted, Unflag, LimboInv, EpisodeOps
  <2>2. NoBlacklistLimbo'
    BY <1>0, <1>9, <2>1
    DEF FlagBlacklisted, Unflag, SetStatus, Exists, LimboInv, NoBlacklistLimbo, RowsOK
  <2>3. audit' \subseteq audit \cup {[undo |-> "flag", ep |-> c.ep, was |-> c.was]}
    BY <1>9 DEF FlagBlacklisted, Unflag, Record
  <2> QED
    BY <1>9, <2>1, <2>2, <2>3 DEF FlagBlacklisted, Unflag, Return, LimboInv, Flagged
<1>10. ASSUME NEW c \in calls, DeleteEpisode(c) \/ RemarkEpisode(c) PROVE LimboInv'
  <2>1. NoBlacklistLimbo'
    BY <1>0, <1>10
    DEF DeleteEpisode, RemarkEpisode, SetStatus, epVars, LimboInv, NoBlacklistLimbo, RowsOK
  <2> QED
    BY <1>10, <2>1 DEF DeleteEpisode, RemarkEpisode, Return, LimboInv, Flagged
<1>11. ASSUME NEW j \in Jobs, CancelJob(j) \/ StartRetryJob(j) PROVE LimboInv'
  BY <1>1, <1>11 DEF CancelJob, StartRetryJob, Begin, epVars, EpisodeOps
<1>12. ASSUME NEW c \in calls, RequeueJob(c) PROVE LimboInv'
  <2>1. calls' \subseteq calls \cup {[at |-> "remark", job |-> c.job]}
    BY <1>12 DEF RequeueJob, Return, Continue
  <2> QED
    BY <1>1, <1>12, <2>1 DEF RequeueJob, epVars, EpisodeOps
<1>13. ASSUME NEW a \in audit, UndoFlag(a) PROVE LimboInv'
  <2>1. a.ep \in Episodes /\ Flagged(a.was)
    BY <1>0, <1>13 DEF UndoFlag, AuditRows, LimboInv
  <2>2. NoBlacklistLimbo'
    BY <1>0, <1>13, <2>1 DEF UndoFlag, SetStatus, Exists, Flagged, LimboInv, NoBlacklistLimbo, RowsOK
  <2> QED
    BY <1>13, <2>2 DEF UndoFlag, LimboInv, Flagged
<1>14. \A c \in calls : ~SnapshotEpisode(c) /\ ~ReleaseEpisode(c) /\ ~RestoreEpisode(c)
  BY DEF SnapshotEpisode, ReleaseEpisode, RestoreEpisode, LimboInv
<1>15. \A a \in audit : ~UndoCancel(a)
  BY DEF UndoCancel, LimboInv
<1> QED
  BY <1>3, <1>4, <1>5, <1>6, <1>7, <1>8, <1>9, <1>10, <1>11, <1>12, <1>13, <1>14, <1>15
  DEF AdminMove, AdminStep

\* As long as no job is cancelled by hand, whose undo writes the status back without the
\* flag, no episode is left blacklisted in its status alone.
THEOREM NobodyInLimbo ==
    ASSUME "cancel" \notin AdminOps PROVE AdminSpec => []NoBlacklistLimbo
<1>1. AdminInit => AdminInv /\ LimboInv
  BY AdminInitInv DEF AdminInit, Init, LimboInv, NoBlacklistLimbo
<1>2. ASSUME AdminInv, LimboInv, [AdminNext]_adminVars PROVE (AdminInv /\ LimboInv)'
  BY <1>2, AdminSteps, NextLimbo, MoveLimbo, AdminNextInv DEF AdminInv
<1>3. AdminInv /\ LimboInv /\ [AdminNext]_adminVars => (AdminInv /\ LimboInv)'
  BY <1>2
<1>4. LimboInv => NoBlacklistLimbo
  BY DEF LimboInv
<1> QED
  BY <1>1, <1>3, <1>4, PTL DEF AdminSpec

-----------------------------------------------------------------------------
(* The queue that the jobs table is, with an administrator at it.          *)

\* A deletion nulls jobs.episode_id of the jobs of the episode.
LEMMA DeletionForgets ==
    ASSUME AdminInv, NEW c \in calls, DeleteEpisode(c)
    PROVE  [Queue!QueueNext]_(Queue!queueVars)
<1>0. RowsOK /\ c.ep \in Episodes
  BY AdminCallData DEF DeleteEpisode, AdminInv, AdminTypeOK, EpisodeOps
<1>1. UNCHANGED jobVars
  BY DEF DeleteEpisode
<1>2. CASE UNCHANGED status
  <2>1. UNCHANGED EpisodeId
    BY <1>0, <1>1, <1>2, EpisodeIdKept DEF Exists, jobVars
  <2> QED
    BY <1>1, <2>1 DEF jobVars, Answered, Queue!queueVars
<1>3. CASE SetStatus(c.ep, "gone")
  <2>1. ASSUME NEW j \in Jobs
        PROVE  EpisodeId'[j] = IF EpisodeId[j] = c.ep THEN NoEpisode ELSE EpisodeId[j]
    <3>1. CASE jobStatus[j] \in {"absent", "purged"}
      BY <1>0, <1>1, <3>1, IdsAssumption DEF EpisodeId, jobVars
    <3>2. CASE jobStatus[j] \notin {"absent", "purged"}
      <4>1. target[j] \in Episodes
        BY <1>0, <3>2 DEF RowsOK
      <4>2. status'[target[j]] \notin {"absent", "gone"} <=> target[j] # c.ep /\ Exists(target[j])
        BY <1>0, <1>3, <4>1 DEF SetStatus, Exists, RowsOK
      <4> QED
        BY <1>0, <1>1, <3>2, <4>1, <4>2, IdsAssumption DEF EpisodeId, Exists, jobVars
    <3> QED
      BY <3>1, <3>2
  <2>2. EpisodeId' = [j \in Jobs |-> IF EpisodeId[j] = c.ep THEN NoEpisode ELSE EpisodeId[j]]
    BY <2>1 DEF EpisodeId
  <2>3. Queue!Forget(c.ep)
    BY <1>1, <2>2 DEF Queue!Forget, jobVars, Answered
  <2> QED
    BY <1>0, <2>3 DEF Queue!QueueNext
<1> QED
  BY <1>2, <1>3 DEF DeleteEpisode, epVars

\* The index lets a job back on the queue only when no other has its place.
LEMMA RequeueRevives ==
    ASSUME RowsOK, NEW j \in Jobs, jobStatus[j] # "absent", ~Refused(j), Requeue(j), UNCHANGED status
    PROVE  [Queue!QueueNext]_(Queue!queueVars)
<1>1. CASE jobStatus[j] = "purged"
  <2>1. UNCHANGED jobStatus
    BY <1>1 DEF Requeue, SetJobs, RowsOK
  <2>2. UNCHANGED EpisodeId
    BY <2>1, EpisodeIdKept DEF Requeue, SetJobs, Exists
  <2> QED
    BY <2>1, <2>2 DEF Requeue, SetJobs, Answered, Queue!queueVars
<1>2. CASE jobStatus[j] # "purged"
  <2> DEFINE S == {j} \ {i \in Jobs : jobStatus[i] = "purged"}
  <2>1. S = {j} /\ S \in SUBSET Jobs
    BY <1>2
  <2>2. SetJobs({j}, "pending")
    BY <2>1 DEF Requeue
  <2>3. jobStatus[j] \in {"pending", "claimed", "completed", "failed"}
    BY <1>2 DEF RowsOK, JobStatuses
  <2>4. UNCHANGED EpisodeId
    BY <2>2, <2>3, SetJobsKeeps
  <2>5. Queue!Move({j}, {"pending", "claimed", "completed", "failed"}, "pending")
    BY <2>2, <2>3, SetJobsMoves
  <2>6. EpisodeId[j] \in Episodes => Queue!UnderWay(EpisodeId[j]) \subseteq {j}
    <3>1. EpisodeId[j] \in Episodes => EpisodeId[j] = target[j]
      BY IdsAssumption DEF EpisodeId
    <3> QED
      BY <1>2, <3>1, UnderWayIsLive DEF Refused
  <2>7. Queue!Revive(j)
    BY <2>4, <2>5, <2>6 DEF Queue!Revive
  <2> QED
    BY <2>7 DEF Queue!QueueNext
<1> QED
  BY <1>1, <1>2

\* An administrator withdraws jobs, revives one or deletes an episode.
LEMMA MoveIsQueueStep ==
    ASSUME AdminInv, AdminMove
    PROVE  [Queue!QueueNext]_(Queue!queueVars)
<1>0. RowsOK
  BY DEF AdminInv, AdminTypeOK
<1>1. CASE Deletes
  BY <1>1, DeletionForgets DEF Deletes
<1>2. CASE ~Deletes
  <2>1. \A e \in Episodes : Exists(e)' <=> Exists(e)
    BY <1>2, AdminMoveRows
  <2>2. CASE UNCHANGED jobVars
    BY <1>0, <2>1, <2>2, EpisodeIdKept DEF jobVars, Answered, Queue!queueVars
  <2>3. ASSUME NEW S \in SUBSET Jobs, \A j \in S : jobStatus[j] \in Live, SetJobs(S, "failed")
        PROVE  [Queue!QueueNext]_(Queue!queueVars)
    <3>1. UNCHANGED EpisodeId
      BY <1>0, <2>1, <2>3, EpisodeIdKept DEF SetJobs
    <3>2. Queue!Move(S, {"pending", "claimed"}, "failed")
      BY <1>0, <2>3, SetJobsMoves
    <3>3. Queue!Withdraw(S)
      BY <3>1, <3>2 DEF Queue!Withdraw
    <3> QED
      BY <3>3 DEF Queue!QueueNext
  <2> QED
    BY <1>0, <2>2, <2>3, MoveJobs, RequeueRevives
<1> QED
  BY <1>1, <1>2

\* With administrators who cancel, retry, requeue, undo and delete, the jobs table is
\* still an atomic queue.
THEOREM AdminJobsAreAQueue == AdminSpec => ImplementsWorkQueue
<1>1. ASSUME AdminInv, [AdminNext]_adminVars PROVE [Queue!QueueNext]_(Queue!queueVars)
  <2>1. AdminTypeOK /\ QueueInv
    BY <1>1 DEF AdminInv
  <2> QED
    BY <1>1, <2>1, AdminForeign, AdminSteps, WorkNext, MoveIsQueueStep
<1>2. AdminInit => Queue!QueueInit
  BY WorkInit DEF AdminInit
<1> QED
  BY <1>1, <1>2, AdminInitInv, AdminNextInv, PTL DEF AdminSpec, ImplementsWorkQueue, Queue!QueueSpec

=============================================================================
