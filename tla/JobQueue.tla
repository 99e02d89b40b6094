------------------------------ MODULE JobQueue ------------------------------
(***************************************************************************)
(* The process-job queue of palpal-conductor and the lifecycle of the      *)
(* episodes its jobs work on, as the system runs by itself (pipeline.py,   *)
(* the worker endpoints of main.py, the jobs table of migrations 033, 037  *)
(* and 040).  AdminQueue adds what an administrator does to them.          *)
(*                                                                         *)
(* Every SQL statement of a handler commits on its own, and the asyncio    *)
(* conductor may run any other handler while one awaits the next.  A       *)
(* handler that has statements left is a record of "calls", whose field at *)
(* names the next statement; one action runs one statement.                *)
(*                                                                         *)
(* Left to other modules: which pending job is claimed and the pause gate  *)
(* (ClaimGate); here a claim may take any pending job, or none.  A result  *)
(* of discovery is an arbitrary list of entries, so each of its statements *)
(* is an action of its own; untitled episodes, never eligible, are left    *)
(* out.                                                                    *)
(***************************************************************************)
EXTENDS Integers, Sequences, FiniteSets

CONSTANTS
    Episodes,     \* ids of the episode rows a history may contain
    Jobs,         \* ids of the job rows a history may contain
    Workers,      \* blurb workers, each with its X-Worker-ID
    NoEpisode,    \* the target of a job not created yet
    NoWorker,     \* claimed_by_worker IS NULL
    Idle,         \* a worker without a job
    EnvOps,       \* which of "rediscovery", "crash" and "purge" happen here
    MaxAttempts,  \* bound: claims of one job
    MaxCalls,     \* bound: handlers suspended at the same time
    MaxPosts      \* bound: results on their way at the same time

ASSUME IdsAssumption == /\ NoEpisode \notin Episodes
                        /\ NoWorker \notin Workers
                        /\ MaxAttempts \in Nat
                        /\ MaxCalls \in Nat
                        /\ MaxPosts \in Nat

ASSUME IdleAssumption == \A j \in Jobs, n \in 1..MaxAttempts : Idle # [job |-> j, attempt |-> n]

VARIABLES
    jobStatus,    \* jobs.status; "absent" before the INSERT, "purged" after the DELETE
    target,       \* the episode_id of the payload
    attempts,     \* jobs.attempts, counted by trigger jobs_track_lifecycle
    claimedBy,    \* jobs.claimed_by_worker, kept only while the job is claimed
    answers,      \* history: for each job, the attempts whose result was accepted
    status,       \* episodes.status; "absent" and "gone" around the row's life
    blacklisted,  \* episodes.blacklisted
    transcript,   \* what the last process_transcript of each episode left: "words" is
                  \* rows of transcript_chunks; "silent", committed without a word,
                  \* and "none" are both no rows
    calls,        \* suspended handlers of the conductor process
    holding,      \* what each blurb worker is working on
    lapsed,       \* history: the workers whose present claim the sweep has taken back
    posts         \* /complete and /fail requests on their way

jobVars    == <<jobStatus, target, attempts, claimedBy, answers>>
epVars     == <<status, blacklisted, transcript>>
workerVars == <<holding, posts, lapsed>>
vars       == <<jobVars, epVars, workerVars, calls>>

Live     == {"pending", "claimed"}
Finished == {"completed", "failed"}

\* A transcript has words, or it has segments and not a word.
Heard == {"words", "silent"}

\* What blurb reports: a transcript, or the error_type of a failure, and the
\* episode status that the handler of a failure then writes.
ErrorOutcome == [error        |-> "failed",
                 too_short    |-> "blacklisted",
                 rate_limited |-> "discovered"]
Outcomes == Heard \cup DOMAIN ErrorOutcome

Exists(e) == status[e] \notin {"absent", "gone"}

\* Mutant of LiveJobs: the unique index covers pending jobs only.
LiveJobsMutant(e) == {j \in Jobs : jobStatus[j] = "pending" /\ target[j] = e /\ Exists(e)}

\* jobs.episode_id is ON DELETE SET NULL: no query finds the jobs of a deleted
\* episode through it.
LiveJobs(e) == {j \in Jobs : jobStatus[j] \in Live /\ target[j] = e /\ Exists(e)}

Eligible(e) == status[e] = "discovered" /\ ~blacklisted[e] /\ LiveJobs(e) = {}

-----------------------------------------------------------------------------
(* Statements shared by several handlers.                                  *)

SetStatus(e, s) ==
    status' = [status EXCEPT ![e] = IF Exists(e) THEN s ELSE @]

SetJobs(S, s) ==
    /\ jobStatus' = [j \in Jobs |-> IF j \in S THEN s ELSE jobStatus[j]]
    /\ claimedBy' = [j \in Jobs |-> IF j \in S THEN NoWorker ELSE claimedBy[j]]
    /\ UNCHANGED <<target, attempts, answers>>

\* Two handlers alike in every field are one record: a bound on the instance, like
\* MaxCalls, since the other would repeat the same writes later.
Begin(c)       == Cardinality(calls) < MaxCalls /\ calls' = calls \cup {c}
Continue(c, d) == calls' = (calls \ {c}) \cup {d}
Return(c)      == calls' = calls \ {c}

\* The rest of _enqueue_process_jobs once some of its rows are dealt with.
NextRow(c, rows) ==
    IF rows = {} THEN Return(c)
    ELSE Continue(c, [at |-> "insert", by |-> c.by, rows |-> rows])

-----------------------------------------------------------------------------
(* Discovery: the statements of apply_discovery_results.                   *)

\* A listed video gets a row, blacklisted when it is known to be too short.
Discover(e) ==
    /\ status[e] = "absent"
    /\ \E short \in BOOLEAN :
        /\ status' = [status EXCEPT ![e] = IF short THEN "blacklisted" ELSE "discovered"]
        /\ blacklisted' = [blacklisted EXCEPT ![e] = short]
    /\ UNCHANGED <<jobVars, transcript, workerVars, calls>>

\* An existing row is now known to be too short.
BlacklistShort(e) ==
    /\ "rediscovery" \in EnvOps
    /\ Exists(e) /\ ~blacklisted[e] /\ status[e] \notin {"processed", "downloading"}
    /\ status' = [status EXCEPT ![e] = "blacklisted"]
    /\ blacklisted' = [blacklisted EXCEPT ![e] = TRUE]
    /\ UNCHANGED <<jobVars, transcript, workerVars, calls>>

\* The source lists the video no longer.
Orphan(e) ==
    /\ "rediscovery" \in EnvOps
    /\ Exists(e) /\ ~blacklisted[e] /\ status[e] \notin {"downloading", "orphaned"}
    /\ status' = [status EXCEPT ![e] = "orphaned"]
    /\ UNCHANGED <<jobVars, blacklisted, transcript, workerVars, calls>>

\* Mutant of Reactivate: every orphan comes back as processed.
ReactivateMutant(e) ==
    /\ status[e] = "orphaned"
    /\ status' = [status EXCEPT ![e] = "processed"]
    /\ UNCHANGED <<jobVars, blacklisted, transcript, workerVars, calls>>

\* It lists an orphaned video again.
Reactivate(e) ==
    /\ status[e] = "orphaned"
    /\ status' = [status EXCEPT ![e] = IF transcript[e] = "words" THEN "processed" ELSE "discovered"]
    /\ UNCHANGED <<jobVars, blacklisted, transcript, workerVars, calls>>

-----------------------------------------------------------------------------
(* Dispatch: discovered episodes become pending jobs.                      *)

\* Mutant of Dispatch: an episode that ever had a job is not selected again.
DispatchMutant ==
    /\ \A c \in calls : c.at \in {"insert", "mark"} => c.by # "dispatcher"
    /\ LET rows == {e \in Episodes : Eligible(e) /\ \A j \in Jobs : target[j] # e}
       IN  rows # {} /\ Begin([at |-> "insert", by |-> "dispatcher", rows |-> rows])
    /\ UNCHANGED <<jobVars, epVars, workerVars>>

\* sync_process_jobs selects its rows; only the one dispatch_worker task runs it.
Dispatch ==
    /\ \A c \in calls : c.at \in {"insert", "mark"} => c.by # "dispatcher"
    /\ LET rows == {e \in Episodes : Eligible(e)}
       IN  rows # {} /\ Begin([at |-> "insert", by |-> "dispatcher", rows |-> rows])
    /\ UNCHANGED <<jobVars, epVars, workerVars>>

\* _create_job for one row.  The unique index skips the row, the foreign key of
\* a deleted episode raises out of the loop.
InsertJob(c) ==
    /\ c.at = "insert"
    /\ \E e \in c.rows :
        \/ /\ ~Exists(e)
           /\ Return(c)
           /\ UNCHANGED jobVars
        \/ /\ LiveJobs(e) # {}
           /\ NextRow(c, c.rows \ {e})
           /\ UNCHANGED jobVars
        \/ /\ Exists(e) /\ LiveJobs(e) = {}
           /\ \E j \in Jobs :
                /\ jobStatus[j] = "absent"
                /\ jobStatus' = [jobStatus EXCEPT ![j] = "pending"]
                /\ target' = [target EXCEPT ![j] = e]
                /\ UNCHANGED <<attempts, claimedBy, answers>>
           /\ Continue(c, [at |-> "mark", by |-> c.by, rows |-> c.rows \ {e}, ep |-> e])
    /\ UNCHANGED <<epVars, workerVars>>

\* The UPDATE that follows a row's INSERT.
MarkDownloading(c) ==
    /\ c.at = "mark"
    /\ SetStatus(c.ep, "downloading")
    /\ NextRow(c, c.rows)
    /\ UNCHANGED <<jobVars, blacklisted, transcript, workerVars>>

-----------------------------------------------------------------------------
(* Workers: claim, work, report.                                           *)

\* Mutant of NextReset: without AND claimed_by_worker = $1.
NextResetMutant(w) ==
    /\ holding[w] = Idle
    /\ ~\E c \in calls : c.at = "claim" /\ c.worker = w
    /\ SetJobs({j \in Jobs : jobStatus[j] = "claimed"}, "pending")
    /\ Begin([at |-> "claim", worker |-> w])
    /\ UNCHANGED <<epVars, workerVars>>

\* First statement of GET /worker/jobs/next: the worker's own claims go back.
NextReset(w) ==
    /\ holding[w] = Idle
    /\ ~\E c \in calls : c.at = "claim" /\ c.worker = w
    /\ SetJobs({j \in Jobs : jobStatus[j] = "claimed" /\ claimedBy[j] = w}, "pending")
    /\ Begin([at |-> "claim", worker |-> w])
    /\ UNCHANGED <<epVars, workerVars>>

\* Its second statement takes a pending job; the response may never arrive.
Claim(c) ==
    /\ c.at = "claim"
    /\ \/ UNCHANGED <<jobVars, holding>>
       \/ \E j \in Jobs :
            /\ jobStatus[j] = "pending" /\ attempts[j] < MaxAttempts
            /\ jobStatus' = [jobStatus EXCEPT ![j] = "claimed"]
            /\ claimedBy' = [claimedBy EXCEPT ![j] = c.worker]
            /\ attempts' = [attempts EXCEPT ![j] = @ + 1]
            /\ \/ holding' = [holding EXCEPT ![c.worker] =
                                [job |-> j, attempt |-> attempts[j] + 1]]
               \/ UNCHANGED holding
            /\ UNCHANGED <<target, answers>>
    /\ Return(c)
    /\ UNCHANGED <<epVars, posts, lapsed>>

\* blurb finishes its job, one way or another, and posts the result.
Post(w) ==
    /\ holding[w] # Idle
    /\ Cardinality(posts) < MaxPosts
    /\ \E o \in Outcomes :
        posts' = posts \cup {[job |-> holding[w].job, attempt |-> holding[w].attempt,
                              outcome |-> o]}
    /\ holding' = [holding EXCEPT ![w] = Idle]
    /\ lapsed' = lapsed \ {w}
    /\ UNCHANGED <<jobVars, epVars, calls>>

\* blurb restarts and forgets its job.
CrashWorker(w) ==
    /\ "crash" \in EnvOps
    /\ holding[w] # Idle
    /\ holding' = [holding EXCEPT ![w] = Idle]
    /\ lapsed' = lapsed \ {w}
    /\ UNCHANGED <<jobVars, epVars, posts, calls>>

\* A request arrives and leaves the network, or its response is lost and blurb
\* sends it again.
Delivered(p) == posts' = posts \ {p} \/ UNCHANGED posts

LosePost(p) ==
    /\ posts' = posts \ {p}
    /\ UNCHANGED <<jobVars, epVars, holding, lapsed, calls>>

\* Mutant of Answer: without AND status = 'claimed'.
AnswerMutant(p, s) ==
    /\ jobStatus[p.job] # "purged"
    /\ jobStatus' = [jobStatus EXCEPT ![p.job] = s]
    /\ claimedBy' = [claimedBy EXCEPT ![p.job] = NoWorker]
    /\ answers' = [answers EXCEPT ![p.job] = Append(@, p.attempt)]
    /\ UNCHANGED <<target, attempts>>

\* The guarded UPDATE of both result endpoints.
Answer(p, s) ==
    /\ jobStatus[p.job] = "claimed"
    /\ jobStatus' = [jobStatus EXCEPT ![p.job] = s]
    /\ claimedBy' = [claimedBy EXCEPT ![p.job] = NoWorker]
    /\ answers' = [answers EXCEPT ![p.job] = Append(@, p.attempt)]
    /\ UNCHANGED <<target, attempts>>

AcceptComplete(p) ==
    /\ p.outcome \in Heard
    /\ Answer(p, "completed")
    /\ Delivered(p)
    /\ Begin([at |-> "store", ep |-> target[p.job], heard |-> p.outcome])
    /\ UNCHANGED <<epVars, holding, lapsed>>

AcceptFail(p) ==
    /\ p.outcome \notin Heard
    /\ Answer(p, "failed")
    /\ Delivered(p)
    /\ Begin([at |-> "settle", ep |-> target[p.job], to |-> ErrorOutcome[p.outcome]])
    /\ UNCHANGED <<epVars, holding, lapsed>>

\* process_transcript: it may raise before or after its transaction commits.
StoreTranscript(c) ==
    /\ c.at = "store"
    /\ \E to \in {"processed", "failed"} :
        /\ Continue(c, [at |-> "settle", ep |-> c.ep, to |-> to])
        /\ \/ Exists(c.ep) /\ transcript' = [transcript EXCEPT ![c.ep] = c.heard]
           \/ to = "failed" /\ UNCHANGED transcript
    /\ UNCHANGED <<jobVars, status, blacklisted, workerVars>>

\* The status a finished job leaves its episode in.
Settle(c) ==
    /\ c.at = "settle"
    /\ SetStatus(c.ep, c.to)
    /\ blacklisted' = [blacklisted EXCEPT ![c.ep] =
                         @ \/ (c.to = "blacklisted" /\ Exists(c.ep))]
    /\ Return(c)
    /\ UNCHANGED <<jobVars, transcript, workerVars>>

-----------------------------------------------------------------------------
(* Recovery.                                                               *)

Stuck(e) == status[e] = "downloading" /\ ~blacklisted[e] /\ LiveJobs(e) = {}

\* Mutant of RecoverInterrupted: any job row, finished or not, keeps the episode.
RecoverMutant ==
    status' = [e \in Episodes |->
                 IF Stuck(e) /\ \A j \in Jobs : target[j] # e THEN "discovered" ELSE status[e]]

RecoverInterrupted ==
    status' = [e \in Episodes |-> IF Stuck(e) THEN "discovered" ELSE status[e]]

\* Mutant of Reclaim: it only resets episodes.
ReclaimMutant(S) ==
    /\ ~\E c \in calls : c.at = "recover"
    /\ \A j \in S : jobStatus[j] = "claimed"
    /\ Begin([at |-> "recover"])
    /\ UNCHANGED <<jobVars, epVars, workerVars>>

\* reclaim_stuck_jobs, its first statement: the jobs claimed more than two hours ago go back, whether
\* their worker is dead or slow.
Reclaim(S) ==
    /\ ~\E c \in calls : c.at = "recover"
    /\ \A j \in S : jobStatus[j] = "claimed"
    /\ SetJobs(S, "pending")
    /\ lapsed' = lapsed \cup {w \in Workers : holding[w] # Idle /\ holding[w].job \in S}
    /\ Begin([at |-> "recover"])
    /\ UNCHANGED <<epVars, holding, posts>>

Recover(c) ==
    /\ c.at = "recover"
    /\ RecoverInterrupted
    /\ Return(c)
    /\ UNCHANGED <<jobVars, blacklisted, transcript, workerVars>>

\* The conductor dies, with every suspended handler, and starts again.
Restart ==
    /\ calls' = {}
    /\ RecoverInterrupted
    /\ UNCHANGED <<jobVars, blacklisted, transcript, workerVars>>


\* Retention deletes the finished jobs that are old enough.
Purge(S) ==
    /\ "purge" \in EnvOps
    /\ S # {} /\ \A j \in S : jobStatus[j] \in Finished
    /\ SetJobs(S, "purged")
    /\ UNCHANGED <<epVars, workerVars, calls>>

-----------------------------------------------------------------------------

Init ==
    /\ jobStatus = [j \in Jobs |-> "absent"]
    /\ target = [j \in Jobs |-> NoEpisode]
    /\ attempts = [j \in Jobs |-> 0]
    /\ claimedBy = [j \in Jobs |-> NoWorker]
    /\ answers = [j \in Jobs |-> <<>>]
    /\ status = [e \in Episodes |-> "absent"]
    /\ blacklisted = [e \in Episodes |-> FALSE]
    /\ transcript = [e \in Episodes |-> "none"]
    /\ calls = {}
    /\ holding = [w \in Workers |-> Idle]
    /\ posts = {}
    /\ lapsed = {}

HandlerStep(c) ==
    \/ InsertJob(c) \/ MarkDownloading(c) \/ Claim(c)
    \/ StoreTranscript(c) \/ Settle(c) \/ Recover(c)

\* What happens while the conductor is up.
Run ==
    \/ \E e \in Episodes : Discover(e) \/ BlacklistShort(e) \/ Orphan(e) \/ Reactivate(e)
    \/ Dispatch
    \/ \E w \in Workers : NextReset(w) \/ Post(w) \/ CrashWorker(w)
    \/ \E p \in posts : AcceptComplete(p) \/ AcceptFail(p) \/ LosePost(p)
    \/ \E c \in calls : HandlerStep(c)
    \/ \E S \in SUBSET Jobs : Reclaim(S) \/ Purge(S)

Next == Run \/ Restart

Spec == Init /\ [][Next]_vars

-----------------------------------------------------------------------------
(* Properties.                                                             *)

JobStatuses == {"absent", "purged"} \cup Live \cup Finished
EpisodeStatuses == {"absent", "gone", "discovered", "downloading", "processed",
                    "failed", "blacklisted", "orphaned"}
Claims == [job : Jobs, attempt : 1..MaxAttempts]
Calls ==
    [at : {"insert"}, by : {"dispatcher", "admin"}, rows : SUBSET Episodes]
    \cup [at : {"mark"}, by : {"dispatcher", "admin"}, rows : SUBSET Episodes, ep : Episodes]
    \cup [at : {"claim"}, worker : Workers]
    \cup [at : {"store"}, ep : Episodes, heard : Heard]
    \cup [at : {"settle"}, ep : Episodes, to : EpisodeStatuses \ {"absent", "gone"}]
    \cup [at : {"recover"}]

RowsOK ==
    /\ jobStatus \in [Jobs -> JobStatuses]
    /\ target \in [Jobs -> Episodes \cup {NoEpisode}]
    /\ \A j \in Jobs : jobStatus[j] # "absent" => target[j] \in Episodes
    /\ attempts \in [Jobs -> 0..MaxAttempts]
    /\ claimedBy \in [Jobs -> Workers \cup {NoWorker}]
    /\ answers \in [Jobs -> Seq(1..MaxAttempts)]
    /\ status \in [Episodes -> EpisodeStatuses]
    /\ blacklisted \in [Episodes -> BOOLEAN]
    /\ transcript \in [Episodes -> {"none"} \cup Heard]
    /\ holding \in [Workers -> Claims \cup {Idle}]
    /\ posts \in SUBSET [job : Jobs, attempt : 1..MaxAttempts, outcome : Outcomes]
    /\ lapsed \in SUBSET Workers

\* Every column holds a value its constraint allows, a created job names an
\* episode, and a suspended handler has the data its next statement needs.
TypeOK == RowsOK /\ calls \in SUBSET Calls

\* jobs_one_active_process_per_episode (migration 037): however dispatch, sweeps,
\* admin actions and discovery interleave, two live jobs never work on one episode.
OneLiveJobPerEpisode ==
    \A i, j \in Jobs : jobStatus[i] \in Live /\ jobStatus[j] \in Live
                       /\ target[i] = target[j] /\ Exists(target[i]) => i = j

\* The row a job was created for is not created later: only deleted, if at all.
JobTargetsExist ==
    \A j \in Jobs : jobStatus[j] # "absent" => status[target[j]] # "absent"

\* A claim gets at most one answer: with results posted twice, late or after a
\* reset, the conductor never applies more results to a job than it was claimed.
AnsweredOncePerClaim ==
    \A j \in Jobs :
        Len(answers[j]) + (IF jobStatus[j] = "claimed" THEN 1 ELSE 0) <= attempts[j]

AtWork(w) == holding[w] # Idle /\ w \notin lapsed

\* Polls, lost responses, repeated results, crashes and purges never put a second
\* worker on a job: only the two-hour sweep does (reclaim_stuck_jobs), for a worker
\* that is slow and not dead.
OneWorkerPerJob ==
    \A v, w \in Workers : AtWork(v) /\ AtWork(w) /\ holding[v].job = holding[w].job => v = w

\* What makes OneWorkerPerJob inductive: such a worker's job is not on the queue, and
\* its row names the worker for as long as the claim is unanswered.
WorkersKeepJobs ==
    \A w \in Workers : AtWork(w) =>
        /\ jobStatus[holding[w].job] \notin {"absent", "pending"}
        /\ jobStatus[holding[w].job] = "claimed" => claimedBy[holding[w].job] = w

\* 'processed' is written only after a transcript is stored, on completion as on
\* reactivation of an orphan.
ProcessedHasTranscript ==
    \A e \in Episodes : status[e] = "processed" => transcript[e] # "none"

\* What makes it inductive: a handler about to write 'processed' has stored them.
ProcessedIsStored ==
    \A c \in calls : c.at = "settle" /\ c.to = "processed" => transcript[c.ep] # "none"

\* The job rows as the abstract queue sees them: jobs.episode_id while there is a
\* row and its episode, and the number of results accepted.
EpisodeId == [j \in Jobs |->
    IF jobStatus[j] \notin {"absent", "purged"} /\ Exists(target[j]) THEN target[j] ELSE NoEpisode]
Answered == [j \in Jobs |-> Len(answers[j])]

Queue == INSTANCE WorkQueue
         WITH state <- jobStatus, episode <- EpisodeId, taken <- attempts, answered <- Answered

\* The handlers, statement by statement and however they interleave, implement
\* an atomic queue: every statement is one of its steps, or none.
ImplementsWorkQueue == Queue!QueueSpec

\* The guard of both result endpoints (main.py, "the result is stale and can be
\* discarded"): a result is accepted only from the claim that is current.  It does
\* not hold (README, "Statements that do not hold").
StaleResultsDiscarded ==
    [][\A j \in Jobs : Len(answers'[j]) > Len(answers[j]) =>
            answers'[j][Len(answers'[j])] = attempts[j]]_vars

=============================================================================
