--------------------------- MODULE JobQueue_proofs ---------------------------
(* Machine-checked theorems about JobQueue, for every set of episodes,      *)
(* jobs and workers and every bound.                                        *)
EXTENDS JobQueue, TLAPS

USE DEF Live, Finished

-----------------------------------------------------------------------------
(* What the shared statements do to the types.  The lemmas about a step of  *)
(* Next allow other handlers, X, to be suspended beside those of JobQueue:  *)
(* AdminQueue_proofs uses them with the administrator's.                    *)

Statements == {"insert", "mark", "claim", "store", "settle", "recover"}
Foreign(X) == \A c \in X : c.at \notin Statements
Typed(X) == RowsOK /\ calls \in SUBSET (Calls \cup X)

\* Setting the status of existing job rows keeps the columns typed.
LEMMA SetJobsType ==
    ASSUME RowsOK, NEW S \in SUBSET Jobs, NEW s \in JobStatuses \ {"absent"},
           \A j \in S : jobStatus[j] # "absent", SetJobs(S, s)
    PROVE  /\ jobStatus' \in [Jobs -> JobStatuses]
           /\ target' = target /\ attempts' = attempts /\ answers' = answers
           /\ claimedBy' \in [Jobs -> Workers \cup {NoWorker}]
           /\ \A j \in Jobs : jobStatus'[j] # "absent" => target[j] \in Episodes
BY DEF RowsOK, SetJobs

\* So does setting the status of an episode.
LEMMA SetStatusType ==
    ASSUME RowsOK, NEW e \in Episodes, NEW s \in EpisodeStatuses, SetStatus(e, s)
    PROVE  status' \in [Episodes -> EpisodeStatuses]
BY DEF RowsOK, SetStatus

\* The records a handler leaves behind are calls.
LEMMA NextRowType ==
    ASSUME NEW X, calls \in SUBSET (Calls \cup X), NEW c \in calls,
           c.by \in {"dispatcher", "admin"}, NEW rows \in SUBSET Episodes, NextRow(c, rows)
    PROVE  calls' \in SUBSET (Calls \cup X)
<1>1. [at |-> "insert", by |-> c.by, rows |-> rows] \in Calls
  BY DEF Calls
<1>2. QED
  BY <1>1 DEF NextRow, Return, Continue

\* A call of each kind carries the data of its kind.
LEMMA CallData ==
    ASSUME NEW X, Foreign(X), NEW c \in Calls \cup X
    PROVE  /\ c.at = "insert" => c.rows \in SUBSET Episodes /\ c.by \in {"dispatcher", "admin"}
           /\ c.at = "mark" => /\ c.rows \in SUBSET Episodes
                               /\ c.by \in {"dispatcher", "admin"}
                               /\ c.ep \in Episodes
           /\ c.at = "claim" => c.worker \in Workers
           /\ c.at = "store" => c.ep \in Episodes /\ c.heard \in Heard
           /\ c.at = "settle" => /\ c.ep \in Episodes
                                 /\ c.to \in EpisodeStatuses \ {"absent", "gone"}
<1>1. CASE c \in X
  BY <1>1 DEF Foreign, Statements
<1>2. CASE c \in Calls
  BY <1>2 DEF Calls
<1> QED
  BY <1>1, <1>2

\* The statuses a failure leads to are statuses.
LEMMA ErrorOutcomeType ==
    ASSUME NEW o \in Outcomes, o \notin Heard
    PROVE  ErrorOutcome[o] \in EpisodeStatuses \ {"absent", "gone"}
BY DEF Outcomes, ErrorOutcome, EpisodeStatuses

-----------------------------------------------------------------------------

\* The empty tables the migrations leave are typed.
THEOREM InitType == Init => TypeOK
BY IdsAssumption DEF Init, TypeOK, RowsOK, JobStatuses, EpisodeStatuses

\* Every statement of every handler keeps tables and suspended handlers typed.
LEMMA NextTyped ==
    ASSUME NEW X, Foreign(X), Typed(X), [Next]_vars PROVE Typed(X)'
<1> USE DEF Typed
<1>1. ASSUME NEW e \in Episodes, Discover(e) \/ BlacklistShort(e) \/ Orphan(e) \/ Reactivate(e)
      PROVE  Typed(X)'
  BY <1>1 DEF Discover, BlacklistShort, Orphan, Reactivate, RowsOK, EpisodeStatuses,
              jobVars, workerVars
<1>2. CASE Dispatch
  <2>1. PICK rows \in SUBSET Episodes :
          calls' = calls \cup {[at |-> "insert", by |-> "dispatcher", rows |-> rows]}
    BY <1>2 DEF Dispatch, Begin
  <2>2. [at |-> "insert", by |-> "dispatcher", rows |-> rows] \in Calls
    BY DEF Calls
  <2>3. QED
    BY <1>2, <2>1, <2>2 DEF Dispatch, RowsOK, jobVars, epVars, workerVars
<1>3. ASSUME NEW w \in Workers, NextReset(w) PROVE Typed(X)'
  <2>1. [at |-> "claim", worker |-> w] \in Calls
    BY DEF Calls
  <2>2. calls' \in SUBSET (Calls \cup X)
    BY <1>3, <2>1 DEF NextReset, Begin
  <2> DEFINE S == {j \in Jobs : jobStatus[j] = "claimed" /\ claimedBy[j] = w}
  <2>3. /\ S \in SUBSET Jobs /\ \A j \in S : jobStatus[j] # "absent"
        /\ SetJobs(S, "pending") /\ "pending" \in JobStatuses \ {"absent"}
    BY <1>3 DEF NextReset, JobStatuses
  <2> HIDE DEF S
  <2>4. QED
    BY <1>3, <2>2, <2>3, SetJobsType DEF NextReset, RowsOK, epVars, workerVars
<1>4. ASSUME NEW w \in Workers, Post(w) PROVE Typed(X)'
  <2>1. holding[w] \in Claims
    BY <1>4 DEF Post, RowsOK
  <2>2. PICK o \in Outcomes :
          posts' = posts \cup {[job |-> holding[w].job, attempt |-> holding[w].attempt,
                                outcome |-> o]}
    BY <1>4 DEF Post
  <2>3. QED
    BY <1>4, <2>1, <2>2 DEF Post, RowsOK, Claims, jobVars, epVars
<1>5. ASSUME NEW w \in Workers, CrashWorker(w) PROVE Typed(X)'
  BY <1>5 DEF CrashWorker, RowsOK, jobVars, epVars
<1>6. ASSUME NEW p \in posts, AcceptComplete(p) PROVE Typed(X)'
  <2>1. p.job \in Jobs /\ p.attempt \in 1..MaxAttempts /\ target[p.job] \in Episodes
    BY <1>6 DEF AcceptComplete, Answer, RowsOK
  <2>2. [at |-> "store", ep |-> target[p.job], heard |-> p.outcome] \in Calls
    BY <1>6, <2>1 DEF AcceptComplete, Calls
  <2>3. calls' \in SUBSET (Calls \cup X)
    BY <1>6, <2>2 DEF AcceptComplete, Begin
  <2>4. answers' \in [Jobs -> Seq(1..MaxAttempts)]
    BY <1>6, <2>1 DEF AcceptComplete, Answer, RowsOK
  <2>5. posts' \in SUBSET [job : Jobs, attempt : 1..MaxAttempts, outcome : Outcomes]
    BY <1>6 DEF AcceptComplete, Delivered, RowsOK
  <2>6. QED
    BY <1>6, <2>1, <2>3, <2>4, <2>5 DEF AcceptComplete, Answer, RowsOK, JobStatuses, epVars
<1>7. ASSUME NEW p \in posts, AcceptFail(p) PROVE Typed(X)'
  <2>1. /\ p.job \in Jobs /\ p.attempt \in 1..MaxAttempts /\ target[p.job] \in Episodes
        /\ p.outcome \in Outcomes /\ p.outcome \notin Heard
    BY <1>7 DEF AcceptFail, Answer, RowsOK
  <2>2. [at |-> "settle", ep |-> target[p.job], to |-> ErrorOutcome[p.outcome]] \in Calls
    BY <2>1, ErrorOutcomeType DEF Calls
  <2>3. calls' \in SUBSET (Calls \cup X)
    BY <1>7, <2>2 DEF AcceptFail, Begin
  <2>4. answers' \in [Jobs -> Seq(1..MaxAttempts)]
    BY <1>7, <2>1 DEF AcceptFail, Answer, RowsOK
  <2>5. posts' \in SUBSET [job : Jobs, attempt : 1..MaxAttempts, outcome : Outcomes]
    BY <1>7 DEF AcceptFail, Delivered, RowsOK
  <2>6. QED
    BY <1>7, <2>1, <2>3, <2>4, <2>5 DEF AcceptFail, Answer, RowsOK, JobStatuses, epVars
<1>8. ASSUME NEW p \in posts, LosePost(p) PROVE Typed(X)'
  BY <1>8 DEF LosePost, RowsOK, jobVars, epVars
<1>9. ASSUME NEW c \in calls, InsertJob(c) PROVE Typed(X)'
  <2>0. c \in Calls \cup X /\ c.at = "insert"
    BY <1>9 DEF InsertJob
  <2>1. c.rows \in SUBSET Episodes /\ c.by \in {"dispatcher", "admin"}
    BY <2>0, CallData
  <2>2. PICK e \in c.rows :
          \/ Return(c) /\ UNCHANGED jobVars
          \/ NextRow(c, c.rows \ {e}) /\ UNCHANGED jobVars
          \/ /\ \E j \in Jobs :
                  /\ jobStatus' = [jobStatus EXCEPT ![j] = "pending"]
                  /\ target' = [target EXCEPT ![j] = e]
                  /\ UNCHANGED <<attempts, claimedBy, answers>>
             /\ Continue(c, [at |-> "mark", by |-> c.by, rows |-> c.rows \ {e}, ep |-> e])
    BY <1>9 DEF InsertJob
  <2>3. e \in Episodes
    BY <2>1
  <2>4. [at |-> "mark", by |-> c.by, rows |-> c.rows \ {e}, ep |-> e] \in Calls
    BY <2>1, <2>3 DEF Calls
  <2>5. calls' \in SUBSET (Calls \cup X)
    BY <2>1, <2>2, <2>4, NextRowType DEF Return, Continue
  <2>6. /\ jobStatus' \in [Jobs -> JobStatuses]
        /\ target' \in [Jobs -> Episodes \cup {NoEpisode}]
        /\ \A j \in Jobs : jobStatus'[j] # "absent" => target'[j] \in Episodes
        /\ UNCHANGED <<attempts, claimedBy, answers>>
    BY <2>2, <2>3 DEF RowsOK, JobStatuses, jobVars
  <2>7. QED
    BY <1>9, <2>5, <2>6 DEF InsertJob, RowsOK, epVars, workerVars
<1>10. ASSUME NEW c \in calls, MarkDownloading(c) PROVE Typed(X)'
  <2>0. c \in Calls \cup X /\ c.at = "mark"
    BY <1>10 DEF MarkDownloading
  <2>1. c.rows \in SUBSET Episodes /\ c.by \in {"dispatcher", "admin"} /\ c.ep \in Episodes
    BY <2>0, CallData
  <2>2. calls' \in SUBSET (Calls \cup X)
    BY <1>10, <2>1, NextRowType DEF MarkDownloading
  <2>3. status' \in [Episodes -> EpisodeStatuses]
    BY <1>10, <2>1, SetStatusType DEF MarkDownloading, EpisodeStatuses
  <2>4. QED
    BY <1>10, <2>2, <2>3 DEF MarkDownloading, RowsOK, jobVars, workerVars
<1>11. ASSUME NEW c \in calls, Claim(c) PROVE Typed(X)'
  <2>0. c \in Calls \cup X /\ c.at = "claim"
    BY <1>11 DEF Claim
  <2>1. c.worker \in Workers
    BY <2>0, CallData
  <2>2. calls' \in SUBSET (Calls \cup X)
    BY <1>11 DEF Claim, Return
  <2>3. CASE UNCHANGED <<jobVars, holding>>
    BY <1>11, <2>2, <2>3 DEF Claim, RowsOK, jobVars, epVars
  <2>4. ASSUME NEW j \in Jobs,
               jobStatus[j] = "pending", attempts[j] < MaxAttempts,
               jobStatus' = [jobStatus EXCEPT ![j] = "claimed"],
               claimedBy' = [claimedBy EXCEPT ![j] = c.worker],
               attempts' = [attempts EXCEPT ![j] = @ + 1],
               \/ holding' = [holding EXCEPT ![c.worker] =
                                [job |-> j, attempt |-> attempts[j] + 1]]
               \/ UNCHANGED holding,
               UNCHANGED <<target, answers>>
        PROVE  Typed(X)'
    <3>1. attempts[j] + 1 \in 1..MaxAttempts
      BY <2>4, IdsAssumption DEF RowsOK
    <3>2. attempts' \in [Jobs -> 0..MaxAttempts]
      BY <2>4, <3>1 DEF RowsOK
    <3>3. holding' \in [Workers -> Claims \cup {Idle}]
      <4>1. [job |-> j, attempt |-> attempts[j] + 1] \in Claims
        BY <2>4, <3>1 DEF Claims
      <4>2. QED
        BY <2>1, <2>4, <4>1 DEF RowsOK
    <3>4. QED
      BY <1>11, <2>1, <2>2, <2>4, <3>2, <3>3 DEF Claim, RowsOK, JobStatuses, epVars
  <2>5. QED
    BY <1>11, <2>3, <2>4 DEF Claim
<1>12. ASSUME NEW c \in calls, StoreTranscript(c) PROVE Typed(X)'
  <2>0. c \in Calls \cup X /\ c.at = "store"
    BY <1>12 DEF StoreTranscript
  <2>1. c.ep \in Episodes /\ c.heard \in Heard
    BY <2>0, CallData
  <2>2. PICK to \in {"processed", "failed"} :
          Continue(c, [at |-> "settle", ep |-> c.ep, to |-> to])
    BY <1>12 DEF StoreTranscript
  <2>3. [at |-> "settle", ep |-> c.ep, to |-> to] \in Calls
    BY <2>1 DEF Calls, EpisodeStatuses
  <2>4. calls' \in SUBSET (Calls \cup X)
    BY <2>2, <2>3 DEF Continue
  <2>5. transcript' \in [Episodes -> {"none"} \cup Heard]
    BY <1>12, <2>1 DEF StoreTranscript, RowsOK
  <2>6. QED
    BY <1>12, <2>4, <2>5 DEF StoreTranscript, RowsOK, jobVars, workerVars
<1>13. ASSUME NEW c \in calls, Settle(c) PROVE Typed(X)'
  <2>0. c \in Calls \cup X /\ c.at = "settle"
    BY <1>13 DEF Settle
  <2>1. c.ep \in Episodes /\ c.to \in EpisodeStatuses
    BY <2>0, CallData
  <2>2. status' \in [Episodes -> EpisodeStatuses]
    BY <1>13, <2>1, SetStatusType DEF Settle
  <2>3. blacklisted' \in [Episodes -> BOOLEAN]
    BY <1>13, <2>1 DEF Settle, RowsOK
  <2>4. calls' \in SUBSET (Calls \cup X)
    BY <1>13 DEF Settle, Return
  <2>5. QED
    BY <1>13, <2>2, <2>3, <2>4 DEF Settle, RowsOK, jobVars, workerVars
<1>14. ASSUME NEW c \in calls, Recover(c) PROVE Typed(X)'
  BY <1>14 DEF Recover, RecoverInterrupted, Return, RowsOK, EpisodeStatuses, jobVars, workerVars
<1>15. ASSUME NEW S \in SUBSET Jobs, Reclaim(S) PROVE Typed(X)'
  <2>1. [at |-> "recover"] \in Calls
    BY DEF Calls
  <2>2. calls' \in SUBSET (Calls \cup X)
    BY <1>15, <2>1 DEF Reclaim, Begin
  <2>3. QED
    BY <1>15, <2>2, SetJobsType DEF Reclaim, RowsOK, JobStatuses, epVars, workerVars
<1>16. ASSUME NEW S \in SUBSET Jobs, Purge(S) PROVE Typed(X)'
  BY <1>16, SetJobsType DEF Purge, RowsOK, JobStatuses, epVars, workerVars
<1>17. CASE Restart
  BY <1>17 DEF Restart, RecoverInterrupted, RowsOK, EpisodeStatuses, jobVars, workerVars
<1>18. CASE UNCHANGED vars
  BY <1>18 DEF vars, jobVars, epVars, workerVars, RowsOK
<1>19. QED
  BY <1>1, <1>2, <1>3, <1>4, <1>5, <1>6, <1>7, <1>8, <1>9, <1>10, <1>11, <1>12, <1>13,
     <1>14, <1>15, <1>16, <1>17, <1>18 DEF Next, Run, HandlerStep

\* Without other handlers, that is TypeOK.
LEMMA TypedNone == Foreign({}) /\ (TypeOK <=> Typed({})) /\ (TypeOK' <=> Typed({})')
BY DEF Foreign, TypeOK, Typed

\* Every statement of JobQueue's handlers keeps tables and suspended handlers typed.
THEOREM NextType == TypeOK /\ [Next]_vars => TypeOK'
BY TypedNone, NextTyped

\* Every history of the queue keeps its tables and its suspended handlers typed.
THEOREM TypeCorrect == Spec => []TypeOK
BY InitType, NextType, PTL DEF Spec

-----------------------------------------------------------------------------
(* One live job per episode.                                               *)

QueueInv == OneLiveJobPerEpisode /\ JobTargetsExist

\* A step that makes no job live, moves no job to another episode and inserts
\* no episode row keeps the invariant.
LEMMA NothingGoesLive ==
    ASSUME RowsOK, RowsOK', QueueInv,
           \A j \in Jobs : /\ jobStatus'[j] # "absent" => jobStatus[j] # "absent"
                           /\ jobStatus'[j] \in Live => jobStatus[j] \in Live
                           /\ jobStatus'[j] # "absent" => target'[j] = target[j],
           \A e \in Episodes : /\ Exists(e)' => Exists(e)
                               /\ status'[e] = "absent" => status[e] = "absent"
    PROVE  QueueInv'
<1>1. \A j \in Jobs : jobStatus'[j] # "absent" =>
        jobStatus[j] # "absent" /\ target'[j] = target[j] /\ target[j] \in Episodes
  BY DEF RowsOK
<1>2. JobTargetsExist'
  BY <1>1 DEF QueueInv, JobTargetsExist
<1>3. ASSUME NEW i \in Jobs, NEW j \in Jobs,
             jobStatus'[i] \in Live, jobStatus'[j] \in Live,
             target'[i] = target'[j], Exists(target[i])'
      PROVE  i = j
  <2>1. /\ jobStatus[i] \in Live /\ jobStatus[j] \in Live
        /\ target'[i] = target[i] /\ target'[j] = target[j] /\ target[i] \in Episodes
    BY <1>1, <1>3
  <2>2. Exists(target[i])
    BY <1>3, <2>1 DEF Exists
  <2>3. QED
    BY <1>3, <2>1, <2>2 DEF QueueInv, OneLiveJobPerEpisode
<1>4. QED
  BY <1>2, <1>3 DEF QueueInv, OneLiveJobPerEpisode, Exists

\* Writing the status of an existing episode, or none, inserts no row.
LEMMA SetStatusRows ==
    ASSUME RowsOK, NEW e \in Episodes, NEW s \in EpisodeStatuses \ {"absent", "gone"},
           SetStatus(e, s)
    PROVE  \A f \in Episodes : /\ Exists(f)' => Exists(f)
                               /\ status'[f] = "absent" => status[f] = "absent"
BY DEF RowsOK, SetStatus, Exists

\* There is no job yet.
LEMMA QueueInit == Init => QueueInv
BY DEF Init, QueueInv, OneLiveJobPerEpisode, JobTargetsExist

\* The index guards INSERT; every other step revives no job and creates no row.
LEMMA QueueNext ==
    ASSUME NEW X, Foreign(X), Typed(X), Typed(X)', QueueInv, [Next]_vars
    PROVE  QueueInv'
<1>0. RowsOK /\ RowsOK'
  BY DEF Typed
<1> USE <1>0
<1>1. ASSUME NEW e \in Episodes, Discover(e) PROVE QueueInv'
  <2>1. \A j \in Jobs : jobStatus[j] # "absent" => target[j] \in Episodes \ {e}
    BY <1>1 DEF Discover, QueueInv, JobTargetsExist, Typed, RowsOK
  <2>2. \A f \in Episodes \ {e} : status'[f] = status[f]
    BY <1>1 DEF Discover, Typed, RowsOK
  <2>3. QED
    BY <1>1, <2>1, <2>2 DEF Discover, QueueInv, OneLiveJobPerEpisode, JobTargetsExist,
                            Exists, jobVars
<1>2. ASSUME NEW e \in Episodes, BlacklistShort(e) \/ Orphan(e) \/ Reactivate(e)
      PROVE  QueueInv'
  <2>1. \A f \in Episodes : /\ Exists(f)' => Exists(f)
                            /\ status'[f] = "absent" => status[f] = "absent"
    BY <1>2 DEF BlacklistShort, Orphan, Reactivate, Exists, Typed, RowsOK
  <2>2. UNCHANGED jobVars
    BY <1>2 DEF BlacklistShort, Orphan, Reactivate
  <2>3. QED
    BY <2>1, <2>2, NothingGoesLive DEF jobVars
<1>3. ASSUME UNCHANGED jobVars, UNCHANGED status PROVE QueueInv'
  BY <1>3, NothingGoesLive DEF jobVars, Exists
<1>4. ASSUME NEW w \in Workers, NextReset(w) PROVE QueueInv'
  BY <1>4, NothingGoesLive DEF NextReset, SetJobs, epVars, Exists, Typed, RowsOK
<1>5. ASSUME NEW p \in posts, AcceptComplete(p) \/ AcceptFail(p) PROVE QueueInv'
  BY <1>5, NothingGoesLive DEF AcceptComplete, AcceptFail, Answer, epVars, Exists, Typed, RowsOK
<1>6. ASSUME NEW c \in calls, InsertJob(c) PROVE QueueInv'
  <2>1. CASE UNCHANGED jobVars
    BY <1>6, <2>1, <1>3 DEF InsertJob, epVars
  <2>2. ASSUME NEW e \in c.rows, NEW j \in Jobs,
               Exists(e), LiveJobs(e) = {}, jobStatus[j] = "absent",
               jobStatus' = [jobStatus EXCEPT ![j] = "pending"],
               target' = [target EXCEPT ![j] = e]
        PROVE  QueueInv'
    <3>1. e \in Episodes
      BY <1>6, CallData DEF InsertJob, Typed
    <3>2. \A i \in Jobs : ~(jobStatus[i] \in Live /\ target[i] = e)
      BY <2>2 DEF LiveJobs
    <3>3. UNCHANGED status
      BY <1>6 DEF InsertJob, epVars
    <3>4. jobStatus'[j] = "pending" /\ target'[j] = e
      BY <2>2 DEF Typed, RowsOK
    <3>5. \A i \in Jobs \ {j} : jobStatus'[i] = jobStatus[i] /\ target'[i] = target[i]
      BY <2>2 DEF Typed, RowsOK
    <3>6. QED
      BY <2>2, <3>1, <3>2, <3>3, <3>4, <3>5
      DEF QueueInv, OneLiveJobPerEpisode, JobTargetsExist, Exists, Typed, RowsOK
  <2>3. QED
    BY <1>6, <2>1, <2>2 DEF InsertJob
<1>7. ASSUME NEW c \in calls, MarkDownloading(c) PROVE QueueInv'
  <2>1. c.ep \in Episodes
    BY <1>7, CallData DEF MarkDownloading, Typed
  <2>2. "downloading" \in EpisodeStatuses \ {"absent", "gone"}
    BY DEF EpisodeStatuses
  <2>3. QED
    BY <1>7, <2>1, <2>2, SetStatusRows, NothingGoesLive DEF MarkDownloading, jobVars
<1>8. ASSUME NEW c \in calls, Claim(c) PROVE QueueInv'
  BY <1>8, NothingGoesLive DEF Claim, epVars, jobVars, Exists, Typed, RowsOK
<1>9. ASSUME NEW c \in calls, Settle(c) PROVE QueueInv'
  <2>1. c.ep \in Episodes /\ c.to \in EpisodeStatuses \ {"absent", "gone"}
    BY <1>9, CallData DEF Settle, Typed
  <2>2. QED
    BY <1>9, <2>1, SetStatusRows, NothingGoesLive DEF Settle, jobVars
<1>10. ASSUME RecoverInterrupted, UNCHANGED jobVars PROVE QueueInv'
  BY <1>10, NothingGoesLive DEF RecoverInterrupted, Stuck, jobVars, Exists, Typed, RowsOK
<1>11. ASSUME NEW S \in SUBSET Jobs, Reclaim(S) \/ Purge(S) PROVE QueueInv'
  BY <1>11, NothingGoesLive DEF Reclaim, Purge, SetJobs, epVars, Exists, Typed, RowsOK
<1>12. QED
  BY <1>1, <1>2, <1>3, <1>4, <1>5, <1>6, <1>7, <1>8, <1>9, <1>10, <1>11
  DEF Next, Run, HandlerStep, Dispatch, Post, CrashWorker, LosePost, StoreTranscript, Recover,
      Restart, epVars, vars

\* The unique index of migration 037 and the guards around it hold for every
\* interleaving: no episode ever has two live process jobs.
THEOREM OneLiveJob == Spec => []OneLiveJobPerEpisode
<1>1. Init => TypeOK /\ QueueInv
  BY InitType, QueueInit
<1>2. TypeOK /\ QueueInv /\ [Next]_vars => (TypeOK /\ QueueInv)'
  BY NextType, TypedNone, QueueNext
<1>3. QueueInv => OneLiveJobPerEpisode
  BY DEF QueueInv
<1>4. QED
  BY <1>1, <1>2, <1>3, PTL DEF Spec

-----------------------------------------------------------------------------
(* One answer per claim.                                                   *)

\* Nothing is answered yet.
LEMMA AnswersInit == Init => AnsweredOncePerClaim
BY DEF Init, AnsweredOncePerClaim

\* A step that neither claims nor answers, and makes no job claimed, keeps it.
LEMMA NothingAnswered ==
    ASSUME RowsOK, AnsweredOncePerClaim, UNCHANGED <<attempts, answers>>,
           \A j \in Jobs : jobStatus'[j] = "claimed" => jobStatus[j] = "claimed"
    PROVE  AnsweredOncePerClaim'
BY DEF RowsOK, AnsweredOncePerClaim

\* A claim counts an attempt, an answer needs a claimed job and ends its claim.
LEMMA AnswersNext ==
    ASSUME NEW X, Foreign(X), Typed(X), Typed(X)', AnsweredOncePerClaim, [Next]_vars
    PROVE  AnsweredOncePerClaim'
<1>0. RowsOK /\ RowsOK'
  BY DEF Typed
<1> USE <1>0
<1>1. ASSUME UNCHANGED jobVars PROVE AnsweredOncePerClaim'
  BY <1>1, NothingAnswered DEF jobVars
<1>2. ASSUME NEW S, NEW s, s # "claimed", SetJobs(S, s) PROVE AnsweredOncePerClaim'
  BY <1>2, NothingAnswered DEF SetJobs, Typed, RowsOK
<1>3. ASSUME NEW p \in posts, NEW s, s # "claimed", Answer(p, s) PROVE AnsweredOncePerClaim'
  <2>1. p.job \in Jobs /\ answers[p.job] \in Seq(1..MaxAttempts)
    BY DEF Typed, RowsOK
  <2>2. p.attempt \in 1..MaxAttempts
    BY DEF Typed, RowsOK
  <2>3. Len(answers'[p.job]) = Len(answers[p.job]) + 1
    BY <1>3, <2>1, <2>2 DEF Answer, Typed, RowsOK
  <2>4. jobStatus[p.job] = "claimed" /\ jobStatus'[p.job] # "claimed"
    BY <1>3, <2>1 DEF Answer, Typed, RowsOK
  <2>5. Len(answers'[p.job]) <= attempts'[p.job]
    BY <1>3, <2>1, <2>3, <2>4 DEF Answer, AnsweredOncePerClaim, Typed, RowsOK
  <2>6. \A j \in Jobs \ {p.job} : /\ answers'[j] = answers[j]
                                  /\ jobStatus'[j] = jobStatus[j]
                                  /\ attempts'[j] = attempts[j]
    BY <1>3 DEF Answer, Typed, RowsOK
  <2>7. Len(answers'[p.job]) \in Nat
    BY <2>1, <2>3
  <2>8. SUFFICES ASSUME NEW j \in Jobs
                 PROVE  Len(answers'[j]) + (IF jobStatus'[j] = "claimed" THEN 1 ELSE 0)
                          <= attempts'[j]
    BY DEF AnsweredOncePerClaim
  <2>9. CASE j = p.job
    BY <2>4, <2>5, <2>7, <2>9
  <2>10. CASE j # p.job
    BY <2>6, <2>10 DEF AnsweredOncePerClaim
  <2>11. QED
    BY <2>9, <2>10
<1>4. ASSUME NEW c \in calls, InsertJob(c) PROVE AnsweredOncePerClaim'
  <2>1. CASE UNCHANGED jobVars
    BY <2>1, <1>1
  <2>2. ASSUME NEW j \in Jobs, jobStatus' = [jobStatus EXCEPT ![j] = "pending"],
               UNCHANGED <<attempts, answers>>
        PROVE  AnsweredOncePerClaim'
    BY <2>2, NothingAnswered DEF Typed, RowsOK
  <2>3. QED
    BY <1>4, <2>1, <2>2 DEF InsertJob
<1>5. ASSUME NEW c \in calls, Claim(c) PROVE AnsweredOncePerClaim'
  <2>1. CASE UNCHANGED jobVars
    BY <2>1, <1>1
  <2>2. ASSUME NEW j \in Jobs, jobStatus[j] = "pending",
               jobStatus' = [jobStatus EXCEPT ![j] = "claimed"],
               attempts' = [attempts EXCEPT ![j] = @ + 1], UNCHANGED answers
        PROVE  AnsweredOncePerClaim'
    BY <2>2 DEF AnsweredOncePerClaim, Typed, RowsOK
  <2>3. QED
    BY <1>5, <2>1, <2>2 DEF Claim, jobVars
<1>6. QED
  BY <1>1, <1>2, <1>3, <1>4, <1>5
  DEF Next, Run, HandlerStep, Discover, BlacklistShort, Orphan, Reactivate, Dispatch, NextReset,
      Post, CrashWorker, AcceptComplete, AcceptFail, LosePost, MarkDownloading,
      StoreTranscript, Settle, Recover, Reclaim, Purge, Restart, vars

\* However results are duplicated, delayed or raced by sweeps, the conductor
\* applies at most one result per claim it handed out.
THEOREM OneAnswerPerClaim == Spec => []AnsweredOncePerClaim
<1>1. Init => TypeOK /\ AnsweredOncePerClaim
  BY InitType, AnswersInit
<1>2. TypeOK /\ AnsweredOncePerClaim /\ [Next]_vars => (TypeOK /\ AnsweredOncePerClaim)'
  BY NextType, TypedNone, AnswersNext
<1>3. QED
  BY <1>1, <1>2, PTL DEF Spec

-----------------------------------------------------------------------------
(* One worker per job.                                                     *)

OwnerInv == OneWorkerPerJob /\ WorkersKeepJobs

\* No worker has a job yet.
LEMMA OwnerInit == Init => OwnerInv
BY DEF Init, OwnerInv, OneWorkerPerJob, WorkersKeepJobs, AtWork

\* What a worker holds is a claim of a job.
LEMMA HoldingData ==
    ASSUME RowsOK, NEW w \in Workers, AtWork(w)
    PROVE  holding[w] \in Claims /\ holding[w].job \in Jobs
BY DEF RowsOK, Claims, AtWork

\* A step that puts nobody to work, and leaves the job rows of those at work alone or
\* finishes them, keeps the invariant.
LEMMA NobodyStarts ==
    ASSUME RowsOK, OwnerInv,
           \A w \in Workers : AtWork(w)' => AtWork(w) /\ holding'[w] = holding[w],
           \A w \in Workers : AtWork(w)' =>
              \/ /\ jobStatus'[holding[w].job] = jobStatus[holding[w].job]
                 /\ claimedBy'[holding[w].job] = claimedBy[holding[w].job]
              \/ jobStatus'[holding[w].job] \in {"completed", "failed", "purged"}
    PROVE  OwnerInv'
<1>1. OneWorkerPerJob'
  <2>1. SUFFICES ASSUME NEW v \in Workers, NEW w \in Workers, AtWork(v)', AtWork(w)',
                        holding'[v].job = holding'[w].job
                 PROVE  v = w
    BY DEF OneWorkerPerJob
  <2>2. QED
    BY <2>1 DEF OwnerInv, OneWorkerPerJob
<1>2. WorkersKeepJobs'
  <2>1. SUFFICES ASSUME NEW w \in Workers, AtWork(w)'
                 PROVE  /\ jobStatus'[holding'[w].job] \notin {"absent", "pending"}
                        /\ jobStatus'[holding'[w].job] = "claimed" =>
                             claimedBy'[holding'[w].job] = w
    BY DEF WorkersKeepJobs
  <2>2. /\ AtWork(w) /\ holding'[w] = holding[w]
        /\ \/ /\ jobStatus'[holding[w].job] = jobStatus[holding[w].job]
              /\ claimedBy'[holding[w].job] = claimedBy[holding[w].job]
           \/ jobStatus'[holding[w].job] \in {"completed", "failed", "purged"}
    BY <2>1
  <2>3. QED
    BY <2>2 DEF OwnerInv, WorkersKeepJobs
<1>3. QED
  BY <1>1, <1>2 DEF OwnerInv

\* Rows that go back to the queue are those of nobody at work.
LEMMA RowsGoBack ==
    ASSUME RowsOK, OwnerInv, NEW S \in SUBSET Jobs, NEW s, SetJobs(S, s),
           \A w \in Workers : AtWork(w)' => AtWork(w) /\ holding'[w] = holding[w],
           \A w \in Workers : AtWork(w)' => holding[w].job \notin S
    PROVE  OwnerInv'
<1>1. \A w \in Workers : AtWork(w)' => holding[w].job \in Jobs
  BY HoldingData
<1>2. QED
  BY <1>1, NobodyStarts DEF SetJobs

\* A claim takes a row off the queue, on which nobody is at work, and puts the name of
\* the worker to it.
LEMMA OwnerClaim ==
    ASSUME RowsOK, RowsOK', OwnerInv, NEW w \in Workers, NEW j \in Jobs,
           jobStatus[j] = "pending", UNCHANGED lapsed,
           jobStatus' = [jobStatus EXCEPT ![j] = "claimed"],
           claimedBy' = [claimedBy EXCEPT ![j] = w],
           \/ holding' = [holding EXCEPT ![w] = [job |-> j, attempt |-> attempts[j] + 1]]
           \/ UNCHANGED holding
    PROVE  OwnerInv'
<1>1. /\ jobStatus'[j] = "claimed" /\ claimedBy'[j] = w
      /\ \A i \in Jobs \ {j} : jobStatus'[i] = jobStatus[i] /\ claimedBy'[i] = claimedBy[i]
  BY DEF RowsOK
<1>2. \A v \in Workers : AtWork(v) => holding[v].job \in Jobs \ {j}
  BY HoldingData DEF OwnerInv, WorkersKeepJobs
<1>3. CASE UNCHANGED holding
  <2>1. \A v \in Workers : AtWork(v)' => AtWork(v) /\ holding'[v] = holding[v]
    BY <1>3 DEF AtWork
  <2>2. QED
    BY <1>1, <1>2, <2>1, NobodyStarts
<1>4. CASE holding' = [holding EXCEPT ![w] = [job |-> j, attempt |-> attempts[j] + 1]]
  <2>1. holding'[w].job = j /\ \A v \in Workers \ {w} : holding'[v] = holding[v]
    BY <1>4 DEF RowsOK
  <2>2. \A v \in Workers \ {w} : AtWork(v)' =>
          AtWork(v) /\ holding'[v] = holding[v] /\ holding[v].job \in Jobs \ {j}
    BY <1>2, <2>1 DEF AtWork
  <2>3. OneWorkerPerJob'
    <3>1. SUFFICES ASSUME NEW u \in Workers, NEW v \in Workers, AtWork(u)', AtWork(v)',
                          holding'[u].job = holding'[v].job
                   PROVE  u = v
      BY DEF OneWorkerPerJob
    <3>2. CASE u = w \/ v = w
      BY <2>1, <2>2, <3>1, <3>2
    <3>3. CASE u # w /\ v # w
      BY <2>2, <3>1, <3>3 DEF OwnerInv, OneWorkerPerJob
    <3>4. QED
      BY <3>2, <3>3
  <2>4. WorkersKeepJobs'
    <3>1. SUFFICES ASSUME NEW v \in Workers, AtWork(v)'
                   PROVE  /\ jobStatus'[holding'[v].job] \notin {"absent", "pending"}
                          /\ jobStatus'[holding'[v].job] = "claimed" =>
                               claimedBy'[holding'[v].job] = v
      BY DEF WorkersKeepJobs
    <3>2. CASE v = w
      BY <1>1, <2>1, <3>2
    <3>3. CASE v # w
      BY <1>1, <2>2, <3>1, <3>3 DEF OwnerInv, WorkersKeepJobs
    <3>4. QED
      BY <3>2, <3>3
  <2>5. QED
    BY <2>3, <2>4 DEF OwnerInv
<1>5. QED
  BY <1>3, <1>4

\* Every other step takes rows only from the idle, from the lapsed or from nobody.
LEMMA OwnerNext == TypeOK /\ OwnerInv /\ [Next]_vars => OwnerInv'
<1> SUFFICES ASSUME TypeOK, OwnerInv, [Next]_vars PROVE OwnerInv'
  OBVIOUS
<1>0. RowsOK /\ RowsOK'
  BY NextType DEF TypeOK
<1> USE <1>0
<1>1. ASSUME UNCHANGED jobVars, \A w \in Workers : AtWork(w)' => AtWork(w) /\ holding'[w] = holding[w]
      PROVE  OwnerInv'
  BY <1>1, NobodyStarts DEF jobVars
<1>2. ASSUME UNCHANGED workerVars
      PROVE  \A w \in Workers : AtWork(w)' => AtWork(w) /\ holding'[w] = holding[w]
  BY <1>2 DEF workerVars, AtWork
<1>3. ASSUME UNCHANGED jobVars, UNCHANGED workerVars PROVE OwnerInv'
  BY <1>1, <1>2, <1>3
<1>4. ASSUME NEW w \in Workers, Post(w) \/ CrashWorker(w) PROVE OwnerInv'
  <2>1. holding' = [holding EXCEPT ![w] = Idle] /\ lapsed' = lapsed \ {w} /\ UNCHANGED jobVars
    BY <1>4 DEF Post, CrashWorker
  <2>2. \A v \in Workers : AtWork(v)' => AtWork(v) /\ holding'[v] = holding[v]
    <3>1. SUFFICES ASSUME NEW v \in Workers, AtWork(v)' PROVE AtWork(v) /\ holding'[v] = holding[v]
      OBVIOUS
    <3>2. holding'[w] = Idle
      BY <2>1 DEF RowsOK
    <3>3. v # w
      BY <3>1, <3>2 DEF AtWork
    <3>4. QED
      BY <2>1, <3>1, <3>3 DEF AtWork, RowsOK
  <2>3. QED
    BY <1>1, <2>1, <2>2
<1>5. ASSUME NEW w \in Workers, NextReset(w) PROVE OwnerInv'
  <2> DEFINE S == {j \in Jobs : jobStatus[j] = "claimed" /\ claimedBy[j] = w}
  <2>1. ~AtWork(w) /\ UNCHANGED workerVars
    BY <1>5 DEF NextReset, AtWork
  <2>2. \A v \in Workers : AtWork(v) => holding[v].job \notin S
    BY <2>1 DEF OwnerInv, WorkersKeepJobs
  <2>3. SetJobs(S, "pending") /\ S \in SUBSET Jobs
    BY <1>5 DEF NextReset
  <2> HIDE DEF S
  <2>4. QED
    BY <1>2, <2>1, <2>2, <2>3, RowsGoBack
<1>6. ASSUME NEW p \in posts, AcceptComplete(p) \/ AcceptFail(p) PROVE OwnerInv'
  <2>1. PICK s \in Finished : Answer(p, s)
    BY <1>6 DEF AcceptComplete, AcceptFail, Finished
  <2>2. \A w \in Workers : AtWork(w)' => AtWork(w) /\ holding'[w] = holding[w]
    BY <1>6 DEF AcceptComplete, AcceptFail, AtWork
  <2>3. \A j \in Jobs : \/ jobStatus'[j] = jobStatus[j] /\ claimedBy'[j] = claimedBy[j]
                        \/ jobStatus'[j] = s
    BY <2>1 DEF Answer, RowsOK
  <2>4. \A w \in Workers : AtWork(w) => holding[w].job \in Jobs
    BY HoldingData
  <2>5. QED
    BY <2>1, <2>2, <2>3, <2>4, NobodyStarts DEF Finished
<1>7. ASSUME NEW c \in calls, InsertJob(c) PROVE OwnerInv'
  <2>0. UNCHANGED workerVars
    BY <1>7 DEF InsertJob
  <2>1. CASE UNCHANGED jobVars
    BY <1>3, <2>0, <2>1
  <2>2. ASSUME NEW j \in Jobs, jobStatus[j] = "absent",
               jobStatus' = [jobStatus EXCEPT ![j] = "pending"], UNCHANGED claimedBy
        PROVE  OwnerInv'
    <3>1. \A w \in Workers : AtWork(w) => holding[w].job \in Jobs \ {j}
      BY <2>2, HoldingData DEF OwnerInv, WorkersKeepJobs
    <3>2. QED
      BY <1>2, <2>0, <2>2, <3>1, NobodyStarts DEF RowsOK
  <2>3. QED
    BY <1>7, <2>1, <2>2 DEF InsertJob
<1>8. ASSUME NEW c \in calls, Claim(c) PROVE OwnerInv'
  <2>1. c.worker \in Workers
    BY <1>8, CallData, TypedNone DEF Claim, TypeOK
  <2>2. CASE UNCHANGED <<jobVars, holding>>
    <3>1. UNCHANGED jobVars /\ UNCHANGED workerVars
      BY <1>8, <2>2 DEF Claim, workerVars
    <3>2. QED
      BY <1>3, <3>1
  <2>3. CASE ~UNCHANGED <<jobVars, holding>>
    <3>1. PICK j \in Jobs :
            /\ jobStatus[j] = "pending"
            /\ jobStatus' = [jobStatus EXCEPT ![j] = "claimed"]
            /\ claimedBy' = [claimedBy EXCEPT ![j] = c.worker]
            /\ \/ holding' = [holding EXCEPT ![c.worker] =
                                [job |-> j, attempt |-> attempts[j] + 1]]
               \/ UNCHANGED holding
      BY <1>8, <2>3 DEF Claim
    <3>2. UNCHANGED lapsed
      BY <1>8 DEF Claim
    <3>3. QED
      BY <2>1, <3>1, <3>2, OwnerClaim
  <2>4. QED
    BY <2>2, <2>3
<1>9. ASSUME NEW S \in SUBSET Jobs, Reclaim(S) PROVE OwnerInv'
  <2>1. /\ SetJobs(S, "pending") /\ UNCHANGED holding
        /\ lapsed' = lapsed \cup {w \in Workers : holding[w] # Idle /\ holding[w].job \in S}
    BY <1>9 DEF Reclaim
  <2>2. \A w \in Workers : AtWork(w)' => AtWork(w) /\ holding'[w] = holding[w] /\ holding[w].job \notin S
    BY <2>1 DEF AtWork
  <2>3. QED
    BY <2>1, <2>2, RowsGoBack
<1>10. ASSUME NEW S \in SUBSET Jobs, Purge(S) PROVE OwnerInv'
  <2>1. SetJobs(S, "purged") /\ UNCHANGED workerVars
    BY <1>10 DEF Purge
  <2>2. \A w \in Workers : AtWork(w) => holding[w].job \in Jobs
    BY HoldingData
  <2>3. QED
    BY <1>2, <2>1, <2>2, NobodyStarts DEF SetJobs
<1>11. ASSUME NEW p \in posts, LosePost(p) PROVE OwnerInv'
  BY <1>1, <1>11 DEF LosePost, AtWork
<1>12. QED
  BY <1>3, <1>4, <1>5, <1>6, <1>7, <1>8, <1>9, <1>10, <1>11
  DEF Next, Run, HandlerStep, Discover, BlacklistShort, Orphan, Reactivate, Dispatch,
      MarkDownloading, StoreTranscript, Settle, Recover, Restart, vars

\* For any number of workers and whatever is lost, repeated or restarted: two workers
\* are on one job only if the two-hour sweep took it from the first.  That
\* worker_next_job gives claims back before it claims takes nothing from the others.
THEOREM OneWorkerEach == Spec => []OneWorkerPerJob
<1>1. Init => TypeOK /\ OwnerInv
  BY InitType, OwnerInit
<1>2. TypeOK /\ OwnerInv /\ [Next]_vars => (TypeOK /\ OwnerInv)'
  BY NextType, OwnerNext
<1>3. OwnerInv => OneWorkerPerJob
  BY DEF OwnerInv
<1>4. QED
  BY <1>1, <1>2, <1>3, PTL DEF Spec

-----------------------------------------------------------------------------
(* 'processed' means stored.                                               *)

StoredInv == ProcessedHasTranscript /\ ProcessedIsStored

\* Nothing is processed yet.
LEMMA StoredInit == Init => StoredInv
BY DEF Init, StoredInv, ProcessedHasTranscript, ProcessedIsStored

\* No transcript is lost; a step that makes no episode processed and no handler about
\* to write it keeps the invariant.
LEMMA NothingProcessed ==
    ASSUME TypeOK, StoredInv,
           \A e \in Episodes : transcript[e] # "none" => transcript'[e] # "none",
           \A e \in Episodes : status'[e] = "processed" => status[e] = "processed",
           \A c \in calls' \ calls : c.at # "settle" \/ c.to # "processed"
    PROVE  StoredInv'
<1>1. \A c \in calls : c.at = "settle" => c.ep \in Episodes
  BY CallData, TypedNone DEF TypeOK
<1>2. QED
  BY <1>1 DEF StoredInv, ProcessedHasTranscript, ProcessedIsStored

\* 'processed' is written by Reactivate, which looks, and by Settle, after the store.
LEMMA StoredNext == TypeOK /\ StoredInv /\ [Next]_vars => StoredInv'
<1> SUFFICES ASSUME TypeOK, StoredInv, [Next]_vars PROVE StoredInv'
  OBVIOUS
<1>1. ASSUME NEW e \in Episodes, Discover(e) \/ BlacklistShort(e) \/ Orphan(e) PROVE StoredInv'
  BY <1>1, NothingProcessed DEF Discover, BlacklistShort, Orphan, TypeOK, RowsOK
<1>2. ASSUME NEW e \in Episodes, Reactivate(e) PROVE StoredInv'
  BY <1>2 DEF Reactivate, StoredInv, ProcessedHasTranscript, ProcessedIsStored, TypeOK, RowsOK
<1>3. ASSUME UNCHANGED <<status, transcript>>,
             \A c \in calls' \ calls : c.at # "settle" \/ c.to # "processed"
      PROVE  StoredInv'
  BY <1>3, NothingProcessed
<1>4. ASSUME NEW p \in posts, AcceptFail(p) PROVE StoredInv'
  <2>1. ErrorOutcome[p.outcome] # "processed"
    BY <1>4 DEF AcceptFail, ErrorOutcome, Outcomes, TypeOK, RowsOK
  <2>2. QED
    BY <1>3, <1>4, <2>1 DEF AcceptFail, Begin, epVars
<1>5. ASSUME NEW c \in calls, InsertJob(c) PROVE StoredInv'
  BY <1>3, <1>5 DEF InsertJob, NextRow, Return, Continue, epVars
<1>6. ASSUME NEW c \in calls, MarkDownloading(c) PROVE StoredInv'
  <2>1. \A e \in Episodes : status'[e] = "processed" => status[e] = "processed"
    BY <1>6 DEF MarkDownloading, SetStatus, TypeOK, RowsOK
  <2>2. \A d \in calls' \ calls : d.at # "settle"
    BY <1>6 DEF MarkDownloading, NextRow, Return, Continue
  <2>3. QED
    BY <1>6, <2>1, <2>2, NothingProcessed DEF MarkDownloading
<1>7. ASSUME NEW c \in calls, StoreTranscript(c) PROVE StoredInv'
  <2>1. PICK to \in {"processed", "failed"} :
          /\ Continue(c, [at |-> "settle", ep |-> c.ep, to |-> to])
          /\ \/ Exists(c.ep) /\ transcript' = [transcript EXCEPT ![c.ep] = c.heard]
             \/ to = "failed" /\ UNCHANGED transcript
    BY <1>7 DEF StoreTranscript
  <2>0. c.ep \in Episodes /\ c.heard \in Heard
    BY <1>7, CallData, TypedNone DEF StoreTranscript, TypeOK
  <2>2. UNCHANGED status /\ \A e \in Episodes : transcript[e] # "none" => transcript'[e] # "none"
    BY <1>7, <2>0, <2>1 DEF StoreTranscript, Heard, TypeOK, RowsOK
  <2>3. \A d \in calls' : d \in calls \/ d = [at |-> "settle", ep |-> c.ep, to |-> to]
    BY <2>1 DEF Continue
  <2>4. to = "processed" => transcript'[c.ep] # "none"
    BY <2>0, <2>1 DEF Heard, TypeOK, RowsOK
  <2>5. ProcessedIsStored'
    <3>1. \A d \in calls : d.at = "settle" => d.ep \in Episodes
      BY CallData, TypedNone DEF TypeOK
    <3>2. QED
      BY <2>2, <2>3, <2>4, <3>1 DEF StoredInv, ProcessedIsStored
  <2>6. QED
    BY <2>2, <2>5 DEF StoredInv, ProcessedHasTranscript
<1>8. ASSUME NEW c \in calls, Settle(c) PROVE StoredInv'
  <2>1. c.to = "processed" => transcript[c.ep] # "none"
    BY <1>8 DEF Settle, StoredInv, ProcessedIsStored
  <2>2. \A e \in Episodes : status'[e] = "processed" =>
          status[e] = "processed" \/ (e = c.ep /\ c.to = "processed")
    BY <1>8 DEF Settle, SetStatus, TypeOK, RowsOK
  <2>3. UNCHANGED transcript /\ calls' \subseteq calls
    BY <1>8 DEF Settle, Return
  <2>4. QED
    BY <2>1, <2>2, <2>3 DEF StoredInv, ProcessedHasTranscript, ProcessedIsStored
<1>9. ASSUME RecoverInterrupted, UNCHANGED transcript, calls' \subseteq calls PROVE StoredInv'
  BY <1>9, NothingProcessed DEF RecoverInterrupted, TypeOK, RowsOK
<1>10. CASE Dispatch
  BY <1>3, <1>10 DEF Dispatch, Begin, epVars
<1>11. ASSUME NEW w \in Workers, NextReset(w) \/ Post(w) \/ CrashWorker(w) PROVE StoredInv'
  BY <1>3, <1>11 DEF NextReset, Post, CrashWorker, Begin, epVars
<1>12. ASSUME NEW p \in posts, AcceptComplete(p) \/ LosePost(p) PROVE StoredInv'
  BY <1>3, <1>12 DEF AcceptComplete, LosePost, Begin, epVars
<1>13. ASSUME NEW c \in calls, Claim(c) PROVE StoredInv'
  BY <1>3, <1>13 DEF Claim, Return, epVars
<1>14. ASSUME NEW S \in SUBSET Jobs, Reclaim(S) \/ Purge(S) PROVE StoredInv'
  BY <1>3, <1>14 DEF Reclaim, Purge, Begin, epVars
<1>15. QED
  BY <1>1, <1>2, <1>3, <1>4, <1>5, <1>6, <1>7, <1>8, <1>9, <1>10, <1>11, <1>12, <1>13, <1>14
  DEF Next, Run, HandlerStep, Recover, Restart, Return, vars, epVars

\* As long as no administrator deletes chunks, every processed episode, reactivated
\* orphans included, has its transcript.
THEOREM ProcessedSearchable == Spec => []ProcessedHasTranscript
<1>1. Init => TypeOK /\ StoredInv
  BY InitType, StoredInit
<1>2. TypeOK /\ StoredInv /\ [Next]_vars => (TypeOK /\ StoredInv)'
  BY NextType, StoredNext
<1>3. StoredInv => ProcessedHasTranscript
  BY DEF StoredInv
<1>4. QED
  BY <1>1, <1>2, <1>3, PTL DEF Spec

-----------------------------------------------------------------------------
(* The queue that the jobs table is.                                       *)

\* The rows under way for an episode are the live jobs a query finds.
LEMMA UnderWayIsLive ==
    ASSUME RowsOK, NEW e \in Episodes
    PROVE  Queue!UnderWay(e) = LiveJobs(e)
<1>1. ASSUME NEW j \in Jobs
      PROVE  jobStatus[j] \in Live /\ EpisodeId[j] = e <=> jobStatus[j] \in Live /\ target[j] = e /\ Exists(e)
  BY IdsAssumption DEF EpisodeId, RowsOK
<1> QED
  BY <1>1 DEF Queue!UnderWay, LiveJobs

\* jobs.episode_id changes only with the rows of jobs and episodes.
LEMMA EpisodeIdKept ==
    ASSUME RowsOK, UNCHANGED target,
           \A j \in Jobs : jobStatus'[j] \in {"absent", "purged"} <=> jobStatus[j] \in {"absent", "purged"},
           \A e \in Episodes : Exists(e)' <=> Exists(e)
    PROVE  UNCHANGED EpisodeId
<1>1. ASSUME NEW j \in Jobs PROVE EpisodeId'[j] = EpisodeId[j]
  <2>1. CASE jobStatus[j] \in {"absent", "purged"}
    BY <2>1 DEF EpisodeId
  <2>2. CASE jobStatus[j] \notin {"absent", "purged"}
    <3>1. target[j] \in Episodes
      BY <2>2 DEF RowsOK
    <3>2. status'[target[j]] \notin {"absent", "gone"} <=> Exists(target[j])
      BY <3>1 DEF Exists
    <3> QED
      BY <2>2, <3>2 DEF EpisodeId, Exists
  <2> QED
    BY <2>1, <2>2
<1> QED
  BY <1>1 DEF EpisodeId

\* A status written to rows that have one is a move of the abstract queue.
LEMMA SetJobsMoves ==
    ASSUME RowsOK, NEW S \in SUBSET Jobs, NEW from, NEW s, SetJobs(S, s),
           \A j \in S : jobStatus[j] \in from
    PROVE  Queue!Move(S, from, s)
BY DEF SetJobs, Queue!Move, Answered

\* A row that exists keeps its episode whatever status it is given.
LEMMA SetJobsKeeps ==
    ASSUME RowsOK, NEW S \in SUBSET Jobs, NEW s, SetJobs(S, s), UNCHANGED status,
           s \notin {"absent", "purged"},
           \A j \in S : jobStatus[j] \notin {"absent", "purged"}
    PROVE  UNCHANGED EpisodeId
BY EpisodeIdKept DEF SetJobs, Exists

\* The tables start as an empty queue.
LEMMA WorkInit == Init => Queue!QueueInit
BY DEF Init, Queue!QueueInit, EpisodeId, Answered

\* Each statement is a step of the queue, or leaves it as it is.
LEMMA WorkNext ==
    ASSUME NEW X, Foreign(X), Typed(X), QueueInv, [Next]_vars
    PROVE  [Queue!QueueNext]_(Queue!queueVars)
<1> DEFINE Step == [Queue!QueueNext]_(Queue!queueVars)
<1>0. RowsOK
  BY DEF Typed
<1>1. ASSUME UNCHANGED jobVars, \A e \in Episodes : Exists(e)' <=> Exists(e) PROVE Step
  BY <1>0, <1>1, EpisodeIdKept DEF jobVars, Queue!queueVars, Answered
<1>2. ASSUME UNCHANGED jobVars, UNCHANGED status PROVE Step
  BY <1>1, <1>2 DEF Exists
<1>3. ASSUME NEW e \in Episodes, Discover(e) PROVE Step
  \* No job was created for a row that did not exist.
  <2>1. \A j \in Jobs : jobStatus[j] # "absent" => target[j] \in Episodes \ {e}
    BY <1>0, <1>3 DEF Discover, QueueInv, JobTargetsExist, RowsOK
  <2>2. \A f \in Episodes \ {e} : status'[f] = status[f]
    BY <1>0, <1>3 DEF Discover, RowsOK
  <2>3. \A j \in Jobs : EpisodeId'[j] = EpisodeId[j]
    BY <1>3, <2>1, <2>2 DEF Discover, EpisodeId, Exists, jobVars
  <2>4. UNCHANGED EpisodeId
    BY <2>3 DEF EpisodeId
  <2> QED
    BY <1>3, <2>4 DEF Discover, jobVars, Queue!queueVars, Answered
<1>4. ASSUME NEW e \in Episodes, BlacklistShort(e) \/ Orphan(e) \/ Reactivate(e) PROVE Step
  <2>1. \A f \in Episodes : Exists(f)' <=> Exists(f)
    BY <1>0, <1>4 DEF BlacklistShort, Orphan, Reactivate, Exists, RowsOK
  <2> QED
    BY <1>1, <1>4, <2>1 DEF BlacklistShort, Orphan, Reactivate
<1>5. ASSUME NEW S \in SUBSET Jobs, \A j \in S : jobStatus[j] = "claimed",
             SetJobs(S, "pending"), UNCHANGED status
      PROVE  Step
  <2>1. Queue!GiveBack(S)
    BY <1>0, <1>5, SetJobsMoves, SetJobsKeeps DEF Queue!GiveBack
  <2> QED
    BY <2>1 DEF Queue!QueueNext
<1>6. ASSUME NEW w \in Workers, NextReset(w) PROVE Step
  <2> DEFINE S == {j \in Jobs : jobStatus[j] = "claimed" /\ claimedBy[j] = w}
  <2>1. S \in SUBSET Jobs /\ (\A j \in S : jobStatus[j] = "claimed") /\ SetJobs(S, "pending") /\ UNCHANGED status
    BY <1>6 DEF NextReset, epVars
  <2> HIDE DEF S, Step
  <2> QED
    BY <1>5, <2>1
<1>7. ASSUME NEW S \in SUBSET Jobs, Reclaim(S) PROVE Step
  BY <1>5, <1>7 DEF Reclaim, epVars
<1>8. ASSUME NEW c \in calls, Claim(c) PROVE Step
  <2>1. UNCHANGED status
    BY <1>8 DEF Claim, epVars
  <2>2. CASE UNCHANGED jobVars
    BY <1>2, <2>1, <2>2
  <2>3. ASSUME NEW j \in Jobs, jobStatus[j] = "pending",
               jobStatus' = [jobStatus EXCEPT ![j] = "claimed"],
               attempts' = [attempts EXCEPT ![j] = @ + 1],
               UNCHANGED <<target, answers>>
        PROVE  Step
    <3>1. UNCHANGED EpisodeId
      BY <1>0, <2>1, <2>3, EpisodeIdKept DEF Exists, RowsOK
    <3>2. Queue!Take(j)
      BY <2>3, <3>1 DEF Queue!Take, Answered
    <3> QED
      BY <3>2 DEF Queue!QueueNext
  <2> QED
    BY <1>8, <2>2, <2>3 DEF Claim
<1>9. ASSUME NEW p \in posts, AcceptComplete(p) \/ AcceptFail(p) PROVE Step
  <2>1. p.job \in Jobs /\ p.attempt \in 1..MaxAttempts /\ answers[p.job] \in Seq(1..MaxAttempts)
    BY <1>0 DEF RowsOK
  <2>2. PICK s \in {"completed", "failed"} : Answer(p, s)
    BY <1>9 DEF AcceptComplete, AcceptFail
  <2>3. UNCHANGED EpisodeId
    BY <1>0, <1>9, <2>1, <2>2, EpisodeIdKept DEF AcceptComplete, AcceptFail, Answer, epVars, Exists, RowsOK
  <2>4. Answered' = [Answered EXCEPT ![p.job] = @ + 1]
    <3>1. Len(Append(answers[p.job], p.attempt)) = Len(answers[p.job]) + 1
      BY <2>1
    <3>2. answers' = [answers EXCEPT ![p.job] = Append(@, p.attempt)] /\ answers \in [Jobs -> Seq(1..MaxAttempts)]
      BY <1>0, <2>2 DEF Answer, RowsOK
    <3> QED
      BY <2>1, <3>1, <3>2 DEF Answered
  <2>5. Queue!Accept(p.job)
    BY <2>1, <2>2, <2>3, <2>4 DEF Answer, Queue!Accept
  <2> QED
    BY <2>1, <2>5 DEF Queue!QueueNext
<1>10. ASSUME NEW c \in calls, InsertJob(c) PROVE Step
  <2>1. UNCHANGED status
    BY <1>10 DEF InsertJob, epVars
  <2>2. CASE UNCHANGED jobVars
    BY <1>2, <2>1, <2>2
  <2>3. ASSUME NEW e \in c.rows, NEW j \in Jobs,
               Exists(e), LiveJobs(e) = {}, jobStatus[j] = "absent",
               jobStatus' = [jobStatus EXCEPT ![j] = "pending"],
               target' = [target EXCEPT ![j] = e],
               UNCHANGED <<attempts, answers>>
        PROVE  Step
    <3>1. e \in Episodes
      BY <1>10, CallData DEF InsertJob, Typed
    <3>2. EpisodeId' = [EpisodeId EXCEPT ![j] = e]
      BY <1>0, <2>1, <2>3, <3>1 DEF EpisodeId, Exists, RowsOK
    <3>3. Queue!Submit(j, e)
      BY <1>0, <2>3, <3>1, <3>2, UnderWayIsLive DEF Queue!Submit, Answered
    <3> QED
      BY <3>1, <3>3 DEF Queue!QueueNext
  <2> QED
    BY <1>10, <2>2, <2>3 DEF InsertJob
<1>11. ASSUME NEW c \in calls, MarkDownloading(c) PROVE Step
  <2>1. c.ep \in Episodes
    BY <1>11, CallData DEF MarkDownloading, Typed
  <2> QED
    BY <1>0, <1>1, <1>11, <2>1 DEF MarkDownloading, SetStatus, Exists, RowsOK
<1>12. ASSUME NEW c \in calls, Settle(c) PROVE Step
  <2>1. c.ep \in Episodes /\ c.to \in EpisodeStatuses \ {"absent", "gone"}
    BY <1>12, CallData DEF Settle, Typed
  <2> QED
    BY <1>0, <1>1, <1>12, <2>1 DEF Settle, SetStatus, Exists, RowsOK
<1>13. ASSUME RecoverInterrupted, UNCHANGED jobVars PROVE Step
  BY <1>0, <1>1, <1>13 DEF RecoverInterrupted, Stuck, Exists, RowsOK
<1>14. ASSUME NEW S \in SUBSET Jobs, Purge(S) PROVE Step
  <2>1. EpisodeId' = [j \in Jobs |-> IF j \in S THEN NoEpisode ELSE EpisodeId[j]]
    BY <1>14 DEF Purge, SetJobs, epVars, EpisodeId, Exists
  <2>2. Queue!Discard(S)
    <3>1. SetJobs(S, "purged") /\ \A j \in S : jobStatus[j] \in {"completed", "failed"}
      BY <1>14 DEF Purge
    <3>2. Queue!Move(S, {"completed", "failed"}, "purged")
      BY <1>0, <3>1, SetJobsMoves
    <3> QED
      BY <2>1, <3>2 DEF Queue!Discard
  <2> QED
    BY <2>2 DEF Queue!QueueNext
<1> HIDE DEF Step
<1>15. Step
  BY <1>2, <1>3, <1>4, <1>6, <1>7, <1>8, <1>9, <1>10, <1>11, <1>12, <1>13, <1>14
  DEF Next, Run, HandlerStep, Dispatch, Post, CrashWorker, LosePost, StoreTranscript, Recover,
      Restart, epVars, vars
<1> QED
  BY <1>15 DEF Step

\* Whatever handlers are suspended and however workers and results behave, the
\* jobs table goes through the steps of an atomic queue.
THEOREM JobsAreAQueue == Spec => ImplementsWorkQueue
<1>1. TypeOK /\ QueueInv /\ [Next]_vars => [Queue!QueueNext]_(Queue!queueVars)
  BY TypedNone, WorkNext
<1>2. Init => TypeOK /\ QueueInv
  BY InitType, QueueInit
<1>3. TypeOK /\ QueueInv /\ [Next]_vars => (TypeOK /\ QueueInv)'
  BY NextType, TypedNone, QueueNext
<1> QED
  BY <1>1, <1>2, <1>3, WorkInit, PTL DEF Spec, ImplementsWorkQueue, Queue!QueueSpec

-----------------------------------------------------------------------------
(* What that says of the jobs, without a look at the handlers.              *)

\* The abstract queue's own invariant.
AtomicInv == Queue!QueueTypeOK /\ Queue!OneUnderWay /\ Queue!AnswersAreTaken

LEMMA AtomicInit == Queue!QueueInit => AtomicInv
BY DEF Queue!QueueInit, AtomicInv, Queue!QueueTypeOK, Queue!OneUnderWay, Queue!UnderWay, Queue!AnswersAreTaken

LEMMA AtomicStep == AtomicInv /\ [Queue!QueueNext]_(Queue!queueVars) => AtomicInv'
<1> SUFFICES ASSUME AtomicInv, [Queue!QueueNext]_(Queue!queueVars) PROVE AtomicInv'
  OBVIOUS
<1> USE DEF AtomicInv, Queue!QueueTypeOK, Queue!OneUnderWay, Queue!UnderWay, Queue!AnswersAreTaken
<1>1. ASSUME NEW j \in Jobs, NEW e \in Episodes, Queue!Submit(j, e) PROVE AtomicInv'
  BY <1>1 DEF Queue!Submit
<1>2. ASSUME NEW j \in Jobs, Queue!Take(j) PROVE AtomicInv'
  BY <1>2 DEF Queue!Take
<1>3. ASSUME NEW j \in Jobs, Queue!Accept(j) PROVE AtomicInv'
  BY <1>3 DEF Queue!Accept
<1>4. ASSUME NEW j \in Jobs, Queue!Revive(j) PROVE AtomicInv'
  BY <1>4 DEF Queue!Revive, Queue!Move
<1>5. ASSUME NEW S \in SUBSET Jobs, Queue!GiveBack(S) PROVE AtomicInv'
  BY <1>5 DEF Queue!GiveBack, Queue!Move
<1>6. ASSUME NEW S \in SUBSET Jobs, Queue!Withdraw(S) PROVE AtomicInv'
  BY <1>6 DEF Queue!Withdraw, Queue!Move
<1>7. ASSUME NEW S \in SUBSET Jobs, Queue!Discard(S) PROVE AtomicInv'
  BY <1>7 DEF Queue!Discard, Queue!Move
<1>8. ASSUME NEW e \in Episodes, Queue!Forget(e) PROVE AtomicInv'
  BY <1>8, IdsAssumption DEF Queue!Forget
<1>9. CASE UNCHANGED Queue!queueVars
  BY <1>9 DEF Queue!queueVars
<1> QED
  BY <1>1, <1>2, <1>3, <1>4, <1>5, <1>6, <1>7, <1>8, <1>9 DEF Queue!QueueNext

\* Whoever only knows that the jobs table is the atomic queue knows that an episode
\* has one job under way, and that there are no more results than claims, none of
\* the claim that is open: the two promises of worker_next_job and worker_complete
\* (main.py:154-240) on which everything after them relies.
THEOREM QueueKeepsPromises ==
    Queue!QueueSpec => [](Queue!OneUnderWay /\ Queue!AnswersAreTaken)
<1>1. AtomicInv => Queue!OneUnderWay /\ Queue!AnswersAreTaken
  BY DEF AtomicInv
<1> QED
  BY <1>1, AtomicInit, AtomicStep, PTL DEF Queue!QueueSpec

=============================================================================
