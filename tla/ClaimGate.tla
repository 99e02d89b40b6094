----------------------------- MODULE ClaimGate -----------------------------
(***************************************************************************)
(* Which job a worker gets, and when there is any: the order of the queue, *)
(* the pause gate in memory and in the settings table, the failure streak  *)
(* that closes it, and the dispatcher that fills the queue when it is      *)
(* woken.  JobQueue models what then happens to a job; here it is pending, *)
(* claimed or done.  The auto_download setting is on.                      *)
(***************************************************************************)
EXTENDS Integers, Sequences, FiniteSets

CONSTANTS
    Workers,      \* blurb workers; each has one request at a time on its way
    Nobody,       \* claimed_by_worker IS NULL
    Threshold,    \* consecutive failures that pause processing (5 in the code)
    EnvOps,       \* which of "timer" and "dberror" happen here
    MaxJobs,      \* bound: job rows
    MaxRestarts   \* bound: how often the conductor dies

ASSUME GateAssumption == /\ Nobody \notin Workers
                         /\ IsFiniteSet(Workers)
                         /\ Threshold \in Nat \ {0}
                         /\ MaxJobs \in Nat /\ MaxRestarts \in Nat

VARIABLES
    jobs,      \* the rows of jobs in the order of created_at
    holding,   \* the job each worker works on, 0 for none
    paused,    \* _processing_paused
    saved,     \* the row processing_paused of settings
    failures,  \* _consecutive_failures
    woken,     \* _dispatch_wakeup.is_set()
    phase,     \* where dispatch_worker is
    backlog,   \* what kinds of discovered episodes wait for a job (Origins)
    rows,      \* what the sweep under way has selected of them
    calls,     \* suspended handlers
    restarts,  \* how often the conductor has died
    leaked     \* history: process jobs started since the pause that holds began

queueVars == <<jobs, holding>>
gateVars  == <<paused, saved, failures, leaked>>
loopVars  == <<woken, phase, backlog, rows>>
vars      == <<queueVars, gateVars, loopVars, calls, restarts>>

-----------------------------------------------------------------------------
(* The order of the queue.                                                 *)

\* Episodes of a discovery with auto_queue, or without, "for review".
Origins == {"announced", "review"}

Job(k) == [kind |-> k, status |-> "pending", priority |-> 0, by |-> Nobody]

Marked(r, s, w) == [r EXCEPT !.status = s, !.by = w]
Ranked(r, p)    == [r EXCEPT !.priority = p]

\* A row is added, unless another handler has just given its target a job.
Create(k) == \/ UNCHANGED jobs
             \/ Len(jobs) < MaxJobs /\ jobs' = Append(jobs, Job(k))

Pending == {i \in DOMAIN jobs : jobs[i].status = "pending"}

\* ORDER BY priority DESC, created_at
Before(i, k) == \/ jobs[i].priority > jobs[k].priority
                \/ jobs[i].priority = jobs[k].priority /\ i < k

\* Mutant of Claimable: the gate is tested after LIMIT 1.
ClaimableMutant(gate) ==
    {i \in Pending : (jobs[i].kind # "process" \/ gate = "open") /\ \A k \in Pending \ {i} : Before(i, k)}

Claimable(gate) == {i \in Pending : jobs[i].kind # "process" \/ gate = "open"}

Prioritize(i) ==
    /\ i \in Pending
    /\ jobs' = [jobs EXCEPT ![i] = Ranked(@, 1)]
    /\ UNCHANGED <<holding, gateVars, loopVars, calls, restarts>>

\* The undo of job.prioritize, whatever the job has become.
Deprioritize(i) ==
    /\ i \in DOMAIN jobs /\ jobs[i].priority = 1
    /\ jobs' = [jobs EXCEPT ![i] = Ranked(@, 0)]
    /\ UNCHANGED <<holding, gateVars, loopVars, calls, restarts>>

\* run_discovery and queue_episodes_for_processing, which knows no gate.
Enqueue(k) ==
    /\ Len(jobs) < MaxJobs
    /\ jobs' = Append(jobs, Job(k))
    /\ UNCHANGED <<holding, gateVars, loopVars, calls, restarts>>

-----------------------------------------------------------------------------
(* Workers.                                                                *)

\* is_processing_paused()
Gate == IF paused THEN "closed" ELSE "open"

Idle(w) == holding[w] = 0 /\ \A c \in calls : c.at \notin {"pause", "resume"} => c.by # w

\* The first statement of GET /worker/jobs/next gives the worker's claims back.
Poll(w) ==
    /\ Idle(w)
    /\ jobs' = [i \in DOMAIN jobs |->
                  IF jobs[i].status = "claimed" /\ jobs[i].by = w
                  THEN Marked(jobs[i], "pending", Nobody) ELSE jobs[i]]
    /\ calls' = calls \cup {[at |-> "read", by |-> w]}
    /\ UNCHANGED <<holding, gateVars, loopVars, restarts>>

\* Mutant of Read: the gate is not read.
ReadMutant(c) ==
    /\ c.at = "read"
    /\ calls' = (calls \ {c}) \cup {[at |-> "claim", by |-> c.by, gate |-> "open"]}
    /\ UNCHANGED <<queueVars, gateVars, loopVars, restarts>>

\* The second is sent with the gate as it is then.
Read(c) ==
    /\ c.at = "read"
    /\ calls' = (calls \ {c}) \cup {[at |-> "claim", by |-> c.by, gate |-> Gate]}
    /\ UNCHANGED <<queueVars, gateVars, loopVars, restarts>>

\* It runs; its response may be lost.
Claim(c) ==
    /\ c.at = "claim"
    /\ \/ Claimable(c.gate) = {} /\ UNCHANGED <<queueVars, leaked>>
       \/ \E i \in Claimable(c.gate) :
            /\ \A k \in Claimable(c.gate) \ {i} : Before(i, k)
            /\ jobs' = [jobs EXCEPT ![i] = Marked(@, "claimed", c.by)]
            /\ holding' = [holding EXCEPT ![c.by] = i] \/ UNCHANGED holding
            /\ leaked' = IF paused /\ jobs[i].kind = "process" THEN leaked + 1 ELSE leaked
    /\ calls' = calls \ {c}
    /\ UNCHANGED <<paused, saved, failures, loopVars, restarts>>

\* The worker reports.  A discovery that found episodes wakes the dispatcher; a
\* processed or failed episode is checked for the streak; one that is too short or
\* rate limited is not.
Finish(w) ==
    /\ holding[w] # 0
    /\ jobs' = [jobs EXCEPT ![holding[w]] = Marked(@, "done", Nobody)]
    /\ holding' = [holding EXCEPT ![w] = 0]
    /\ \/ UNCHANGED <<calls, backlog>>
       \/ /\ jobs[holding[w]].kind = "discover"
          /\ \/ /\ backlog' = backlog \cup {"announced"}
                /\ calls' = calls \cup {[at |-> "wake", by |-> w]}
             \/ /\ backlog' = backlog \cup {"review"}
                /\ UNCHANGED calls
       \/ /\ jobs[holding[w]].kind = "process"
          /\ calls' = calls \cup {[at |-> "check", by |-> w]}
          /\ UNCHANGED backlog
    /\ UNCHANGED <<gateVars, woken, phase, rows, restarts>>

Wake(c) ==
    /\ c.at = "wake"
    /\ woken' = TRUE
    /\ calls' = calls \ {c}
    /\ UNCHANGED <<queueVars, gateVars, phase, backlog, rows, restarts>>

-----------------------------------------------------------------------------
(* The pause gate.  Memory changes at once, the row when its statement runs. *)

Close == paused' = TRUE /\ leaked' = IF paused THEN leaked ELSE 0

\* _check_consecutive_failure re-reads the status of the episode, which may have
\* been retried, or have failed again, since the handler wrote it.
Check(c) ==
    /\ c.at = "check"
    /\ \/ /\ failures' = 0
          /\ calls' = calls \ {c}
          /\ UNCHANGED <<paused, leaked>>
       \/ /\ failures' = failures + 1
          /\ IF failures' >= Threshold
             THEN Close /\ calls' = (calls \ {c}) \cup {[at |-> "auto", by |-> c.by]}
             ELSE calls' = calls \ {c} /\ UNCHANGED <<paused, leaked>>
    /\ UNCHANGED <<queueVars, saved, loopVars, restarts>>

AutoPause(c) ==
    /\ c.at = "auto"
    /\ saved' = TRUE
    /\ failures' = 0
    /\ calls' = calls \ {c}
    /\ UNCHANGED <<queueVars, paused, leaked, loopVars, restarts>>

Pause ==
    /\ Close
    /\ calls' = calls \cup {[at |-> "pause"]}
    /\ UNCHANGED <<queueVars, saved, failures, loopVars, restarts>>

\* Mutant of Resume: the streak goes on.
ResumeMutant ==
    /\ paused' = FALSE
    /\ calls' = calls \cup {[at |-> "resume"]}
    /\ UNCHANGED <<queueVars, saved, failures, leaked, loopVars, restarts>>

Resume ==
    /\ paused' = FALSE
    /\ failures' = 0
    /\ calls' = calls \cup {[at |-> "resume"]}
    /\ UNCHANGED <<queueVars, saved, leaked, loopVars, restarts>>

\* _persist_processing_paused, and the wakeup after it that resume adds.
Save(c) ==
    /\ c.at \in {"pause", "resume"}
    /\ saved' = (c.at = "pause")
    /\ woken' = (woken \/ c.at = "resume")
    /\ calls' = calls \ {c}
    /\ UNCHANGED <<queueVars, paused, failures, leaked, phase, backlog, rows, restarts>>

\* The UPSERT of a pause, a resume or an automatic pause raises.
SaveFails(c) ==
    /\ "dberror" \in EnvOps
    /\ c.at \in {"pause", "resume", "auto"}
    /\ calls' = calls \ {c}
    /\ UNCHANGED <<queueVars, gateVars, loopVars, restarts>>

-----------------------------------------------------------------------------
(* dispatch_worker.                                                        *)

LoopStart ==
    /\ phase = "start"
    /\ woken' = FALSE
    /\ phase' = IF paused THEN "wait" ELSE "select"
    /\ UNCHANGED <<queueVars, gateVars, backlog, rows, calls, restarts>>

\* The SELECT of sync_process_jobs takes every eligible episode; those that come
\* later are left for another sweep.
LoopSelect ==
    /\ phase = "select"
    /\ phase' = IF backlog # {} THEN "insert" ELSE "wait"
    /\ rows' = backlog /\ backlog' = {}
    /\ UNCHANGED <<queueVars, gateVars, woken, calls, restarts>>

\* Mutant of LoopInsert: the event is cleared after the sweep instead of before.
LoopInsertMutant ==
    /\ phase = "insert"
    /\ Create("process")
    /\ phase' = "wait"
    /\ rows' = {}
    /\ woken' = FALSE
    /\ UNCHANGED <<holding, gateVars, backlog, calls, restarts>>

LoopInsert ==
    /\ phase = "insert"
    /\ Create("process")
    /\ phase' = "wait"
    /\ rows' = {}
    /\ UNCHANGED <<holding, gateVars, woken, backlog, calls, restarts>>

\* The sweep raises: a pause of five seconds and the loop starts again.
LoopFails ==
    /\ "dberror" \in EnvOps
    /\ phase \in {"select", "insert"}
    /\ phase' = "start"
    /\ backlog' = backlog \cup rows /\ rows' = {}
    /\ UNCHANGED <<queueVars, gateVars, woken, calls, restarts>>

\* asyncio.wait_for(_dispatch_wakeup.wait(), 300 s)
LoopWoken ==
    /\ phase = "wait" /\ woken
    /\ phase' = "start"
    /\ UNCHANGED <<queueVars, gateVars, woken, backlog, rows, calls, restarts>>

LoopTimeout ==
    /\ "timer" \in EnvOps
    /\ phase = "wait"
    /\ phase' = "start"
    /\ UNCHANGED <<queueVars, gateVars, woken, backlog, rows, calls, restarts>>

\* The conductor dies and starts again; start_scheduler reads the row.
Restart ==
    /\ restarts < MaxRestarts
    /\ restarts' = restarts + 1
    /\ paused' = saved
    /\ failures' = 0
    /\ leaked' = 0
    /\ woken' = FALSE
    /\ phase' = "start"
    /\ backlog' = backlog \cup rows /\ rows' = {}
    /\ calls' = {}
    /\ UNCHANGED <<queueVars, saved>>

-----------------------------------------------------------------------------

Init ==
    /\ jobs = <<>>
    /\ holding = [w \in Workers |-> 0]
    /\ paused = FALSE /\ saved = FALSE /\ failures = 0 /\ leaked = 0
    /\ woken = FALSE /\ phase = "start" /\ backlog = {} /\ rows = {}
    /\ calls = {}
    /\ restarts = 0

HandlerStep(c) == Read(c) \/ Claim(c) \/ Wake(c) \/ Check(c) \/ AutoPause(c) \/ Save(c)

Loop == LoopStart \/ LoopSelect \/ LoopInsert \/ LoopWoken

Next ==
    \/ \E i \in DOMAIN jobs : Prioritize(i) \/ Deprioritize(i)
    \/ \E k \in {"discover", "process"} : Enqueue(k)
    \/ \E w \in Workers : Poll(w) \/ Finish(w)
    \/ \E c \in calls : HandlerStep(c) \/ SaveFails(c)
    \/ Pause \/ Resume
    \/ Loop \/ LoopFails \/ LoopTimeout
    \/ Restart

Spec == Init /\ [][Next]_vars

(* Suspended handlers and the dispatcher go on.  The timer is not relied on.   *)
(* Of blurb it is assumed that it goes on polling and reporting, and of the    *)
(* network that it does not lose every job it is sent.                         *)
Fairness ==
    /\ \A w \in Workers : WF_vars(Poll(w)) /\ WF_vars(Finish(w))
    /\ \A w \in Workers : SF_vars(\E c \in calls : Claim(c) /\ holding'[w] # holding[w])
    /\ \A w \in Workers, point \in {"read", "claim", "wake", "check", "auto"} :
         WF_vars(\E c \in calls : c.at = point /\ c.by = w /\ HandlerStep(c))
    /\ \A point \in {"pause", "resume"} :
         WF_vars(\E c \in calls : c.at = point /\ HandlerStep(c))
    /\ WF_vars(Loop)

FairSpec == Spec /\ Fairness

-----------------------------------------------------------------------------
(* Properties.                                                             *)

JobRows == [kind : {"discover", "process"}, status : {"pending", "claimed", "done"},
            priority : {0, 1}, by : Workers \cup {Nobody}]
Calls == [at : {"claim"}, by : Workers, gate : {"open", "closed"}]
         \cup [at : {"read", "wake", "check", "auto"}, by : Workers]
         \cup [at : {"pause", "resume"}]

RowsOK ==
    /\ jobs \in Seq(JobRows) /\ Len(jobs) <= MaxJobs
    /\ \A i \in DOMAIN jobs : jobs[i].status # "claimed" => jobs[i].by = Nobody
    /\ holding \in [Workers -> 0..MaxJobs]
    /\ \A w \in Workers : holding[w] # 0 =>
         holding[w] \in DOMAIN jobs /\ jobs[holding[w]].by = w

FlagsOK == paused \in BOOLEAN /\ saved \in BOOLEAN /\ woken \in BOOLEAN

CountersOK == failures \in Nat /\ leaked \in Nat /\ restarts \in 0..MaxRestarts

LoopOK ==
    /\ phase \in {"start", "select", "insert", "wait"}
    /\ backlog \in SUBSET Origins /\ rows \in SUBSET Origins

\* Rows, flags and suspended handlers hold what they can hold, and a worker works on
\* a row that is claimed for it.
GateTypeOK == RowsOK /\ FlagsOK /\ CountersOK /\ LoopOK /\ calls \in SUBSET Calls

\* A pause stops process jobs but for the requests that were on their way: however
\* often it is repeated, and whatever is queued, at most one per worker starts.
PauseLeaksOnePerWorker == paused => leaked <= Cardinality(Workers)

\* A streak that reached the threshold keeps processing paused until it is cleared,
\* whatever resumes, restarts and failed writes come between.
StreakPauses == failures >= Threshold => paused

\* The row survives a restart as "the in-memory source of truth": with no pause,
\* resume or automatic pause under way, it says what memory says.  It does not hold
\* (README, "Statements that do not hold").
SavedIsCurrent ==
    (\A c \in calls : c.at \notin {"pause", "resume", "auto"}) => saved = paused

\* Discovery "for review" (auto_queue=False) is "without auto-dispatching process jobs
\* afterward": no sweep takes what it found.  It does not hold either.
ReviewIsLeftAlone == "review" \notin rows

\* What BacklogIsSwept rests on: while nothing is paused, a dispatcher that sleeps
\* beside announced episodes is about to be woken, whatever it was doing when they
\* came or the pause ended, unless the database refused a write of the gate.
Waking == woken \/ \E c \in calls : c.at \in {"wake", "resume"}
NoLostWakeup ==
    "dberror" \notin EnvOps /\ "announced" \in backlog /\ phase = "wait" /\ ~paused => Waking

\* No wakeup is lost: episodes announced while the dispatcher sweeps, waits or is
\* paused are swept once it is not, even if its timer never fires.
BacklogIsSwept ==
    "announced" \in backlog /\ ~paused ~> "announced" \notin backlog \/ paused

\* Discovery is not stopped by a pause, nor by process jobs at the head of the queue
\* that a pause keeps from being claimed.
DiscoveryRuns ==
    \A i \in 1..MaxJobs :
        i \in Pending /\ jobs[i].kind = "discover" ~> i \notin Pending

=============================================================================
