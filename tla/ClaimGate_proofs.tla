-------------------------- MODULE ClaimGate_proofs --------------------------
(***************************************************************************)
(* Theorems about ClaimGate, for any workers, threshold and bounds.        *)
(***************************************************************************)
EXTENDS ClaimGate, FiniteSetTheorems, TLAPS

\* A marked or ranked row is a row.
LEMMA RowMarked ==
    ASSUME NEW r \in JobRows, NEW s \in {"pending", "claimed", "done"},
           NEW w \in Workers \cup {Nobody}
    PROVE  Marked(r, s, w) \in JobRows /\ Marked(r, s, w).status = s /\ Marked(r, s, w).by = w
BY DEF Marked, JobRows

\* Its rank changes neither its status nor its claimant.
LEMMA RowRanked ==
    ASSUME NEW r \in JobRows, NEW p \in {0, 1}
    PROVE  /\ Ranked(r, p) \in JobRows
           /\ Ranked(r, p).status = r.status /\ Ranked(r, p).by = r.by
BY DEF Ranked, JobRows

\* A table of rows in which each row is replaced by a row is a table of that length.
LEMMA RowsReplaced ==
    ASSUME NEW s \in Seq(JobRows), NEW t,
           t = [i \in DOMAIN s |-> t[i]], \A i \in DOMAIN s : t[i] \in JobRows
    PROVE  t \in Seq(JobRows) /\ Len(t) = Len(s) /\ DOMAIN t = DOMAIN s
<1>1. Len(s) \in Nat /\ DOMAIN s = 1..Len(s)
  OBVIOUS
<1>2. t \in [1..Len(s) -> JobRows]
  BY <1>1
<1>3. t \in Seq(JobRows)
  BY <1>1, <1>2
<1> QED
  BY <1>1, <1>2, <1>3

\* A job is created as a pending row of nobody.
LEMMA JobCreated ==
    ASSUME RowsOK, NEW k \in {"discover", "process"}, Len(jobs) < MaxJobs,
           jobs' = Append(jobs, Job(k)), holding' = holding
    PROVE  RowsOK'
<1>1. jobs \in Seq(JobRows) /\ Len(jobs) \in Nat /\ MaxJobs \in Nat
  BY GateAssumption DEF RowsOK
<1>2. Job(k) \in JobRows /\ Job(k).by = Nobody
  BY DEF Job, JobRows
<1>3. /\ jobs' \in Seq(JobRows) /\ Len(jobs') = Len(jobs) + 1
      /\ \A i \in 1..Len(jobs) : jobs'[i] = jobs[i]
      /\ jobs'[Len(jobs) + 1] = Job(k)
  BY <1>1, <1>2
<1>4. DOMAIN jobs = 1..Len(jobs) /\ DOMAIN jobs' = 1..(Len(jobs) + 1)
  BY <1>1, <1>3
<1>5. \A i \in DOMAIN jobs : i \in DOMAIN jobs' /\ jobs'[i] = jobs[i]
  BY <1>1, <1>3, <1>4
<1>6. \A i \in DOMAIN jobs' : jobs'[i].status # "claimed" => jobs'[i].by = Nobody
  BY <1>1, <1>2, <1>3, <1>4 DEF RowsOK
<1> QED
  BY <1>1, <1>3, <1>5, <1>6 DEF RowsOK

\* The tables are typed at the start.
LEMMA GateTypeInit == Init => GateTypeOK
<1> SUFFICES ASSUME Init PROVE GateTypeOK
  OBVIOUS
<1>1. RowsOK
  BY GateAssumption DEF Init, RowsOK
<1>2. FlagsOK
  BY Zenon DEF Init, FlagsOK
<1>3. CountersOK /\ LoopOK /\ calls \in SUBSET Calls
  BY GateAssumption DEF Init, CountersOK, LoopOK
<1> QED
  BY <1>1, <1>2, <1>3 DEF GateTypeOK

\* Every step keeps rows typed, and keeps the worker of a job its claimant.
LEMMA RowsNext == GateTypeOK /\ [Next]_vars => RowsOK'
<1> SUFFICES ASSUME GateTypeOK, [Next]_vars PROVE RowsOK'
  OBVIOUS
<1>0. RowsOK /\ calls \in SUBSET Calls
  BY DEF GateTypeOK
<1>1. ASSUME NEW i \in DOMAIN jobs, Prioritize(i) \/ Deprioritize(i) PROVE RowsOK'
  <2>1. PICK p \in {0, 1} : jobs' = [jobs EXCEPT ![i] = Ranked(@, p)]
    BY <1>1 DEF Prioritize, Deprioritize
  <2>2. \A k \in DOMAIN jobs : /\ jobs'[k] \in JobRows
                               /\ jobs'[k].status = jobs[k].status
                               /\ jobs'[k].by = jobs[k].by
    BY <1>0, <2>1, RowRanked DEF RowsOK
  <2>3. jobs' \in Seq(JobRows) /\ Len(jobs') = Len(jobs) /\ DOMAIN jobs' = DOMAIN jobs
    BY <1>0, <2>1, <2>2, RowsReplaced DEF RowsOK
  <2>4. holding' = holding
    BY <1>1 DEF Prioritize, Deprioritize
  <2> QED
    BY <1>0, <2>2, <2>3, <2>4 DEF RowsOK
<1>2. ASSUME NEW k \in {"discover", "process"}, Enqueue(k) PROVE RowsOK'
  BY <1>0, <1>2, JobCreated DEF Enqueue
<1>3. ASSUME NEW w \in Workers, Poll(w) PROVE RowsOK'
  <2>1. \A k \in DOMAIN jobs :
           /\ jobs'[k] \in JobRows
           /\ jobs'[k].status # "claimed" => jobs'[k].by = Nobody
           /\ jobs[k].by # w => jobs'[k] = jobs[k]
    <3> SUFFICES ASSUME NEW k \in DOMAIN jobs
                 PROVE  /\ jobs'[k] \in JobRows
                        /\ jobs'[k].status # "claimed" => jobs'[k].by = Nobody
                        /\ jobs[k].by # w => jobs'[k] = jobs[k]
      OBVIOUS
    <3>1. jobs[k] \in JobRows /\ (jobs[k].status # "claimed" => jobs[k].by = Nobody)
      BY <1>0 DEF RowsOK
    <3>2. jobs'[k] = IF jobs[k].status = "claimed" /\ jobs[k].by = w
                     THEN Marked(jobs[k], "pending", Nobody) ELSE jobs[k]
      BY <1>3 DEF Poll
    <3> QED
      BY <3>1, <3>2, RowMarked
  <2>2. jobs' \in Seq(JobRows) /\ Len(jobs') = Len(jobs) /\ DOMAIN jobs' = DOMAIN jobs
    BY <1>0, <1>3, <2>1, RowsReplaced DEF Poll, Idle, RowsOK
  <2>3. holding[w] = 0 /\ holding' = holding
    BY <1>3 DEF Poll, Idle
  <2> QED
    BY <1>0, <2>1, <2>2, <2>3 DEF RowsOK
<1>4. ASSUME NEW c \in calls, Claim(c) PROVE RowsOK'
  <2>1. c.by \in Workers
    BY <1>0, <1>4 DEF Claim, Calls
  <2>2. CASE UNCHANGED queueVars
    BY <1>0, <2>2 DEF queueVars, RowsOK
  <2>3. ASSUME NEW i \in Claimable(c.gate),
               jobs' = [jobs EXCEPT ![i] = Marked(@, "claimed", c.by)],
               holding' = [holding EXCEPT ![c.by] = i] \/ UNCHANGED holding
        PROVE  RowsOK'
    <3>1. i \in DOMAIN jobs /\ jobs[i].status = "pending" /\ jobs[i].by = Nobody
      BY <1>0, <2>3 DEF Claimable, Pending, RowsOK
    <3>r. jobs \in Seq(JobRows) /\ \A k \in DOMAIN jobs : jobs[k] \in JobRows
      BY <1>0 DEF RowsOK
    <3>m. LET r == Marked(jobs[i], "claimed", c.by)
          IN  r \in JobRows /\ r.status = "claimed" /\ r.by = c.by
      BY <2>1, <3>1, <3>r, RowMarked
    <3>2. \A k \in DOMAIN jobs :
             /\ jobs'[k] \in JobRows
             /\ k # i => jobs'[k] = jobs[k]
             /\ k = i => jobs'[k].by = c.by /\ jobs'[k].status = "claimed"
      BY <2>3, <3>1, <3>r, <3>m
    <3>d. jobs' = [k \in DOMAIN jobs |-> jobs'[k]]
      BY <2>3
    <3>3. jobs' \in Seq(JobRows) /\ Len(jobs') = Len(jobs) /\ DOMAIN jobs' = DOMAIN jobs
      BY ONLY <3>r, <3>2, <3>d, RowsReplaced
    <3>4. i \in 1..MaxJobs /\ holding' \in [Workers -> 0..MaxJobs]
      BY <1>0, <2>3, <3>1, GateAssumption DEF RowsOK
    <3>5. ASSUME NEW v \in Workers, holding'[v] # 0
          PROVE  holding'[v] \in DOMAIN jobs' /\ jobs'[holding'[v]].by = v
      <4>1. CASE holding'[v] = holding[v]
        BY <1>0, <3>1, <3>2, <3>3, <3>5, <4>1, GateAssumption DEF RowsOK
      <4>2. CASE holding'[v] # holding[v]
        <5>1. v = c.by /\ holding'[v] = i
          BY <1>0, <2>1, <2>3, <4>2 DEF RowsOK
        <5> QED
          BY <3>1, <3>2, <3>3, <5>1
      <4> QED
        BY <4>1, <4>2
    <3>6. \A k \in DOMAIN jobs' : jobs'[k].status # "claimed" => jobs'[k].by = Nobody
      BY <1>0, <3>2, <3>3 DEF RowsOK
    <3> QED
      BY <1>0, <3>3, <3>4, <3>5, <3>6 DEF RowsOK
  <2> QED
    BY <1>4, <2>2, <2>3 DEF Claim
<1>5. ASSUME NEW w \in Workers, Finish(w) PROVE RowsOK'
  <2> DEFINE i == holding[w]
  <2>1. /\ i \in DOMAIN jobs /\ jobs[i].by = w
        /\ jobs' = [jobs EXCEPT ![i] = Marked(@, "done", Nobody)]
        /\ holding' = [holding EXCEPT ![w] = 0]
    BY <1>0, <1>5 DEF Finish, RowsOK
  <2>2. \A k \in DOMAIN jobs :
           /\ jobs'[k] \in JobRows
           /\ k # i => jobs'[k] = jobs[k]
           /\ k = i => jobs'[k].by = Nobody
    BY <1>0, <2>1, RowMarked DEF RowsOK
  <2>3. jobs' \in Seq(JobRows) /\ Len(jobs') = Len(jobs) /\ DOMAIN jobs' = DOMAIN jobs
    BY <1>0, <2>1, <2>2, RowsReplaced DEF RowsOK
  <2>4. holding' \in [Workers -> 0..MaxJobs]
    BY <1>0, <2>1, GateAssumption DEF RowsOK
  <2>5. ASSUME NEW v \in Workers, holding'[v] # 0
        PROVE  holding'[v] \in DOMAIN jobs' /\ jobs'[holding'[v]].by = v
    <3>1. v # w /\ holding'[v] = holding[v]
      BY <1>0, <2>1, <2>5 DEF RowsOK
    <3> QED
      BY <1>0, <2>1, <2>2, <2>3, <2>5, <3>1 DEF RowsOK
  <2>6. \A k \in DOMAIN jobs' : jobs'[k].status # "claimed" => jobs'[k].by = Nobody
    BY <1>0, <2>2, <2>3 DEF RowsOK
  <2> QED
    BY <1>0, <2>3, <2>4, <2>5, <2>6 DEF RowsOK
<1>6. CASE LoopInsert
  <2>1. CASE UNCHANGED <<jobs, holding>>
    BY <1>0, <2>1 DEF RowsOK
  <2>2. CASE UNCHANGED holding /\ Len(jobs) < MaxJobs /\ jobs' = Append(jobs, Job("process"))
    BY <1>0, <2>2, JobCreated
  <2> QED
    BY <1>6, <2>1, <2>2 DEF LoopInsert, Create
<1>7. CASE UNCHANGED queueVars
  BY <1>0, <1>7 DEF queueVars, RowsOK
<1> QED
  BY <1>1, <1>2, <1>3, <1>4, <1>5, <1>6, <1>7
  DEF Next, HandlerStep, Read, Loop, Wake, Check, AutoPause, Save, SaveFails, Pause, Resume,
      LoopStart, LoopSelect, LoopWoken, LoopFails, LoopTimeout, Restart, vars, queueVars

\* The flags stay Boolean.
LEMMA FlagsNext == GateTypeOK /\ [Next]_vars => FlagsOK'
<1> SUFFICES ASSUME GateTypeOK, [Next]_vars PROVE FlagsOK'
  OBVIOUS
<1>1. FlagsOK
  BY DEF GateTypeOK
<1>2. /\ paused' \in {paused, saved, TRUE, FALSE}
      /\ woken' \in BOOLEAN \/ woken' = woken
      /\ saved' \in BOOLEAN \/ saved' = saved
  BY ZenonT(60)
  DEF Next, HandlerStep, Loop, Prioritize, Deprioritize, Enqueue, Poll, Read, Finish, Claim, Wake,
      Check, Close, AutoPause, Save, SaveFails, Pause, Resume, LoopStart, LoopSelect,
      LoopInsert, LoopWoken, LoopFails, LoopTimeout, Restart, vars, gateVars, loopVars
<1> QED
  BY <1>1, <1>2, Zenon DEF FlagsOK

\* So do the counters, the dispatcher and the suspended handlers.
LEMMA RestNext ==
    GateTypeOK /\ [Next]_vars => CountersOK' /\ LoopOK' /\ calls' \in SUBSET Calls
<1> SUFFICES ASSUME GateTypeOK, [Next]_vars
             PROVE  CountersOK' /\ LoopOK' /\ calls' \in SUBSET Calls
  OBVIOUS
<1>0. CountersOK /\ LoopOK /\ calls \in SUBSET Calls
  BY DEF GateTypeOK
<1>1. CountersOK'
  <2>1. failures' \in {failures, 0, failures + 1}
    BY DEF Next, HandlerStep, Loop, Prioritize, Deprioritize, Enqueue, Poll, Read, Finish, Claim,
           Wake, Check, AutoPause, Save, SaveFails, Pause, Resume, LoopStart, LoopSelect,
           LoopInsert, LoopWoken, LoopFails, LoopTimeout, Restart, vars, gateVars
  <2>2. leaked' \in {leaked, 0, leaked + 1}
    <3>1. Close => leaked' \in {leaked, 0}
      BY DEF Close
    <3>2. \A c \in calls : Check(c) => leaked' \in {leaked, 0}
      BY <3>1 DEF Check
    <3> QED
      BY <3>1, <3>2
      DEF Next, HandlerStep, Loop, Prioritize, Deprioritize, Enqueue, Poll, Read, Finish, Claim,
          Wake, AutoPause, Save, SaveFails, Pause, Resume, LoopStart, LoopSelect,
          LoopInsert, LoopWoken, LoopFails, LoopTimeout, Restart, vars, gateVars
  <2>3. \/ restarts' = restarts
        \/ restarts < MaxRestarts /\ restarts' = restarts + 1
    BY DEF Next, HandlerStep, Loop, Prioritize, Deprioritize, Enqueue, Poll, Read, Finish, Claim,
           Wake, Check, AutoPause, Save, SaveFails, Pause, Resume, LoopStart, LoopSelect,
           LoopInsert, LoopWoken, LoopFails, LoopTimeout, Restart, vars
  <2> QED
    BY <1>0, <2>1, <2>2, <2>3, GateAssumption DEF CountersOK
<1>2. LoopOK'
  BY <1>0
  DEF LoopOK, Origins, Next, HandlerStep, Loop, Prioritize, Deprioritize, Enqueue, Poll,
      Read, Finish, Claim, Wake, Check, AutoPause, Save, SaveFails, Pause, Resume, LoopStart,
      LoopSelect, LoopInsert, LoopWoken, LoopFails, LoopTimeout, Restart, vars, loopVars
<1>3. calls' \in SUBSET Calls
  <2>1. ASSUME NEW w \in Workers, Poll(w) PROVE calls' \in SUBSET Calls
    BY <1>0, <2>1 DEF Poll, Calls
  <2>2. ASSUME NEW w \in Workers, Finish(w) PROVE calls' \in SUBSET Calls
    BY <1>0, <2>2 DEF Finish, Calls
  <2>3. ASSUME NEW c \in calls, Check(c) PROVE calls' \in SUBSET Calls
    <3>1. c.by \in Workers
      BY <1>0, <2>3 DEF Check, Calls
    <3>2. [at |-> "auto", by |-> c.by] \in Calls
      BY <3>1 DEF Calls
    <3>3. calls' \in {calls \ {c}, (calls \ {c}) \cup {[at |-> "auto", by |-> c.by]}}
      BY <2>3, Zenon DEF Check
    <3> QED
      BY <1>0, <3>2, <3>3
  <2>r. ASSUME NEW c \in calls, Read(c) PROVE calls' \in SUBSET Calls
    <3>1. c.by \in Workers
      BY <1>0, <2>r DEF Read, Calls
    <3>2. [at |-> "claim", by |-> c.by, gate |-> Gate] \in Calls
      BY <3>1 DEF Calls, Gate
    <3> QED
      BY <1>0, <2>r, <3>2 DEF Read
  <2>4. CASE Pause \/ Resume
    BY <1>0, <2>4 DEF Pause, Resume, Calls
  <2>5. ASSUME NEW c \in calls, calls' = calls \ {c} PROVE calls' \in SUBSET Calls
    BY <1>0, <2>5
  <2>6. CASE calls' = calls \/ calls' = {}
    BY <1>0, <2>6
  <2> QED
    BY <2>1, <2>2, <2>3, <2>r, <2>4, <2>5, <2>6
    DEF Next, HandlerStep, Loop, Prioritize, Deprioritize, Enqueue, Claim, Wake, AutoPause,
        Save, SaveFails, LoopStart, LoopSelect, LoopInsert, LoopWoken, LoopFails,
        LoopTimeout, Restart, vars
<1> QED
  BY <1>0, <1>1, <1>2, <1>3

\* The rows of the queue, the gate and the suspended handlers stay typed.
THEOREM GateTypeCorrect == Spec => []GateTypeOK
<1>1. GateTypeOK /\ [Next]_vars => GateTypeOK'
  BY RowsNext, FlagsNext, RestNext DEF GateTypeOK
<1> QED
  BY GateTypeInit, <1>1, PTL DEF Spec

\* A streak of Threshold failures keeps processing paused, through resumes, restarts
\* and failed writes.
THEOREM StreakCorrect == Spec => []StreakPauses
<1>1. Init => StreakPauses
  BY GateAssumption DEF Init, StreakPauses
<1>2. StreakPauses /\ [Next]_vars => StreakPauses'
  <2> SUFFICES ASSUME StreakPauses, [Next]_vars PROVE StreakPauses'
    OBVIOUS
  <2>1. ASSUME NEW c \in calls, Check(c) PROVE StreakPauses'
    <3>1. CASE failures' = 0
      BY <3>1, GateAssumption DEF StreakPauses
    <3>2. CASE failures' >= Threshold /\ paused' = TRUE
      BY <3>2, Zenon DEF StreakPauses
    <3>3. CASE ~(failures' >= Threshold)
      BY <3>3, Zenon DEF StreakPauses
    <3> QED
      BY <2>1, <3>1, <3>2, <3>3, Zenon DEF Check, Close
  <2>2. CASE failures' = 0
    BY <2>2, GateAssumption DEF StreakPauses
  <2>3. CASE failures' = failures /\ (paused' = paused \/ paused' = TRUE)
    BY <2>3, Zenon DEF StreakPauses
  <2> QED
    BY <2>1, <2>2, <2>3, ZenonT(60)
    DEF Next, HandlerStep, Loop, Prioritize, Deprioritize, Enqueue, Poll, Read, Finish, Claim, Wake,
        Close, AutoPause, Save, SaveFails, Pause, Resume, LoopStart, LoopSelect,
        LoopInsert, LoopWoken, LoopFails, LoopTimeout, Restart, vars, gateVars
<1> QED
  BY <1>1, <1>2, PTL DEF Spec

-----------------------------------------------------------------------------

\* The workers whose request read the gate as open and has not got its job yet.
OnTheirWay == {w \in Workers : [at |-> "claim", by |-> w, gate |-> "open"] \in calls}

\* During a pause, the process jobs started and the requests still on their way
\* together never exceed the workers: a request is spent by the job it starts, and
\* none can set out while the gate is closed.
LeakInv == paused => leaked + Cardinality(OnTheirWay) <= Cardinality(Workers)

\* Where a set of the workers on their way shrinks, so does its size.
LEMMA OnTheirWaySize ==
    /\ Cardinality(Workers) \in Nat
    /\ IsFiniteSet(OnTheirWay) /\ Cardinality(OnTheirWay) \in Nat
    /\ Cardinality(OnTheirWay') \in Nat
    /\ Cardinality(OnTheirWay) <= Cardinality(Workers)
    /\ Cardinality(OnTheirWay') <= Cardinality(Workers)
    /\ OnTheirWay' \subseteq OnTheirWay => Cardinality(OnTheirWay') <= Cardinality(OnTheirWay)
<1>1. IsFiniteSet(Workers) /\ OnTheirWay \subseteq Workers /\ OnTheirWay' \subseteq Workers
  BY GateAssumption DEF OnTheirWay
<1>2. IsFiniteSet(OnTheirWay) /\ IsFiniteSet(OnTheirWay')
  BY <1>1, FS_Subset
<1> QED
  BY <1>1, <1>2, FS_Subset, FS_CardinalityType

\* A claim spends its request.
LEMMA ClaimLeak ==
    ASSUME GateTypeOK, LeakInv, NEW c \in calls, Claim(c)
    PROVE  LeakInv'
<1>0. leaked \in Nat /\ c \in Calls /\ c.at = "claim"
  BY DEF GateTypeOK, CountersOK, Claim
<1>1. c.by \in Workers /\ c.gate \in {"open", "closed"}
      /\ c = [at |-> "claim", by |-> c.by, gate |-> c.gate]
  BY <1>0 DEF Calls
<1>2. calls' = calls \ {c} /\ paused' = paused
  BY DEF Claim
<1>3. OnTheirWay' \subseteq OnTheirWay
  BY <1>2 DEF OnTheirWay
<1>4. CASE leaked' = leaked
  BY <1>0, <1>2, <1>3, <1>4, OnTheirWaySize DEF LeakInv
<1>5. CASE leaked' # leaked
  <2>1. c.gate = "open" /\ leaked' = leaked + 1
    BY <1>1, <1>5 DEF Claim, Claimable
  <2>2. c.by \in OnTheirWay /\ OnTheirWay' = OnTheirWay \ {c.by}
    BY <1>1, <1>2, <2>1 DEF OnTheirWay
  <2>3. Cardinality(OnTheirWay') = Cardinality(OnTheirWay) - 1
    BY <2>2, OnTheirWaySize, FS_RemoveElement
  <2> QED
    BY <1>0, <1>2, <2>1, <2>3, OnTheirWaySize DEF LeakInv
<1> QED
  BY <1>4, <1>5

\* A pause that begins counts from nothing; one that is repeated changes nothing.
LEMMA CloseLeak ==
    ASSUME GateTypeOK, LeakInv, Close, OnTheirWay' \subseteq OnTheirWay
    PROVE  LeakInv'
<1>0. leaked \in Nat
  BY DEF GateTypeOK, CountersOK
<1>1. CASE paused
  <2>1. leaked' = leaked
    BY <1>1, Zenon DEF Close
  <2>2. leaked + Cardinality(OnTheirWay) <= Cardinality(Workers)
    BY <1>1, Zenon DEF LeakInv
  <2>3. leaked' + Cardinality(OnTheirWay') <= Cardinality(Workers)
    BY <1>0, <2>1, <2>2, OnTheirWaySize
  <2> QED
    BY <2>3, Zenon DEF LeakInv
<1>2. CASE ~paused
  <2>1. leaked' = 0
    BY <1>2, Zenon DEF Close
  <2>2. leaked' + Cardinality(OnTheirWay') <= Cardinality(Workers)
    BY <2>1, OnTheirWaySize
  <2> QED
    BY <2>2, Zenon DEF LeakInv
<1> QED
  BY <1>1, <1>2

\* However often processing is paused and whatever is queued, at most one process job
\* per worker starts in a pause.
THEOREM PauseCorrect == Spec => []PauseLeaksOnePerWorker
<1>1. Init => LeakInv
  BY Zenon DEF Init, LeakInv
<1>2. GateTypeOK /\ LeakInv /\ [Next]_vars => LeakInv'
  <2> SUFFICES ASSUME GateTypeOK, LeakInv, [Next]_vars PROVE LeakInv'
    OBVIOUS
  <2>1. ASSUME NEW c \in calls, Claim(c) PROVE LeakInv'
    BY <2>1, ClaimLeak
  <2>2. ASSUME NEW c \in calls, Read(c) PROVE LeakInv'
    <3>1. CASE ~paused
      <4>1. paused' = paused
        BY <2>2 DEF Read, gateVars
      <4> QED
        BY <3>1, <4>1, Zenon DEF LeakInv
    <3>2. CASE paused
      <4>1. OnTheirWay' \subseteq OnTheirWay
        BY <2>2, <3>2 DEF Read, Gate, OnTheirWay
      <4>2. leaked' = leaked /\ paused' = paused
        BY <2>2 DEF Read, gateVars
      <4> QED
        BY <4>1, <4>2, OnTheirWaySize DEF LeakInv, GateTypeOK, CountersOK
    <3> QED
      BY <3>1, <3>2
  <2>3. ASSUME NEW c \in calls, Check(c) PROVE LeakInv'
    <3>1. OnTheirWay' \subseteq OnTheirWay
      BY <2>3 DEF Check, OnTheirWay
    <3>2. CASE Close
      BY <3>1, <3>2, CloseLeak
    <3>3. CASE paused' = paused /\ leaked' = leaked
      BY <3>1, <3>3, OnTheirWaySize DEF LeakInv, GateTypeOK, CountersOK
    <3> QED
      BY <2>3, <3>2, <3>3 DEF Check
  <2>4. CASE Pause
    BY <2>4, CloseLeak DEF Pause, OnTheirWay
  <2>5. CASE paused' = FALSE
    BY <2>5, Zenon DEF LeakInv
  <2>6. CASE leaked' = 0
    BY <2>6, OnTheirWaySize DEF LeakInv
  <2>7. CASE leaked' = leaked /\ paused' = paused /\ OnTheirWay' \subseteq OnTheirWay
    BY <2>7, OnTheirWaySize DEF LeakInv, GateTypeOK, CountersOK
  <2>8. ASSUME leaked' = leaked, paused' = paused,
               \/ calls' = calls
               \/ \E c \in calls : calls' = calls \ {c}
        PROVE  LeakInv'
    BY <2>7, <2>8 DEF OnTheirWay
  <2>9. ASSUME NEW w \in Workers, Finish(w) PROVE LeakInv'
    BY <2>7, <2>9 DEF Finish, gateVars, OnTheirWay
  <2>10. ASSUME NEW w \in Workers, Poll(w) PROVE LeakInv'
    BY <2>7, <2>10 DEF Poll, gateVars, OnTheirWay
  <2> QED
    BY <2>1, <2>2, <2>3, <2>4, <2>5, <2>6, <2>8, <2>9, <2>10
    DEF Next, HandlerStep, Loop, Prioritize, Deprioritize, Enqueue, Wake, AutoPause, Save,
        SaveFails, Resume, LoopStart, LoopSelect, LoopInsert, LoopWoken, LoopFails,
        LoopTimeout, Restart, vars, gateVars
<1>3. GateTypeOK /\ LeakInv => PauseLeaksOnePerWorker
  <2> SUFFICES ASSUME GateTypeOK, LeakInv, paused PROVE leaked <= Cardinality(Workers)
    BY DEF PauseLeaksOnePerWorker
  <2>1. leaked \in Nat /\ leaked + Cardinality(OnTheirWay) <= Cardinality(Workers)
    BY DEF LeakInv, GateTypeOK, CountersOK
  <2> QED
    BY <2>1, OnTheirWaySize
<1> QED
  BY GateTypeCorrect, <1>1, <1>2, <1>3, PTL DEF Spec

-----------------------------------------------------------------------------
(* The wakeups of the dispatcher.                                          *)

\* The inductive invariant of the dispatcher: what was announced since its SELECT
\* has woken it or is about to, and so has the resume of a pause it sleeps through.
WakeInv ==
    "dberror" \notin EnvOps /\ "announced" \in backlog =>
        /\ phase = "insert" => Waking
        /\ phase = "wait" => paused \/ Waking

\* A wakeup under way is there until the dispatcher starts over.
LEMMA WakingStays ==
    ASSUME "dberror" \notin EnvOps, Waking, [Next]_vars
    PROVE  Waking' \/ LoopStart \/ Restart
<1>1. ASSUME NEW c \in calls, Wake(c) \/ Save(c) PROVE Waking'
  <2>1. CASE woken
    BY <1>1, <2>1 DEF Wake, Save, Waking
  <2>2. CASE c.at \in {"wake", "resume"}
    BY <1>1, <2>2 DEF Wake, Save, Waking
  <2>3. CASE ~woken /\ c.at \notin {"wake", "resume"}
    BY <1>1, <2>3 DEF Wake, Save, Waking
  <2> QED
    BY <2>1, <2>2, <2>3
<1>2. ASSUME NEW c \in calls, Read(c) \/ Claim(c) \/ Check(c) \/ AutoPause(c) PROVE Waking'
  <2>1. c.at \notin {"wake", "resume"} /\ calls \ {c} \subseteq calls' /\ woken' = woken
    BY <1>2 DEF Read, Claim, Check, AutoPause, loopVars
  <2> QED
    BY <2>1 DEF Waking
<1>3. ASSUME calls \subseteq calls', woken' = woken PROVE Waking'
  BY <1>3 DEF Waking
<1>4. ASSUME NEW w \in Workers, Poll(w) \/ Finish(w) PROVE Waking'
  BY <1>3, <1>4 DEF Poll, Finish, loopVars
<1> QED
  BY <1>1, <1>2, <1>3, <1>4
  DEF Next, HandlerStep, Loop, Prioritize, Deprioritize, Enqueue, SaveFails, Pause, Resume, LoopSelect,
      LoopInsert, LoopWoken, LoopFails, LoopTimeout, vars, loopVars

\* Episodes are announced together with a wakeup, and a pause ends with one.
LEMMA WakeStep == WakeInv /\ [Next]_vars => WakeInv'
<1> SUFFICES ASSUME WakeInv, [Next]_vars, "dberror" \notin EnvOps, ("announced" \in backlog)'
             PROVE  /\ phase' = "insert" => Waking'
                    /\ phase' = "wait" => paused' \/ Waking'
  BY DEF WakeInv
<1> DEFINE Awake == /\ phase' = "insert" => Waking'
                    /\ phase' = "wait" => paused' \/ Waking'
<1>1. ASSUME NEW w \in Workers, Finish(w), "announced" \notin backlog PROVE Awake
  <2>1. [at |-> "wake", by |-> w] \in calls'
    BY <1>1 DEF Finish
  <2> QED
    BY <2>1 DEF Waking
<1>2. CASE LoopStart
  BY <1>2 DEF LoopStart, gateVars
<1>3. CASE Restart
  BY <1>3 DEF Restart
<1>4. CASE LoopSelect \/ LoopWoken \/ LoopTimeout \/ LoopFails
  BY <1>4 DEF LoopSelect, LoopWoken, LoopTimeout, LoopFails
<1>5. CASE LoopInsert
  BY <1>5, WakingStays DEF LoopInsert, WakeInv, Restart, LoopStart
<1>6. CASE Resume
  <2>1. [at |-> "resume"] \in calls'
    BY <1>6 DEF Resume
  <2> QED
    BY <2>1 DEF Waking
<1>7. ASSUME "announced" \in backlog, phase' = phase, paused => paused', ~LoopStart, ~Restart PROVE Awake
  BY <1>7, WakingStays DEF WakeInv
<1>8. ASSUME ~(LoopStart \/ Restart \/ LoopSelect \/ LoopWoken \/ LoopTimeout \/ LoopFails \/ LoopInsert \/ Resume)
      PROVE  phase' = phase /\ (paused => paused') /\ (backlog' = backlog \/ \E w \in Workers : Finish(w))
  BY <1>8 DEF Next, HandlerStep, Loop, Prioritize, Deprioritize, Enqueue, Poll, Read, Finish, Claim, Wake,
      Check, Close, AutoPause, Save, SaveFails, Pause, vars, gateVars, loopVars
<1> HIDE DEF Awake
<1>9. Awake
  <2>1. CASE LoopStart \/ Restart \/ LoopSelect \/ LoopWoken \/ LoopTimeout \/ LoopFails \/ LoopInsert \/ Resume
    BY <1>2, <1>3, <1>4, <1>5, <1>6, <2>1 DEF Awake
  <2>2. CASE ~(LoopStart \/ Restart \/ LoopSelect \/ LoopWoken \/ LoopTimeout \/ LoopFails \/ LoopInsert \/ Resume)
    <3>1. CASE "announced" \in backlog
      BY <1>7, <1>8, <2>2, <3>1, Zenon
    <3>2. CASE "announced" \notin backlog
      BY <1>1, <1>8, <2>2, <3>2, Zenon
    <3> QED
      BY <3>1, <3>2
  <2> QED
    BY <2>1, <2>2
<1> QED
  BY <1>9 DEF Awake

\* No wakeup is lost between the clearing of the event, the sweep and the wait.
THEOREM WakeupsArrive == Spec => []NoLostWakeup
<1>1. Init => WakeInv
  BY DEF Init, WakeInv
<1>2. WakeInv => NoLostWakeup
  BY DEF WakeInv, NoLostWakeup
<1> QED
  BY <1>1, <1>2, WakeStep, PTL DEF Spec

=============================================================================
