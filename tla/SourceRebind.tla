----------------------------- MODULE SourceRebind -----------------------------
(***************************************************************************)
(* A source's URL decides which ids its episodes have, so the console may  *)
(* change it only in two steps: a preview job scrapes the new URL and      *)
(* matches it against the episodes; applying that plan moves the source    *)
(* and its episodes together.  Around it run ordinary discoveries, dry     *)
(* runs, other consoles and the saves of the other columns of the row.     *)
(***************************************************************************)
EXTENDS Naturals, FiniteSets

CONSTANTS
    Urls,
    Jobs,           \* ids of discovery jobs of this source
    NoForm,         \* no edit form open
    NoJob,          \* no job
    MaxRequests     \* bound: handlers and requests under way

ASSUME UrlsAssumption == Urls # {} /\ NoJob \notin Jobs

VARIABLES
    source,         \* the URL in the row
    jobs,           \* the discovery jobs of the source: `since`, those whose finished_at is
                    \* later; `moved` (history), those that moved the episodes after the
                    \* plan was stored
    handlers,       \* requests and suspended handlers of the conductor
    shown,          \* the URL as the console has it
    edit            \* the URL in the edit form, or NoForm

rebindVars == <<source, jobs, handlers, shown, edit>>

Absent == [st |-> "absent", kind |-> "discover", url |-> CHOOSE u \in Urls : TRUE, from |-> CHOOSE u \in Urls : TRUE,
           plan |-> FALSE, since |-> {}, moved |-> {}, applied |-> 0]

Live == {j \in Jobs : jobs[j].st \in {"pending", "claimed"}}
Free == {j \in Jobs : jobs[j].st = "absent"}

\* A request or a handler at a point of its code.
Handler(at, url, from, j) == [at |-> at, url |-> url, from |-> from, job |-> j]

Begin(h) ==
    /\ Cardinality(handlers) < MaxRequests
    /\ handlers' = handlers \cup {h}

Become(h, S) == handlers' = (handlers \ {h}) \cup S

RebindInit ==
    /\ source = (CHOOSE u \in Urls : TRUE)
    /\ jobs = [j \in Jobs |-> Absent]
    /\ handlers = {}
    /\ shown = source
    /\ edit = NoForm

-----------------------------------------------------------------------------
(* Discovery.                                                               *)

\* run_discovery reads the source, and inserts its job a moment later.
Discover(kind) ==
    /\ Begin(Handler(kind, source, source, NoJob))
    /\ UNCHANGED <<source, jobs, shown, edit>>

\* One live discovery per source: a second INSERT is a conflict.
Insert(h, j, kind) ==
    IF Live # {} THEN UNCHANGED jobs
    ELSE jobs' = [jobs EXCEPT ![j] = [Absent EXCEPT !.st = "pending", !.kind = kind, !.url = h.url, !.from = h.from]]

InsertDiscovery(h) ==
    /\ h.at \in {"discover", "test"}
    /\ \E j \in Free : Insert(h, j, h.at)
    /\ Become(h, {})
    /\ UNCHANGED <<source, shown, edit>>

Claim(j) ==
    /\ jobs[j].st = "pending"
    /\ jobs' = [jobs EXCEPT ![j].st = "claimed"]
    /\ UNCHANGED <<source, handlers, shown, edit>>

\* A job just completed, which has no plan yet, one with a new plan, and one put back.
Done(r) == [r EXCEPT !.st = "completed", !.plan = FALSE, !.since = {}, !.moved = {}, !.applied = 0]
Planned(r) == [r EXCEPT !.plan = TRUE, !.moved = {}, !.applied = 0]
Queued(r) == [r EXCEPT !.st = "pending", !.since = {}]

\* The worker posts what it scraped: the job is completed, with that as its result for a
\* start, and then its result is stored.
Complete(j) ==
    /\ jobs[j].st = "claimed"
    /\ jobs' = [k \in Jobs |->
                   IF k = j THEN Done(jobs[j])
                   ELSE IF jobs[k].st = "completed" THEN [jobs[k] EXCEPT !.since = @ \cup {j}]
                   ELSE jobs[k]]
    /\ Begin(Handler("store", jobs[j].url, jobs[j].from, j))
    /\ UNCHANGED <<source, shown, edit>>

\* The worker fails it, or an administrator cancels it.
FailJob(j) ==
    /\ jobs[j].st \in {"pending", "claimed"}
    /\ jobs' = [jobs EXCEPT ![j].st = "failed"]
    /\ UNCHANGED <<source, handlers, shown, edit>>

\* Back in the queue a job keeps its result and has no finished_at.  So it gets by the
\* retry of a finished job and by the undo of a cancellation, whatever has become of it
\* since (the UPDATE of either tests no status), and by the sweep of old claims; the
\* index refuses it while the source has another live job.
Requeue(j) ==
    /\ jobs[j].st \in {"claimed", "completed", "failed"} /\ Live \subseteq {j}
    /\ jobs' = [k \in Jobs |-> IF k = j THEN Queued(jobs[j])
                               ELSE [jobs[k] EXCEPT !.since = @ \ {j}]]
    /\ UNCHANGED <<source, handlers, shown, edit>>

\* A discovery moves the episodes of the plans there are; one that had completed before
\* the preview did, and is stored late, is not counted.
MovesEpisodes(h, k) ==
    /\ jobs[h.job].kind = "discover" /\ k # h.job
    /\ jobs[h.job].st = "completed" => h.job \in jobs[k].since

\* A discovery reconciles the episodes with the URL it scraped; a dry run
\* leaves a summary and a preview a plan, in the place of the result there was.
Store(h) ==
    /\ h.at = "store" /\ Become(h, {})
    /\ jobs' = [k \in Jobs |->
                   IF k = h.job /\ jobs[k].kind = "preview" THEN Planned(jobs[k])
                   ELSE IF jobs[k].plan /\ MovesEpisodes(h, k)
                        THEN [jobs[k] EXCEPT !.moved = @ \cup {h.job}]
                        ELSE jobs[k]]
    /\ UNCHANGED <<source, shown, edit>>

-----------------------------------------------------------------------------
(* The console.                                                             *)

ReadSource ==
    /\ shown' = source
    /\ UNCHANGED <<source, jobs, handlers, edit>>

StartEdit ==
    /\ edit = NoForm
    /\ edit' = shown
    /\ UNCHANGED <<source, jobs, handlers, shown>>

EditForm(u) ==
    /\ edit # NoForm
    /\ edit' = u
    /\ UNCHANGED <<source, jobs, handlers, shown>>

CancelEdit ==
    /\ edit # NoForm
    /\ edit' = NoForm
    /\ UNCHANGED <<source, jobs, handlers, shown>>

\* saveSource compares the form with the row as shown: another URL is
\* previewed, and only another name or switch is saved directly.
NeedsRebind == edit # shown

SaveSource ==
    /\ edit # NoForm
    /\ Begin(Handler(IF NeedsRebind THEN "preview" ELSE "put", edit, shown, NoJob))
    /\ edit' = NoForm
    /\ UNCHANGED <<source, jobs, shown>>

\* The switch for `enabled` PUTs the whole row as shown.
ToggleSource ==
    /\ Begin(Handler("put", shown, shown, NoJob))
    /\ UNCHANGED <<source, jobs, shown, edit>>

\* A drawer shows the plan of a completed preview as it was read: it may be
\* confirmed in several consoles, also after another has applied it.
ApplyPlan(j) ==
    /\ jobs[j].st = "completed" /\ jobs[j].plan
    /\ Begin(Handler("apply", jobs[j].url, jobs[j].from, j))
    /\ UNCHANGED <<source, jobs, shown, edit>>

-----------------------------------------------------------------------------
(* The conductor's endpoints.                                               *)

Put(h) ==
    /\ h.at = "put" /\ Become(h, {})
    /\ source' = h.url
    /\ UNCHANGED <<jobs, shown, edit>>

\* preview_source_change reads the row, retires a pending discovery, and
\* inserts its own job, in three statements.
PreviewRead(h) ==
    /\ h.at = "preview"
    /\ Become(h, {[h EXCEPT !.at = "retire", !.from = source]})
    /\ UNCHANGED <<source, jobs, shown, edit>>

PreviewRetire(h) ==
    /\ h.at = "retire"
    /\ jobs' = [j \in Jobs |-> IF jobs[j].st = "pending" THEN [jobs[j] EXCEPT !.st = "failed"] ELSE jobs[j]]
    /\ Become(h, {[h EXCEPT !.at = "insert"]})
    /\ UNCHANGED <<source, shown, edit>>

PreviewInsert(h) ==
    /\ h.at = "insert"
    /\ \E j \in Free : Insert(h, j, "preview")
    /\ Become(h, {})
    /\ UNCHANGED <<source, shown, edit>>

\* newer_discovery: another completed job of the source finished later.
Newer(j) == \E k \in Jobs \ {j} : jobs[k].st = "completed" /\ k \in jobs[j].since

\* Mutant of Applicable: newer results are not looked for.
ApplicableMutant(j) ==
    /\ jobs[j].st = "completed" /\ jobs[j].plan
    /\ jobs[j].applied = 0
    /\ jobs[j].from = source
    /\ Live = {}

\* The checks of apply_source_rebind, under the locks of one transaction.
Applicable(j) ==
    /\ jobs[j].st = "completed" /\ jobs[j].plan
    /\ jobs[j].applied = 0
    /\ jobs[j].from = source
    /\ Live = {}
    /\ ~Newer(j)

Apply(h) ==
    /\ h.at = "apply" /\ Become(h, {})
    /\ IF Applicable(h.job)
       THEN /\ source' = h.url
            /\ jobs' = [k \in Jobs |->
                           IF k = h.job THEN [jobs[k] EXCEPT !.applied = @ + 1]
                           ELSE IF jobs[k].plan THEN [jobs[k] EXCEPT !.moved = @ \cup {h.job}]
                           ELSE jobs[k]]
       ELSE UNCHANGED <<source, jobs>>
    /\ UNCHANGED <<shown, edit>>

\* A request that fails on its way, or an apply refused for the process jobs of
\* the source.
Lost(h) ==
    /\ h.at \in {"put", "preview", "apply"} /\ Become(h, {})
    /\ UNCHANGED <<source, jobs, shown, edit>>

-----------------------------------------------------------------------------
RebindNext ==
    \/ \E kind \in {"discover", "test"} : Discover(kind)
    \/ \E j \in Jobs : Claim(j)
    \/ \E j \in Jobs : Complete(j)
    \/ \E j \in Jobs : FailJob(j)
    \/ \E j \in Jobs : Requeue(j)
    \/ ReadSource
    \/ StartEdit
    \/ \E u \in Urls : EditForm(u)
    \/ CancelEdit
    \/ SaveSource
    \/ ToggleSource
    \/ \E j \in Jobs : ApplyPlan(j)
    \/ \E h \in handlers : InsertDiscovery(h)
    \/ \E h \in handlers : Store(h)
    \/ \E h \in handlers : Put(h)
    \/ \E h \in handlers : PreviewRead(h)
    \/ \E h \in handlers : PreviewRetire(h)
    \/ \E h \in handlers : PreviewInsert(h)
    \/ \E h \in handlers : Apply(h)
    \/ \E h \in handlers : Lost(h)

RebindSpec == RebindInit /\ [][RebindNext]_rebindVars

-----------------------------------------------------------------------------
(* Properties.                                                              *)

\* A plan is applied once, and to the episodes it was made for: no discovery and no
\* other plan has moved them since it was stored, however many consoles confirm it and
\* even when the source has come back to the URL it was made for.  The code has two
\* exceptions.  A result that was in before the preview's and is stored late is not
\* counted.  And a job that moved the episodes is forgotten once an administrator has put
\* it back in the queue, by a retry or by undoing an old cancellation, and it has failed
\* there or was cancelled: it is no longer a completed one.
PlanIsCurrent == [][
    \A j \in Jobs : jobs'[j].applied > jobs[j].applied =>
        /\ jobs[j].applied = 0
        /\ \A k \in jobs[j].moved : jobs[k].st = "failed"
    ]_rebindVars
=============================================================================
