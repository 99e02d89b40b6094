# palpal in TLA+

palpal makes podcast archives searchable. The *conductor* (`src/palpal-conductor`,
FastAPI on asyncio, Postgres) keeps the episodes and a job queue; a *blurb* worker on
another machine (another repository) polls it for jobs, downloads and transcribes, and
posts results back; the *frontend* (`src/palpal-frontend`, Next.js) is the public search
page and the admin console. This directory models the parts of it whose correctness
depends on the order in which things happen, checks them with TLC and proves every
invariant, action property and refinement of the passing runs with TLAPS. The repository has no tests of its own.

## Inventory

| Part | State it keeps | Operations | Hard behaviour | What makes it correct |
|---|---|---|---|---|
| Process jobs and episode lifecycle (`pipeline.py`, worker endpoints of `main.py`, `activities/`) | `jobs`, `episodes`, `transcript_chunks` | discovery results, dispatch, claim, complete, fail, reclaim, startup recovery, retention | every statement commits alone; asyncio runs other handlers at each `await`; results are lost, late or repeated; workers and conductor crash | one live job per episode; one result per claim; one worker per job until the sweep; no job or download left behind; processed means stored |
| Admin actions (`main.py` `/admin/jobs`, `/admin/episodes`, `/admin/audit`) | the same tables, `admin_audit` | retry, retranscribe, blacklist, delete, process, cancel, requeue, undo, bulk, merge | read-check-write over several statements while the pipeline runs; undo writes old snapshots; buttons of a view that is behind | the queue's invariants still hold; deletion sticks; no state without a way out; a refusal means a stale view, or an obstacle no view looks at |
| Claim order and pause gate (`worker_next_job`, `pause_processing`, `_check_consecutive_failure`) | priority, `_processing_paused`, `processing_paused` row, `_consecutive_failures` | prioritize, pause, resume, automatic pause, restart | flag read before the claim runs; memory and row written apart | a pause leaks at most one job per worker; a streak keeps the pause |
| Dispatcher (`dispatch_worker`) | wakeup event, 300 s interval | sweep, wake | wakeup during a sweep | no wakeup is lost |
| Discovery jobs and source rebind (`run_discovery`, `source_rebind.py`, `PodcastsView`, `JobDrawer`) | `jobs` of kind discover, `sources.url`, the plan | discover, dry run, preview, apply, save, toggle | stale forms, two consoles, discoveries in between | a plan is applied once, and to the episodes it was made for, but for two named exceptions |
| Live feed (`admin_events.py`, stream route, `useAdminLive.ts`) | pending tables, bounded queues, `activeStreams`, bumps, requests | notify, flush, drop, connect, reconnect, tick | lost notifications, slow consoles, late answers, tables a panel reads and does not listen for, a cap counted late | panels only move forward, are told or made up for, and are right in the end |
| Episode and job lists (`EpisodesView`, `JobsView`, listings of `main.py`) | filters, address, page, selection, request | filter, search, turn, tick, bulk, reload | debounce, late pages, deletions under the pager, two statements per listing | ticks belong to the filters; reload keeps the slice; lists settle |
| Console shell (`AdminConsole`, `ui`, `EpisodeDrawer`, `CommandPalette`) | pending keys, dialog, drawer | run, confirm, escape, open | double presses, answers after closing | one request per key; dialogs own their state |
| Forms (`PodcastsView`, `SettingsView`, `ContentView`) | drafts beside a live copy | type, save, renew, select | renewals under the typing hand; whole-row writes | drafts stay with their row; a save changes its field |
| Analytics (`lib/analytics.ts`, routes, `analytics.py`, `AnalyticsView`) | opt-out, limiter, visitor set, daily rows, figures | track, record, purge, rotate, load | lost beacons, midnight, restart, purge between awaits | counts are bounded and complete on quiet days; figures of the tab |
| Search page (`page.tsx`, `SearchBar`, `FilterModal`, `SearchResults`, `SearchResultCard`) | choices in five places, results, context windows | choose, search, load more, reset, reload, expand | effects that chase each other and wait for the podcasts; answers out of order | choices survive a reload; pages in order; context up to the ends |
| Watched list, saved clips (`watchlist.ts`, `cookies.ts`, their pages) | localStorage, copies in tabs | toggle, import, clear, save, annotate | several tabs, shared objects, failing writes | clicks and clips are kept |
| Settings and page caches, merge, chunking, read API, worker status, migrations, authentication, rendering | - | - | see Not modelled | - |

`PROJECT.json` lists the components with their files, and every hazard with its line and
the properties that cover it.

## Modules

| Module | Models |
|---|---|
| `JobQueue` | process jobs and episodes, the system running by itself |
| `JobQueueLive` | EXTENDS it with fairness and the liveness properties |
| `AdminQueue` | EXTENDS it with the administrator's handlers and the undo log |
| `ClaimGate` | which job is claimed and when there is any: queue order, pause gate, failure streak, dispatcher |
| `AdminStream` | the event-stream route and its cap |
| `LiveConsole` | EXTENDS it from a committed change to what the panels show |
| `WorkQueue` | the abstract promise of the jobs table, which `JobQueue` and `AdminQueue` implement |
| `FreshView` | the abstract promise of the panels, which `LiveConsole` implements |
| `EpisodeList` | the console's list of episodes |
| `ConsoleShell`, `JobLists` | run(), dialog and drawer; the lists of jobs |
| `RecordActions` | what views offer on a record and what the conductor accepts |
| `ConsoleForms`, `SourceRebind` | the forms; the change of a source's URL |
| `AnalyticsPanel`, `SearchAnalytics` | the figures' view; the figures, from the browser to the table |
| `SearchChoices`, `SearchPage`, `ContextPanel` | the search page |
| `WatchedList`, `SavedClips` | the two lists a browser keeps |
| `MCJobQueue`, `MCAdminQueue`, `MCClaimGate`, `MCLiveConsole`, `MCEpisodeList` | instances for TLC |
| `MCConsoleShell`, `MCAdminViews`, `MCPublicSite` | instances of several modules that share no state: in a behaviour one part moves and the others rest |
| `JobQueue_proofs`, `AdminQueue_proofs`, `ClaimGate_proofs`, `Live_proofs`, `EpisodeList_proofs`, `Console_proofs`, `AdminViews_proofs`, `PublicSite_proofs` | theorems |

Composition: `AdminQueue` adds its handlers to the one set of suspended calls of
`JobQueue`, so that pipeline and administrators interleave at every statement.
`LiveConsole` composes the route of `AdminStream`, the conductor's listener and queue and
the console's panels. `ClaimGate` is `JobQueue` seen from the state that `JobQueue` leaves
open.

### State and code: the conductor

A row of `jobs` is one index of `jobStatus`, `target`, `attempts`, `claimedBy`; a row of
`episodes` one of `status`, `blacklisted`; `transcript` says what the last
`process_transcript` left in `transcript_chunks`. `"absent"` is before the INSERT,
`"purged"` and `"gone"` are after the DELETE. `answers` and `lapsed` are history variables:
the attempts whose results were accepted, and the workers whose present claim the two-hour
sweep has taken back. `claimed_by_worker` of a finished job is shown as `NoWorker`:
the code reads it only of claimed jobs.

A handler is a coroutine that may be suspended before each SQL statement. `calls` holds one
record per suspended handler, its field `at` names the next statement, and **one action is
one statement**, with everything the handler does up to its next `await`. A handler that
was never started is not in `calls`; the conductor's crash empties `calls`. So
`worker_next_job` is `NextReset` then `Claim`, `worker_complete` is `AcceptComplete`,
`StoreTranscript`, `Settle`, and `_enqueue_process_jobs` is `InsertJob` and
`MarkDownloading` per row. `OneLiveJobPerEpisode`'s guard in the code is the partial unique
index of migration 037; it is `LiveJobs(e) # {}` in `InsertJob` and `Refused` in
`AdminQueue`. The foreign key with `ON DELETE SET NULL` is in `Exists` and `LiveJobs`.

A discovery result is an arbitrary list of entries, so its statements are actions without a
common handler (`Discover`, `BlacklistShort`, `Orphan`, `Reactivate`): for one episode, any
interleaving of the four is what some list, or two runs, would do.

blurb is external: a worker holds at most one job, works on it, posts a transcript or an
error, may crash, and may repeat a post whose response was lost. Nothing else is assumed of
it; it may be slower than the two-hour sweep.

Simplifications of `JobQueue` and `AdminQueue`: which pending job is claimed is open (a
claim may also find none, as when paused); clocks are not modelled, so a sweep may take any
claimed job (any claim may be old enough) and retention any finished one; the 10-minute
fallback for workers without an id is then a case of the sweep; untitled episodes, never
eligible, are left out; two suspended handlers at the same statement with the same data are
one record; the bulk endpoint is represented by its per-episode counterparts; the audit row
is read and closed in the step of the undo's last UPDATE (for a blacklist and its removal,
`UndoFlag`, the whole undo is one step); error texts, progress and job events are
left out.

`ClaimGate` keeps the rows of `jobs` as a sequence in the order of `created_at`, with kind,
status, priority and claimant, and is about the state that `JobQueue` leaves open:
`paused`, `failures` and `woken` are the globals `_processing_paused`,
`_consecutive_failures` and `_dispatch_wakeup`; `saved` is the settings row; `phase` says
at which `await` `dispatch_worker` is; `backlog` and `rows` stand for the episodes that
are discovered and for those its SELECT has returned, by the kind of discovery they came
from. `worker_next_job` is `Poll`, `Read` (the gate is an argument of the second
statement, read when that is sent) and `Claim`. A pause, a resume and an automatic pause
change memory (`Pause`, `Resume`, `Check`) and write the row at a later step (`Save`,
`AutoPause`), which may raise (`SaveFails`). A handled result is one step here, `Finish`,
but for the wakeup and the streak check that end it. The sweep adds one job for all the
rows it has, or none when another handler was first; whether a discovery was with
`auto_queue` is chosen when it ends. The setting `auto_download` is on: `JobQueueLive` has the gate
before the sweep (`shut`: paused, or `auto_download` off), which `JobQueue`, where a sweep
may always be left out, does not need. Each worker has one
request at a time on its way, as blurb polls: a client that repeats a request while its
first is still being answered would widen `PauseLeaksOnePerWorker` by that request.
`leaked` is a history variable: the process jobs claimed since the pause began.

### State and code: the console

`AdminStream` has one request of the route per element of `Streams`; `phase` is where it is
(`"checked"` is between the test of the cap and the count), `released` is the closure's
flag, and `crowd` a history variable: how many requests were between the test and the count
when the last one passed the test. `LiveConsole` follows one console, `Me`. Data are versions: `version[t]` counts the
committed changes of a table, and a panel that has read the database shows the vector it
read. `pending` is `_pending_tables`, `queue` the bounded `asyncio.Queue` of this console,
`asked[p]` the requests of a panel that its effect has not cancelled, `Bumps` is
`TABLE_BUMPS`, `Deps` the dependencies of the panel's effect and `Reads` the tables its
endpoint selects from or joins, of those that are watched. `TimerOnly` names those of them that
no effect of the panel depends on (a listing of jobs joins episodes, sources and podcasts).
`missed` is a history variable: the tables a panel will not hear of
by the feed, which the timer or a reconnection makes up for. What the response of a request
shows is read in one step (`Read`); `JobLists` has the listing whose two statements matter.

`EpisodeList` is the section with its filters: `Patch` changes them, writes the address and
lets the effects clear the selection; `under` is a history variable: of the ticks of the
selection, the filters of the page they were made on and those then in force, which differ
while the rows of the filters before are still on the screen. `request` is the only one that is not cancelled.
`Answer` has the rule that an empty page of a list that is not empty asks for its last
page. The bulk endpoint is one step, `Execute`, on the targets it resolves; its answer may
be an error although it ran. `JobLists` has a listing as `ReadJobRows` and `ReadJobTotal`
in either order, and a pager that goes by the page answered in the active list and by the
page asked for in the history. `ConsoleShell` has `pendingRef` as `pending`, the state
React keeps for `ConfirmDialog` (`typed`, `busy`) and the drawer's `detail` and `error`;
`Shown` is what the drawer's body shows, `Header` its title.

`RecordActions` has one record, the status the console shows, and a request that carries
what was shown; `Offers` is the union of the buttons of all views, `Accepts` the guards of
the endpoints on the status, and `Obstacles` what else an endpoint refuses for (a missing
title, a blacklist, another live job, a source that changed, an input that does not fit), which
comes and goes by `Hold`. `ConsoleForms` has the rule of each form for what a renewed row does
to its drafts (`Reset`), and what it writes (`Body`: the podcast form the whole row as
cached, the others one key). `SourceRebind` has for one source the URL in the row
(`source`), its discovery jobs, and every handler at its next statement; the matching of
episodes is left out. `since` of a job holds those with a later `finished_at`, so that `Newer`
is the query for a newer result; `moved` is a history variable: the jobs that have moved the
episodes since the plan was stored. `Requeue` is the retry of a finished job, the undo of a
cancellation and the sweep for old claims: the UPDATE that puts the job back, one step, with
the index as its guard; no test of the status that a retry makes before is relied on. The
purge of old jobs is left out: it deletes what the two queries could find. In
`SearchAnalytics` a beacon goes from `wire` to the handler `writing`, with the day and the
count as noted, to the row (the code reads the clock twice while noting, the model once);
`searchers` and `disturbed` are history variables.
`AnalyticsPanel` keeps the requests that nothing cancels.

### State and code: the public site

`SearchChoices` has whether the podcasts have arrived (`ready`, the code's
`preferencesLoaded`: before, nothing is restored from the address or written to it), what is
chosen (`choice`, where a text is a word with or without blanks around it), the copies of the modal (`local`), the
window's query string and the one `useSearchParams` last gave (`address`, `params`: the
router is external and hands one to the other in `Sync`), the preferences in localStorage
and the legacy cookie. `SearchPage` has what is searched as one value and pages of results
as pairs of search and page. `ContextPanel` counts the chunks on either side; a fetch
answers with the window of its radius. `WatchedList` has the key, each tab's `_memCache`,
the set on its page, and `aliased`, the tabs in which the two are one object that
`toggleWatched` and `importWatched` change in place, so that what React has memoised by
identity (`counted`, `listed`) stays. `SavedClips` has the list, the cookie, and what each
page marks as saved; entries that are no clips, which a read drops (cookies.ts:227-239), no
page writes, and none are in the model. `mine`, `overtaken`, `crossed`, `cleared`, `writer` are history
variables: they say which exceptions of a property have happened.

## Runs

| Run | Instance | Shows |
|---|---|---|
| `queue` | 1 episode, 2 jobs, 2 workers, 2 attempts, 2 handlers, 1 post | one live job per episode, one result per claim, one worker per job, processed means stored |
| `queue_fair` | 1 episode, 2 jobs, 1 worker, 1 attempt, 1 restart, a gate that opens and shuts, no purge | claims resolve, stuck downloads recover, discovered episodes are queued unless the gate shuts |
| `queue_stuck` | 1 job | a violation: see Findings |
| `admin_jobs` | 1 episode, 2 jobs; cancel, requeue, retry, undo | the refinement of `WorkQueue`, which has one live job per episode and one answer per claim |
| `admin_episodes` | 1 episode, 1 job; retry, retranscribe, process, delete, blacklist, unblacklist, undo; purge | no chunk outlives its episode; no blacklist limbo without cancellations |
| `gate` | 2 workers, 2 jobs, streak of 2, 1 restart, failing writes, timer | the leak of a pause, the streak |
| `gate_live` | 1 worker, 2 jobs, streak of 1, no timer, no failing writes | no lost wakeup, as an invariant and in the end; discovery is not held up by a pause |
| `live` | 2 streams, cap of 1, queue of 1, 2 changes of each of 2 tables, 1 panel that reads both | the cap's count; a panel moves forward, is told or made up for, and is right in the end; the refinement of `FreshView` |
| `episode_list` | 2 episodes, pages of 1, tabs all and failed, one text, bulk delete | ticks, reload, settling |
| `console` | 2 episodes, a direct action, one behind a click, one behind a word, 2 requests; 2 rows of jobs, pages of 1, pages up to 3 | keys, dialogs, buttons, drawer; job lists settle |
| `admin_views` | 1 record of each kind; 2 rows, 2 fields, 2 values, 1 save; 2 URLs, 2 discovery jobs, 2 handlers; 3 ranges, 3 requests; 3 browsers (one an operator's), limit 1, 2 days, 2 events | offers and guards agree; drafts and saves; plans applied to the episodes they were made for; figures of the tab; searchers counted |
| `site` | 2 podcasts, 1 text with or without blanks, 1 pair of dates; 2 searches, 3 pages, 2 requests; step 2, limit 4, 5 neighbours, 2 fetches; 2 tabs, 2 videos; 2 pages, 3 clips, cap of 2 | what is chosen, found, shown and kept |

In `site` the podcasts are interchangeable, in `admin_views` the discovery jobs (SYMMETRY). A
browser whose localStorage takes no writes starts in `site` without the legacy cookie, which
would stay as it is and mean what the key means.

Every property of a passing run has a mutant in the module that models the code, a change a
plausible bug would be, under which TLC finds it violated.

Bounds of the queue. Two jobs are two generations of work on an episode, the least with
which a second live job, a retry or a purge can happen; two attempts are the least for a
late result of an earlier claim; two suspended handlers are the least for an interleaving,
and every hazard listed is one of two handlers; one post at a time still allows repetition
and delay because a post stays until it is dropped. `MaxCalls` and `MaxPosts` only delay
actions, they change none. One episode: handlers of different episodes share no row but
that of a job, whose target never changes, except in the enqueue loop, which goes over
several rows; the theorems hold for any number of episodes. Symmetry is used in safety
runs only. The runs of `AdminQueue` divide the administrator's operations because their product is out of
reach; each group holds the operations that touch the state its properties are about.

Bounds of the gate. Two job rows are the least in which order matters, and each may be
claimed and given back without limit; two workers make the leak of a pause more than one;
a streak of 2 is the least in which a second failure comes between the first and the pause;
one restart brings the saved flag back. Suspended pauses and resumes are unbounded (equal
ones are one record). `gate_live` has no restart because a restart sweeps at once and
cannot lose a wakeup, and a streak of 1, so that the automatic pause happens with two jobs.

Bounds of the console and the site. Two streams and a cap of one are the least in which a
request passes the test while another does; a queue of one overflows at the second
invalidation; two changes let an answer be older than another that is newer than what is
shown. Two rows on pages of one are the least list whose last page can vanish under the
pager, and two statuses the least in which a filter changes what is ticked; with two rows
of jobs the third page is one that never exists. Two requests in flight are the least that
can be answered in the other order (three for `AnalyticsPanel`, where a third hides that
two crossed). Two rows and two fields are the least in which a draft or a write can go
to the wrong one. Two days put a write on the other side of midnight; the third browser is
the operator whom nothing counts. A limit of 4 with steps of 2 and 5 neighbours has windows
inside the episode, one at its edge, one that reaches it in part and one the conductor
refuses. A cap of two and three clips drop the oldest. Everything above is only a bound of
TLC: the theorems hold for all values.

Fairness of `queue_fair`. A suspended handler is resumed (weak fairness per statement).
`reclaim_stuck_jobs` runs every 30 minutes as an APScheduler job, for ever and whatever is
paused, and takes every claim that is over two hours old, which a claim that stays becomes:
strong fairness per job. The dispatcher comes round every 300 s, but passes over the sweep
while processing is paused (pipeline.py:291), by an administrator or by the automatic pause
(pipeline.py:58-62), and the sweep creates nothing with `auto_download` off (pipeline.py:228).
`Gate` opens and shuts it at any time, and only of a dispatcher whose gate is shut no more from
some time on is it assumed that it sweeps: `[]<>shut \/ SF(OpenDispatch)`. `DiscoveredIsQueued`
says as much: the episode is queued, or the gate is found shut. The fairness is strong, not
weak, because the bound `MaxCalls`, which the code does not have, disables a sweep from time
to time. The conductor restarts finitely often (`MaxRestarts`); restarts are counted because
one of them changes the same columns as a sweep, and a condition on steps would confuse the
two. Nothing is assumed of blurb, of posts or of administrators. `DiscoveredIsQueued` speaks
of histories that have job ids left.

Fairness of `gate_live`. Suspended handlers and the dispatcher's coroutine are resumed. The
dispatcher's timer is not relied on (it is not even enabled in the run), since with it a
lost wakeup would only cost time. For `DiscoveryRuns` blurb goes on polling and reporting,
which is what its main loop is for, and not every job it is sent is lost on the way (strong
fairness of a claim whose response arrives); administrators may pause and resume for ever.

Fairness of `live`. Only the timer (`setInterval`) is weakly fair, and a request that keeps
being sent is answered some day (strong: each may fail, and each tick replaces it). The
stream, the listener and the flush are not assumed to work at all, which is what the
comment of the timer promises (`useAdminLive.ts:115-117`). `episode_list` and the job lists
assume the same of their timers and requests, and that the debounce fires; they settle
under the condition that the administrator stops. In `console` every request is answered or
fails (weak).

## Refinement

`WorkQueue` is what the `jobs` table promises of process jobs to whoever reads it: an
atomic queue. A job is submitted only for an episode without one under way; it is taken,
and every taking is counted; an answer ends the claim it is accepted for; jobs are given
back, withdrawn and discarded; a job is revived only where no other is under way; the jobs
of a deleted episode stay and are nobody's. `JobQueue!ImplementsWorkQueue` is its
specification under the mapping `state <- jobStatus`, `episode <- EpisodeId`,
`taken <- attempts`, `answered <- Answered`. `EpisodeId` is the column `jobs.episode_id`:
the target while the row and its episode exist, NULL afterwards, as `ON DELETE SET NULL`
leaves it; `Answered` is the number of accepted results. Handlers, workers and posts are
hidden, and so is everything that happens to episodes: every statement of every handler,
wherever the others are suspended, is one step of the queue or none. TLC checks it in
`admin_jobs`, whose next-state relation contains the pipeline's; `JobsAreAQueue` proves it of
the pipeline alone and `AdminJobsAreAQueue` with every operation of the administrator. What
the queue then guarantees, one job under way per episode and no more answers than claims, is
`QueueKeepsPromises`, an induction over the eight steps of `WorkQueue` alone. Deletion
is not among the operations of `admin_jobs`: with it the run takes four minutes, and holds.
The mutant that breaks it is a requeue that does not meet the index.

`FreshView` is what the console promises of what it shows: a panel shows a state the
database has been in and never goes back. `LiveConsole!ShowsFreshViews` is its
specification with `version` and `shown` for themselves; the rest of `LiveConsole` (stream,
queue, coalescing, cancellation) is hidden. TLC checks it in run `live` and
`ConsoleShowsFreshViews` proves it. What makes it true is that an effect cancels the
request in flight before it sends another: the mutant that does not, is caught.

## Findings

`queue_stuck`: an episode that is blacklisted as too short between the INSERT of its job and
the UPDATE to downloading ends blacklisted and downloading, and no sweep resets it.

### Statements that do not hold

Four statements of comments are definitions of the modules and are violated by the code;
naming one in the cfg of a run of its module shows the behaviour.

* `JobQueue!StaleResultsDiscarded` (main.py:233-234): a result of a claim that was reset is
  accepted once the job is claimed again; the guard knows "claimed", not by whom or when
  (main.py:227).
* `AdminQueue!NotProcessedBehindBlacklist` (main.py:1901-1903): the blacklist does not stop
  a result whose job is already completed and that is being stored.
* `ClaimGate!SavedIsCurrent` (pipeline.py:34-35): overlapping pause, resume and automatic
  pause write memory in one order and may write the row in the other; the next start
  follows the row.
* `ClaimGate!ReviewIsLeftAlone` (pipeline.py:346-348): a discovery "for review" is only not
  announced to the dispatcher; the next sweep queues what it found.

`NoBlacklistLimbo` holds as long as no cancellation is undone: the undo writes the status of
its snapshot and leaves the flag (main.py:917), although unblacklist takes care to avoid
that state (main.py:1944-1946). `NobodyInLimbo` assumes there is no cancellation.

### Seen while modelling

Queue: a transcript without a word gives a processed episode without a chunk; retranscribe
of a blacklisted episode deletes its chunks and queues nothing (main.py:2006).

Console:

* The delete dialog of a bulk action may state the count of an earlier filter: it shows the
  total of the page on the screen and sends the filters in force.
* While the page of new filters is awaited the rows of the old ones stay on the screen and can
  be ticked (EpisodesView.tsx:697-756); a bulk action then takes them, although they may not
  match the filters in force (`t.on # t.for` in `TickedUnderFilters`).
* When the details of a newly opened episode fail, the drawer's title goes on naming the one
  before, above the error (EpisodeDrawer.tsx:94-112). Its forms for metadata and a merge are
  filled from the details shown and sent for the episode opened (EpisodeDrawer.tsx:200-215,
  395-420): while the details of another are on their way these are two.
* `Process`, `retry` and `retranscribe` are offered for episodes without a title, `process` for
  blacklisted ones, and refused; `retry` and `retranscribe` of a blacklisted one are reported
  as queued and create no job (`After` in `RecordActions`).
* The listings and the drawer of jobs show titles and names, and the podcasts their numbers of
  episodes, that no bump of these panels brings up to date, only the timer (`TimerOnly`).
  `transcript_chunks` is not watched at all.
* A job that has moved a source's episodes and is put back in the queue, by a retry or the undo
  of an old cancellation, is no longer a completed discovery: if it then fails or is cancelled,
  a plan from before is applied (`PlanIsCurrent` with `moved = {}` is violated). A preview that
  is retried has, until its new plan is stored, the raw result in the place of plan and
  `applied_at`.
* The switch of a source sends the whole row as cached: a toggle from a view that is behind
  an applied rebind puts the old URL back without a preview (`SourceRebind!ToggleSource`).
* Rows and counts of a listing of jobs are two statements outside a common snapshot
  (main.py:1353-1370). The pager of the active queue goes by the page answered while its
  clicks move the page asked for; it overshoots, and is brought back.
* The analytics view shows a late answer of another range under the tab chosen
  (`crossed` in `FiguresOfTab`).
* `unique_searchers` of a day may exceed its searches: a purge between the note in memory
  and the commit, or a failed transaction, leaves the visitor counted. The privacy page
  shows analytics as off also where localStorage could not be written and recording goes on.

Public site:

* A text typed before `/api/podcasts` has answered does not reach the address; it is replaced by
  that of the address when the answer comes, and lost by a reload, as is everything chosen
  while the fetch has failed (page.tsx:204, 253, 260). The blanks around a text are lost when
  the router hands on the address, also while it is being typed. The logo resets the
  podcasts only where the preferences can be written: the restore that follows reads the old
  ones otherwise.
* An answer of an earlier search may replace or be added to that of a later one
  (page.tsx:305), and its error may hide the later result (`overtaken` in `PagesInOrder`).
  Loading more uses the text and filters as edited since.
* With some but not all podcasts chosen, two or more, all are searched: the request has a
  podcast only when exactly one is chosen (page.tsx:284-287), although the placeholder says
  "Search N selected podcasts..." (page.tsx:197). Custom dates are shown by the search bar
  after a reload but are not in the page's query.
* The filter modal keeps local state that "allows cancel functionality" (FilterModal.tsx:43):
  custom dates are applied at once, and cancelled choices are still there when it is opened
  again.
* Clearing the watched list leaves the memory of the tab, so the next click writes it back,
  although the dialog says it "cannot be undone" (WatchlistPage.tsx:90); another tab's next
  click does the same. An import right after the page was mounted changes the set it shows
  in place, and totals and rows stay behind (`aliased` in `CountsFollowTicks`).
* The saved page may fetch the first window twice; it takes the radius of the late answer,
  fetches the next window twice as well, and then hides the buttons although there is more.
  A failed fetch of more hides the context that was loaded. A card asks for more than the
  conductor's limit of 10, is refused, and keeps its button. `MoreOfferedUntilEdge` is
  therefore about cards.
* The migration of saved clips expires the cookie also when its list could not be written
  (cookies.ts:217-218): the exception in `ClipsKept`. Saving a clip again from a page that
  does not know it is saved drops its note.

## Proofs

Each proof module states its strengthenings as named invariants and has a lemma for Init
and one per action or group of actions. All assume only the named ASSUMEs of the modules:
null values are not ids, not sets of podcasts or videos and not lists of clips, bounds are
naturals, caps and page sizes are positive, streams and browsers are finite sets, and a
form has a row and a value to start with.

`JobQueue_proofs`:

* `TypeCorrect`: `TypeOK` is inductive. It carries the shape of every suspended handler, so
  each statement has the data it needs.
* `OneLiveJob`: `OneLiveJobPerEpisode` with `JobTargetsExist` is inductive. The second part
  is needed because the index looks only at existing episodes: an episode whose row came
  after its job could otherwise reveal two live jobs.
* `OneAnswerPerClaim`: the count of accepted results, plus the open claim, is bounded by
  `attempts`; inductive with the types.
* `OneWorkerEach`: `OneWorkerPerJob` needs `WorkersKeepJobs`: a worker at work whose claim the
  sweep has not taken has its job off the queue, and its name in the row as long as the job is
  claimed. So a claim, which takes a pending job, takes nobody's, and the reset of a poll
  (`AND claimed_by_worker`) gives back only what the polling worker has dropped.
* `ProcessedSearchable`: `ProcessedHasTranscript` needs `ProcessedIsStored`, that a handler
  about to write processed has stored. Without an administrator: retranscribe deletes chunks
  of an episode that a suspended handler may still call processed.
* `JobsAreAQueue`: under `TypeOK` and `QueueInv`, every action is a step of `WorkQueue` or
  leaves its four variables. `UnderWayIsLive` is the link: the rows under way for an episode
  in the abstract queue are the live jobs a query finds, so the conflict of the index is the
  guard of `Submit`. `QueueInv` is needed when an episode's row appears: no job may have been
  waiting for it, or `EpisodeId` would change on its own.

The lemmas are stated for steps beside any other suspended handlers (`Typed(X)`,
`Foreign(X)`), so that `AdminQueue_proofs` cites them for the pipeline's part of its steps:

* `AdminTypeCorrect`, `OneLiveJobUnderAdmin`: `AdminInv` is `AdminTypeOK`, `QueueInv` and
  `RecordsKept`: handlers and audit rows carry jobs that were created, and snapshots
  that say gone only of an episode that is; with `Forward` (rows and jobs are never
  uncreated, gone stays gone) an undo cannot bring back a row whose live jobs the index no
  longer saw.
* `OneAnswerUnderAdmin`: as above, over `AdminInv`; requeueing and reviving a job leave its
  attempts. One worker per job does not hold here: a job requeued while it is worked on goes to
  the next worker.
* `AdminJobsAreAQueue`: the pipeline's part is the lemma above, with the administrator's
  handlers among those suspended; `MoveJobs` sorts the administrator's steps into
  withdrawals, revivals and none, and deletion is `Forget`.
* `DeletedIsGone`: no step stores chunks for an episode that does not exist, and deletion
  removes them in the statement that removes the row.
* `NobodyInLimbo`: `LimboInv` adds that every snapshot with the status blacklisted has the
  flag.

`ClaimGate_proofs`:

* `GateTypeCorrect`: that a worker's job is claimed for it is part of the types, because
  giving back the claims of one worker must not touch another's.
* `StreakCorrect`: `StreakPauses` is inductive by itself: whatever opens the gate also
  clears the streak.
* `PauseCorrect`: `LeakInv`: the process jobs started in a pause *plus the requests that
  still carry an open gate* are at most the workers. A claim trades one for the other.
* `WakeupsArrive`: `NoLostWakeup` says of the state in which the dispatcher sleeps what
  `BacklogIsSwept` says of the future. `WakeInv` adds the moment between its SELECT and its
  sleep: what was announced after the SELECT has set the event again, or a suspended handler
  is about to. `WakingStays` is the step that matters: only the start of a sweep and a
  restart, which sweeps, take a wakeup away. `"dberror" \notin EnvOps` is in the property,
  since the write of a resume that fails leaves without waking (pipeline.py:898).

`Live_proofs`: `StreamInv` needs that exactly the open streams are not yet released, which
makes the count of one request go up and down once; that the open streams and those between
the test and the count stay within the cap and the crowd is where the test is used. The refinement rests on
`AnswersInOrder`: a panel has at most one request that is not cancelled, and what it read
is between what is shown and the present. `FeedInv` (for `StaleIsOnItsWay`) adds that only an
open stream has a queue; its proof follows a table from `pending` into the queue, through
`Bumps` and `Deps`, to a request, and is where it matters that every panel depends on a
bump of every table it reads that is not named in `TimerOnly`.

`EpisodeList_proofs`: `TickedUnderFilters` is inductive; `ReloadKeepsSlice` needs `UrlInv`,
that the address is the encoding of the filters, and that decoding inverts it.
`Console_proofs`: `ShellInv` adds that a dialog and a direct button never share a key, so a
busy dialog's key is its own request. `AdminViews_proofs`: `PanelInv` (the last request under
way is the tab's unless they crossed), `OfferedAsShown` (a request in flight was offered for
the status it carries; the tables of buttons and guards are compared case by case, so that what
is refused for a status unchanged has an obstacle in its way) and
`CountInv` (the visitors in memory are among the searchers of the salt's day; the write that
noted the most is done or still owed), `FormsInv` and `RebindInv`. `PublicSite_proofs`: `WatchedInv`
(`CopiesAgree`), `PageInv` (one answer at a time, and it fits behind the pages shown) and
`ContextInv` (each wider window is asked for once, and none like the one shown
is still to come), `ChoicesInv` and the induction for `ClipsKept`:

* `SaveChangesItsField`: `FormsInv` has `HoldsOneChange`, that a request holds, beside its
  own field, only what it was read with, and `OnePerField`, that a row and a field have one
  request, so that the step that lands a request can be told from the landing of another.
* `PlansAreCurrent`: `PlansInOrder` says that of two jobs that are completed one finished first
  (the other is in its `since`), and that a job which has moved the episodes of a plan and is
  still completed is in the plan's `since`, while one put back in the queue is live or failed. So
  the tests for a live job and for a newer result (source_rebind.py:464-502) leave only failed
  ones. The exceptions are the code's: `worker_complete` marks a job completed before it stores
  the result, so a discovery that was in first may be stored after the plan; and neither test
  sees a job that failed when it was run again.
* `ChoicesSurviveReload`: `AddressFollows` (the address is what the choices write, with all
  podcasts left out), `DatesFollow` (a query has the dates of the search bar or none: so
  picking others always renders anew) and `PreferencesFollow` (what the address leaves out,
  the preferences fill in, unless another tab wrote them), each of a page that is ready.
* `ClipsAreKept`: `ClipsTypeOK` bounds the list by the cap. What the filter of a list returns
  is a fact about a recursive function for every length. The library's induction rule takes
  an operator as a parameter, which is out of the prover's reach; `NatSetInduction` states
  the same for a *set* of naturals, proved from the well-foundedness of `<` on Nat, and
  `WithoutValue`, `WithoutEntries` and what follows from them are inductions with it.

Only model-checked: every liveness property, since fairness and ENABLED are out of the
prover's reach. `NoLostWakeup` is the part of `BacklogIsSwept` that is about safety.


## Not modelled

* Pipeline settings and page caches. A fill that crosses a write leaves the old value; the
  settings cache never expires, the page caches do after five minutes. Nothing in the code
  excludes it, so the statement worth checking is false by one interleaving of two
  handlers, described with its hazard.
* Merge, metadata edit and rechunk of episodes, creation and deletion of podcasts and
  sources, the order of podcasts: sequences of statements on columns that no modelled
  decision reads, or one transaction.
* Chunking, the matching of a rebind, the normalisation of queries, normalisation of titles:
  functions of their input without state.
* Read-only endpoints and full-text search, heartbeats and progress (never read by a
  decision), export, sorting and columns, toasts.
* Migrations and start-up order, authentication, eviction in the rate limiter, rendering.
* blurb is another repository; its requests are external actions.
