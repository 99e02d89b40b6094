------------------------------- MODULE JobLists -------------------------------
(***************************************************************************)
(* The two lists of the console's jobs section (JobsView and the part of   *)
(* AdminConsole that feeds it): the active queue, whose pager goes by the  *)
(* page that was answered, and the history, whose pager goes by the page   *)
(* that is asked for.  The conductor reads the rows and the total of a     *)
(* page in two statements, and jobs come, finish and go in between.  The   *)
(* search box of the history is that of EpisodeList, and left out here.    *)
(***************************************************************************)
EXTENDS Integers, FiniteSets

CONSTANTS
    JobLimit,       \* bound: rows of the jobs table
    PageLimit,      \* bound: the page a click may ask for
    RowsPerPage     \* page_size

ASSUME JobListsAssumption == JobLimit \in Nat /\ PageLimit \in Nat /\ RowsPerPage \in Nat \ {0}

VARIABLES
    rowsOf,         \* jobs table: status |-> how many rows
    news,           \* an invalidation of jobs is on its way to the console
    inView,         \* whether the section is on the screen
    tab,            \* the list a behaviour follows
    asked,          \* [status, page]: historyFilters, or activeJobsPage alone
    jobPage,        \* the answer shown: [page, rows, total]
    fetch           \* its request: [rows, total], each NotRead until it is read

jobListVars == <<rowsOf, news, inView, tab, asked, jobPage, fetch>>

Outcomes == {"completed", "failed"}
NotRead == -1
NoFetch == [rows |-> NotRead, total |-> NotRead, at |-> "none"]
Started == [rows |-> NotRead, total |-> NotRead, at |-> "asked"]

-----------------------------------------------------------------------------
(* The conductor.                                                          *)

\* The statuses of the rows a list is about.
Listed ==
    IF tab = "active" THEN {"active"}
    ELSE {s \in Outcomes : asked.status \in {"all", s}}

JobTotal ==
    (IF "active" \in Listed THEN rowsOf["active"] ELSE 0)
    + (IF "completed" \in Listed THEN rowsOf["completed"] ELSE 0)
    + (IF "failed" \in Listed THEN rowsOf["failed"] ELSE 0)

\* LIMIT page_size OFFSET (page - 1) * page_size
JobRows ==
    LET left == JobTotal - (asked.page - 1) * RowsPerPage
    IN IF left < 0 THEN 0 ELSE IF left > RowsPerPage THEN RowsPerPage ELSE left

LastPage(total) == IF total = 0 THEN 1 ELSE (total + RowsPerPage - 1) \div RowsPerPage

Stored(r) == r["active"] + r["completed"] + r["failed"]

-----------------------------------------------------------------------------
JobListsInit ==
    /\ rowsOf \in [{"active"} \cup Outcomes -> 0..JobLimit]
    /\ Stored(rowsOf) <= JobLimit
    /\ news = FALSE /\ inView = FALSE
    /\ tab \in {"active", "history"}
    /\ asked = [status |-> "all", page |-> 1]
    /\ jobPage = [page |-> 1, rows |-> 0, total |-> 0]
    /\ fetch = NoFetch

\* A job is queued, finishes or is cancelled, goes back to the queue, and the
\* finished ones are purged; every change is announced to the console.
JobStep ==
    /\ \/ /\ Stored(rowsOf) < JobLimit
          /\ rowsOf' = [rowsOf EXCEPT !["active"] = @ + 1]
       \/ \E s \in Outcomes :
             /\ rowsOf["active"] > 0
             /\ rowsOf' = [rowsOf EXCEPT !["active"] = @ - 1, ![s] = @ + 1]
       \/ \E s \in Outcomes :
             /\ rowsOf[s] > 0
             /\ rowsOf' = [rowsOf EXCEPT ![s] = @ - 1, !["active"] = @ + 1]
       \/ rowsOf' = [rowsOf EXCEPT !["completed"] = 0, !["failed"] = 0]
    /\ news' = TRUE
    /\ UNCHANGED <<inView, tab, asked, jobPage, fetch>>

\* The section fetches again: for the news, for the Refresh button, or for the
\* timer of the console, which is slower than a request.
Renew ==
    /\ news \/ fetch.at = "none"
    /\ news' = FALSE
    /\ fetch' = IF inView THEN Started ELSE fetch
    /\ UNCHANGED <<rowsOf, inView, tab, asked, jobPage>>

OpenSection ==
    /\ ~inView /\ inView' = TRUE
    /\ fetch' = Started
    /\ UNCHANGED <<rowsOf, news, tab, asked, jobPage>>

CloseSection ==
    /\ inView /\ inView' = FALSE
    /\ fetch' = NoFetch
    /\ UNCHANGED <<rowsOf, news, tab, asked, jobPage>>

\* A new page or filter: the request under way is cancelled and another one sent.
Ask(a) ==
    /\ inView
    /\ asked' = a
    /\ fetch' = IF a = asked /\ tab = "active" THEN fetch ELSE Started

\* The pager of the active queue is there while it has more than one page.  Its
\* buttons go by the page answered, and move the page asked for.
ActivePager ==
    /\ tab = "active" /\ jobPage.total > RowsPerPage
    /\ \/ /\ jobPage.page > 1
          /\ Ask([asked EXCEPT !.page = IF @ > 1 THEN @ - 1 ELSE 1])
       \/ /\ jobPage.page < LastPage(jobPage.total) /\ asked.page < PageLimit
          /\ Ask([asked EXCEPT !.page = @ + 1])
    /\ UNCHANGED <<rowsOf, news, inView, tab, jobPage>>

HistoryPager ==
    /\ tab = "history"
    /\ \/ asked.page > 1 /\ Ask([asked EXCEPT !.page = @ - 1])
       \/ /\ asked.page < LastPage(jobPage.total) /\ asked.page < PageLimit
          /\ Ask([asked EXCEPT !.page = @ + 1])
    /\ UNCHANGED <<rowsOf, news, inView, tab, jobPage>>

\* The select boxes and the chips of the history go back to the first page.
HistoryFilter ==
    /\ tab = "history"
    /\ \E s \in ({"all"} \cup Outcomes) \ {asked.status} : Ask([status |-> s, page |-> 1])
    /\ UNCHANGED <<rowsOf, news, inView, tab, jobPage>>

\* The two statements of a listing, each on a connection of its own.
ReadJobRows ==
    /\ fetch.at = "asked" /\ fetch.rows = NotRead
    /\ fetch' = [fetch EXCEPT !.rows = JobRows]
    /\ UNCHANGED <<rowsOf, news, inView, tab, asked, jobPage>>

ReadJobTotal ==
    /\ fetch.at = "asked" /\ fetch.total = NotRead
    /\ fetch' = [fetch EXCEPT !.total = JobTotal]
    /\ UNCHANGED <<rowsOf, news, inView, tab, asked, jobPage>>

Both == fetch.at = "asked" /\ fetch.rows # NotRead /\ fetch.total # NotRead

\* Mutant of ShowAnswer: the answer is shown as it is.
ShowAnswerMutant ==
    /\ Both
    /\ jobPage' = [page |-> asked.page, rows |-> fetch.rows, total |-> fetch.total]
    /\ fetch' = NoFetch
    /\ UNCHANGED <<rowsOf, news, inView, tab, asked>>

\* An empty page of a list that has rows: its last page is asked for instead.
ShowAnswer ==
    /\ Both
    /\ IF fetch.rows = 0 /\ fetch.total > 0 /\ asked.page > 1
       THEN /\ Ask([asked EXCEPT !.page = LastPage(fetch.total)])
            /\ UNCHANGED jobPage
       ELSE /\ jobPage' = [page |-> asked.page, rows |-> fetch.rows, total |-> fetch.total]
            /\ fetch' = NoFetch /\ UNCHANGED asked
    /\ UNCHANGED <<rowsOf, news, inView, tab>>

\* A request is lost on its way, or its answer is.
FailFetch ==
    /\ fetch = Started \/ Both
    /\ fetch' = NoFetch
    /\ UNCHANGED <<rowsOf, news, inView, tab, asked, jobPage>>

-----------------------------------------------------------------------------
JobRequests == Renew \/ ReadJobRows \/ ReadJobTotal \/ ShowAnswer \/ FailFetch

JobListsNext ==
    \/ JobStep \/ JobRequests
    \/ OpenSection \/ CloseSection \/ ActivePager \/ HistoryPager \/ HistoryFilter

\* The timer fires; a request that is sent again whenever it is lost is answered
\* in the end.
JobListsFairness ==
    /\ WF_jobListVars(Renew)
    /\ SF_jobListVars(ReadJobRows) /\ SF_jobListVars(ReadJobTotal)
    /\ SF_jobListVars(ShowAnswer)

JobListsSpec == JobListsInit /\ [][JobListsNext]_jobListVars /\ JobListsFairness

-----------------------------------------------------------------------------
(* Properties.                                                             *)

\* Once the jobs and the administrator come to rest, the list shows the page it
\* asks for as it is: clicks beyond the end, jobs that finish between the two
\* statements of an answer and a queue that empties and fills again under a late
\* page do not leave it on an empty page of a list that has rows.
JobsSettle ==
    (<>[][JobRequests]_jobListVars /\ <>[]inView)
    => <>[](/\ jobPage = [page |-> asked.page, rows |-> JobRows, total |-> JobTotal]
            /\ jobPage.total > 0 => jobPage.rows > 0)
=============================================================================
