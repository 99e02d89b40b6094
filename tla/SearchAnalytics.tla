----------------------------- MODULE SearchAnalytics -----------------------------
(***************************************************************************)
(* Analytics from the browser to the table: beacons a browser may opt out  *)
(* of and nobody waits for, the routes that limit and filter them, and the *)
(* conductor, which counts the distinct searchers of a Pacific day in its  *)
(* memory and writes the count a few awaits later.  Midnight, restarts,    *)
(* failed writes, purges and retention come at any moment.                 *)
(***************************************************************************)
EXTENDS Naturals, FiniteSets

CONSTANTS
    Browsers,       \* each with an address of its own
    Silent,         \* browsers that send GPC or DNT
    Operators,      \* browsers with an admin session
    Limit,          \* 60 searches and 120 opens of a browser per minute
    LastDay,        \* bound: days
    MaxEvents,      \* bound: searches and opens
    NoWrite

ASSUME AnalyticsAssumption ==
    /\ Silent \cup Operators \subseteq Browsers /\ IsFiniteSet(Browsers)
    /\ Limit \in Nat \ {0} /\ LastDay \in Nat
    /\ \A k \in {"search", "open"}, d \in 0..LastDay, n \in 0..Cardinality(Browsers) :
          NoWrite # [kind |-> k, day |-> d, unique |-> n]

VARIABLES
    out,            \* browsers that have turned analytics off
    made,           \* searches and opens so far
    wire,           \* beacons on their way, of each browser and kind
    used,           \* what the limiter has let through this minute
    enabled,        \* analytics_enabled
    today,
    saltDay,        \* _salt_day and _visitors
    visitors,
    writing,        \* the transaction under way for a browser (bound: one)
    rows,           \* analytics_search_daily; a row that is not there is all 0
    purging,        \* purge_all between its DELETEs and reset_memory
    searchers,      \* history: the distinct searchers of each day
    disturbed       \* history: days with a restart, a purge or a failed write

analyticsVars == <<out, made, wire, used, enabled, today, saltDay, visitors, writing, rows, purging,
                   searchers, disturbed>>

Kinds == {"search", "open"}
Days == 0..LastDay
NoRow == [searches |-> 0, unique |-> 0, opens |-> 0]

AnalyticsInit ==
    /\ out = {} /\ made = 0 /\ enabled = TRUE
    /\ wire = [b \in Browsers |-> [k \in Kinds |-> 0]]
    /\ used = [b \in Browsers |-> [k \in Kinds |-> 0]]
    /\ today = 0 /\ saltDay = 0 /\ visitors = {}
    /\ writing = [b \in Browsers |-> NoWrite]
    /\ rows = [d \in Days |-> NoRow] /\ purging = FALSE
    /\ searchers = [d \in Days |-> {}] /\ disturbed = {}

-----------------------------------------------------------------------------
\* The switch of the privacy page; it is disabled where the browser says so itself.
OptOut(b) ==
    /\ b \notin Silent
    /\ out' = IF b \in out THEN out \ {b} ELSE out \cup {b}
    /\ UNCHANGED <<made, wire, used, enabled, today, saltDay, visitors, writing, rows, purging, searchers, disturbed>>

\* trackSearch or trackOpen; nothing is sent from a browser that opted out.
Track(b, k) ==
    /\ made < MaxEvents /\ made' = made + 1
    /\ wire' = IF b \in Silent \cup out THEN wire ELSE [wire EXCEPT ![b][k] = @ + 1]
    /\ UNCHANGED <<out, used, enabled, today, saltDay, visitors, writing, rows, purging, searchers, disturbed>>

\* A beacon is lost; nobody sends it again.
LoseBeacon(b, k) ==
    /\ wire[b][k] > 0
    /\ wire' = [wire EXCEPT ![b][k] = @ - 1]
    /\ UNCHANGED <<out, made, used, enabled, today, saltDay, visitors, writing, rows, purging, searchers, disturbed>>

\* checkRateLimit: the minute of a browser is over.
NewMinute(b, k) ==
    /\ used[b][k] > 0
    /\ used' = [used EXCEPT ![b][k] = 0]
    /\ UNCHANGED <<out, made, wire, enabled, today, saltDay, visitors, writing, rows, purging, searchers, disturbed>>

\* The route takes a beacon off the wire: the limiter comes before the session.
Received(b, k) ==
    /\ wire[b][k] > 0 /\ writing[b] = NoWrite
    /\ wire' = [wire EXCEPT ![b][k] = @ - 1]
    /\ used' = IF used[b][k] < Limit THEN [used EXCEPT ![b][k] = @ + 1] ELSE used

Passed(b, k) == used[b][k] < Limit /\ b \notin Operators /\ enabled

Drop(b, k) ==
    /\ Received(b, k) /\ ~Passed(b, k)
    /\ UNCHANGED <<out, made, enabled, today, saltDay, visitors, writing, rows, purging, searchers, disturbed>>

\* The visitors once b is among them; a new day starts with none.
Noted(b) == (IF saltDay = today THEN visitors ELSE {}) \cup {b}

\* record_search up to its transaction: the day and the count are as of now.
Search(b) ==
    /\ Received(b, "search") /\ Passed(b, "search")
    /\ saltDay' = today /\ visitors' = Noted(b)
    /\ writing' = [writing EXCEPT ![b] = [kind |-> "search", day |-> today, unique |-> Cardinality(Noted(b))]]
    /\ searchers' = [searchers EXCEPT ![today] = @ \cup {b}]
    /\ UNCHANGED <<out, made, enabled, today, rows, purging, disturbed>>

\* record_open up to its transaction.
OpenResult(b) ==
    /\ Received(b, "open") /\ Passed(b, "open")
    /\ writing' = [writing EXCEPT ![b] = [kind |-> "open", day |-> today, unique |-> 0]]
    /\ UNCHANGED <<out, made, enabled, today, saltDay, visitors, rows, purging, searchers, disturbed>>

\* Mutant of Upsert: the last write wins.
UpsertMutant(row, w) ==
    IF w.kind = "open"
    THEN [row EXCEPT !.opens = @ + 1]
    ELSE [row EXCEPT !.searches = @ + 1, !.unique = w.unique]

\* INSERT ... ON CONFLICT DO UPDATE, with GREATEST for the searchers.
Upsert(row, w) ==
    IF w.kind = "open"
    THEN [row EXCEPT !.opens = @ + 1]
    ELSE [row EXCEPT !.searches = @ + 1, !.unique = IF @ < w.unique THEN w.unique ELSE @]

Commit(b) ==
    LET w == writing[b]
    IN  /\ w # NoWrite
        /\ rows' = [rows EXCEPT ![w.day] = Upsert(@, w)]
        /\ writing' = [writing EXCEPT ![b] = NoWrite]
        /\ UNCHANGED <<out, made, wire, used, enabled, today, saltDay, visitors, purging, searchers, disturbed>>

\* The transaction fails: the visitor stays in memory.
Abort(b) ==
    /\ writing[b] # NoWrite
    /\ writing' = [writing EXCEPT ![b] = NoWrite]
    /\ disturbed' = disturbed \cup {writing[b].day}
    /\ UNCHANGED <<out, made, wire, used, enabled, today, saltDay, visitors, rows, purging, searchers>>

-----------------------------------------------------------------------------
SwitchAnalytics ==
    /\ enabled' = ~enabled
    /\ UNCHANGED <<out, made, wire, used, today, saltDay, visitors, writing, rows, purging, searchers, disturbed>>

Midnight ==
    /\ today < LastDay /\ today' = today + 1
    /\ UNCHANGED <<out, made, wire, used, enabled, saltDay, visitors, writing, rows, purging, searchers, disturbed>>

\* The conductor restarts: its memory and the writes under way are gone.
RestartConductor ==
    /\ saltDay' = today /\ visitors' = {} /\ purging' = FALSE
    /\ writing' = [b \in Browsers |-> NoWrite]
    /\ disturbed' = disturbed \cup {today} \cup {writing[b].day : b \in {c \in Browsers : writing[c] # NoWrite}}
    /\ UNCHANGED <<out, made, wire, used, enabled, today, rows, searchers>>

\* purge_all: the tables first, the memory some awaits later.
PurgeRows ==
    /\ ~purging /\ purging' = TRUE
    /\ rows' = [d \in Days |-> NoRow]
    /\ disturbed' = disturbed \cup 0..today
    /\ UNCHANGED <<out, made, wire, used, enabled, today, saltDay, visitors, writing, searchers>>

PurgeMemory ==
    /\ purging /\ purging' = FALSE
    /\ saltDay' = today /\ visitors' = {}
    /\ disturbed' = disturbed \cup 0..today
    /\ UNCHANGED <<out, made, wire, used, enabled, today, writing, rows, searchers>>

\* purge_old_analytics: rows of the past go when their time is over.
Retention(d) ==
    /\ d < today /\ rows[d] # NoRow
    /\ rows' = [rows EXCEPT ![d] = NoRow]
    /\ disturbed' = disturbed \cup {d}
    /\ UNCHANGED <<out, made, wire, used, enabled, today, saltDay, visitors, writing, purging, searchers>>

-----------------------------------------------------------------------------
AnalyticsNext ==
    \/ \E b \in Browsers : OptOut(b) \/ Search(b) \/ OpenResult(b) \/ Commit(b) \/ Abort(b)
    \/ \E b \in Browsers, k \in Kinds : Track(b, k) \/ LoseBeacon(b, k) \/ NewMinute(b, k) \/ Drop(b, k)
    \/ SwitchAnalytics
    \/ Midnight
    \/ RestartConductor
    \/ PurgeRows
    \/ PurgeMemory
    \/ \E d \in Days : Retention(d)

AnalyticsSpec == AnalyticsInit /\ [][AnalyticsNext]_analyticsVars

-----------------------------------------------------------------------------
(* Properties.                                                              *)

\* The searchers stored for a day are never more than it had, whatever restarts,
\* fails or is purged; and on a day without any of that they are all of them once
\* the writes under way are done, in whatever order, on either side of midnight.
SearchersCounted ==
    \A d \in Days :
        /\ rows[d].unique <= Cardinality(searchers[d])
        /\ d \notin disturbed /\ (\A b \in Browsers : writing[b] = NoWrite \/ writing[b].day # d)
           => rows[d].unique = Cardinality(searchers[d])
=============================================================================
