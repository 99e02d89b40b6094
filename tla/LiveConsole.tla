----------------------------- MODULE LiveConsole -----------------------------
(***************************************************************************)
(* From a committed change to what the console shows: the conductor's      *)
(* LISTEN connection coalesces notifications into invalidations, a bounded *)
(* queue per stream holds them, the stream route carries them, and         *)
(* useAdminLive turns each into new requests of the panels it concerns.  A *)
(* timer makes up for whatever that path loses.                            *)
(***************************************************************************)
EXTENDS AdminStream, Sequences

CONSTANTS
    Me,             \* the stream of the console modelled here
    Tables, Panels,
    QueueSize,      \* maxsize of the conductor's queue (64 in the code)
    MaxChanges      \* bound: changes made to one table

ASSUME MeAssumption == Me \in Streams
ASSUME PanelsAssumption ==
    /\ Tables \subseteq {"episodes", "jobs", "job_events", "podcasts", "sources",
                         "settings", "worker_heartbeats", "whats_new", "admin_audit"}
    /\ Panels \subseteq {"overview", "attention", "audit", "podcasts", "episodes", "jobs",
                         "history", "content", "episode", "job", "podcast menu"}
ASSUME SizesAssumption == QueueSize \in Nat \ {0} /\ MaxChanges \in Nat

VARIABLES
    version,        \* table |-> number of changes made to it
    listening,      \* whether the LISTEN connection is up
    pending,        \* _pending_tables
    queue,          \* invalidations queued for this console, sets of tables
    greeted,        \* whether this connection's `ready` has been received
    connectedOnce, disconnected,
    visible,        \* the panels on the screen
    asked,          \* panel |-> its requests that are not cancelled
    shown,          \* panel |-> the versions it shows
    missed          \* history: panel |-> tables it listens for with a change it was never told of

feedVars == <<version, listening, pending, queue>>
consoleVars == <<greeted, connectedOnce, disconnected>>
panelVars == <<visible, asked, shown>>
liveVars == <<streamVars, feedVars, consoleVars, panelVars, missed>>

-----------------------------------------------------------------------------
(* Which panels an invalidation concerns.                                  *)

\* Mutant of Bumps: the table job_events is left out.
BumpsMutant(t) ==
    CASE t = "jobs"          -> {"jobs", "overview", "episodes"}
      [] t = "job_events"    -> {"overview"}
      [] OTHER               -> {"content"}

\* TABLE_BUMPS; a table it does not name ("*") bumps everything.
Bumps(t) ==
    CASE t = "episodes"          -> {"episodes", "overview"}
      [] t = "jobs"              -> {"jobs", "overview", "episodes"}
      [] t = "job_events"        -> {"jobs"}
      [] t \in {"podcasts", "sources"} -> {"podcasts", "overview", "episodes"}
      [] t = "settings"          -> {"settings", "overview", "content"}
      [] t \in {"worker_heartbeats", "admin_audit"} -> {"overview"}
      [] OTHER                   -> {"content"}

\* The dependencies of each panel's effect (refreshKey, for the drawers).  The
\* podcasts are also fetched for the filter above the episodes, without podcastJobsTick.
Deps(p) ==
    CASE p \in {"overview", "audit"} -> {"overview"}
      [] p = "attention"         -> {"episodes", "overview"}
      [] p = "podcasts"          -> {"podcasts", "jobs"}
      [] p = "podcast menu"      -> {"podcasts"}
      [] p \in {"episodes", "episode"} -> {"episodes"}
      [] p \in {"jobs", "history", "job"} -> {"jobs"}
      [] OTHER                   -> {"content"}

Catalogue == {"episodes", "sources", "podcasts"}

\* The watched tables that the panel's endpoint selects from or joins.
Reads(p) ==
    Tables \cap
    CASE p = "overview"          -> Catalogue \cup {"jobs", "settings", "worker_heartbeats"}
      [] p = "audit"             -> {"admin_audit"}
      [] p = "attention"         -> Catalogue \cup {"settings"}
      [] p \in {"podcasts", "podcast menu", "episodes", "episode", "jobs", "history"}
                                 -> Catalogue \cup {"jobs"}
      [] p = "job"               -> Catalogue \cup {"jobs", "job_events"}
      [] OTHER                   -> {"whats_new", "settings"}

\* Of those, the ones no effect of the panel depends on: a title, a podcast's name or a
\* number of episodes that changes waits for the timer, or for a change of another table.
TimerOnly(p) ==
    CASE p = "podcasts"                    -> {"episodes"}
      [] p = "podcast menu"                -> {"episodes", "jobs"}
      [] p \in {"jobs", "history", "job"}  -> Catalogue
      [] OTHER                             -> {}

ListensFor(p) == Reads(p) \ TimerOnly(p)

Told(S) == {p \in Panels : \E t \in S : Bumps(t) \cap Deps(p) # {}}

-----------------------------------------------------------------------------
(* The panels' effects.                                                    *)

Unread == [t \in Tables |-> -1]      \* a request not answered yet

\* Mutant of Refetch: the request in flight is not cancelled.
RefetchMutant(S) ==
    /\ asked' = [p \in Panels |-> IF p \in S \cap visible THEN asked[p] \cup {Unread} ELSE asked[p]]
    /\ UNCHANGED <<visible, shown>>

\* A panel's effect runs again: it cancels the request in flight, and asks.
Refetch(S) ==
    /\ asked' = [p \in Panels |-> IF p \in S \cap visible THEN {Unread} ELSE asked[p]]
    /\ UNCHANGED <<visible, shown>>

\* bumpAll
BumpAll == Refetch(Panels)

\* No panel will hear of the changes to these tables by themselves.
Miss(S) == missed' = [p \in Panels |-> missed[p] \cup (S \cap ListensFor(p))]
Forgive == missed' = [p \in Panels |-> {}]

QueuedTables == UNION {queue[i] : i \in 1..Len(queue)}

-----------------------------------------------------------------------------
LiveInit ==
    /\ StreamInit
    /\ version = [t \in Tables |-> 0]
    /\ listening = TRUE /\ pending = {} /\ queue = <<>>
    /\ greeted = FALSE /\ connectedOnce = FALSE /\ disconnected = FALSE
    /\ visible = {"overview"} \cap Panels
    /\ asked = [p \in Panels |-> IF p = "overview" THEN {Unread} ELSE {}]
    /\ shown = [p \in Panels |-> version]
    /\ missed = [p \in Panels |-> {}]

\* A statement changes a watched table; its trigger notifies the listener.
Change(t) ==
    /\ version[t] < MaxChanges
    /\ version' = [version EXCEPT ![t] = @ + 1]
    /\ IF listening
       THEN pending' = pending \cup {t} /\ UNCHANGED missed
       ELSE UNCHANGED pending /\ Miss({t})
    /\ UNCHANGED <<streamVars, listening, queue, consoleVars, panelVars>>

\* _listen_loop loses its connection; when the conductor stops, so does _flush.
StopListening ==
    /\ listening
    /\ listening' = FALSE
    /\ \/ pending' = {} /\ Miss(pending)
       \/ UNCHANGED <<pending, missed>>
    /\ UNCHANGED <<streamVars, version, queue, consoleVars, panelVars>>

Listen ==
    /\ ~listening
    /\ listening' = TRUE
    /\ UNCHANGED <<streamVars, version, pending, queue, consoleVars, panelVars, missed>>

\* _flush: a full queue loses its oldest invalidation.
Flush ==
    /\ pending # {}
    /\ pending' = {}
    /\ IF phase[Me] # "open"
       THEN UNCHANGED queue /\ Miss(pending)
       ELSE IF Len(queue) < QueueSize
            THEN queue' = Append(queue, pending) /\ UNCHANGED missed
            ELSE queue' = Append(Tail(queue), pending) /\ Miss(Head(queue))
    /\ UNCHANGED <<streamVars, version, listening, consoleVars, panelVars>>

\* The stream opens: the conductor subscribes a queue and sends `ready`.
Connect ==
    /\ Serve(Me)
    /\ queue' = <<>> /\ greeted' = FALSE
    /\ UNCHANGED <<version, listening, pending, connectedOnce, disconnected, panelVars, missed>>

\* onReady
Ready ==
    /\ phase[Me] = "open" /\ ~greeted
    /\ greeted' = TRUE /\ connectedOnce' = TRUE /\ disconnected' = FALSE
    /\ IF disconnected THEN BumpAll /\ Forgive ELSE UNCHANGED <<panelVars, missed>>
    /\ UNCHANGED <<streamVars, feedVars>>

\* onInvalidate
Invalidate ==
    /\ phase[Me] = "open" /\ greeted /\ queue # <<>>
    /\ queue' = Tail(queue)
    /\ Refetch(Told(Head(queue)))
    /\ UNCHANGED <<streamVars, version, listening, pending, consoleVars, missed>>

\* onError: EventSource reconnects by itself.
Disconnect ==
    /\ End(Me)
    /\ queue' = <<>> /\ greeted' = FALSE
    /\ Miss(QueuedTables)
    /\ disconnected' = (disconnected \/ connectedOnce)
    /\ UNCHANGED <<version, listening, pending, connectedOnce, panelVars>>

\* Everything else that happens to the streams of this and other consoles.
OtherStreams ==
    /\ \/ Ask(Me) \/ Deny(Me) \/ EndAgain(Me) \/ EndEarly(Me)
       \/ \E r \in Streams \ {Me} :
             Ask(r) \/ Deny(r) \/ Serve(r) \/ End(r) \/ EndAgain(r) \/ EndEarly(r)
    /\ UNCHANGED <<feedVars, consoleVars, panelVars, missed>>

\* Mutant of Tick: the timer only runs while there is no stream.
TickMutant ==
    /\ phase[Me] # "open"
    /\ BumpAll /\ Forgive
    /\ UNCHANGED <<streamVars, feedVars, consoleVars>>

\* The safety net: 60 s while live, 10 s otherwise.
Tick ==
    /\ BumpAll /\ Forgive
    /\ UNCHANGED <<streamVars, feedVars, consoleVars>>

\* The administrator opens or leaves a section or a drawer.
OpenPanel(p) ==
    /\ p # "overview" /\ p \notin visible
    /\ visible' = visible \cup {p}
    /\ asked' = [asked EXCEPT ![p] = {Unread}]
    /\ missed' = [missed EXCEPT ![p] = {}]
    /\ UNCHANGED <<streamVars, feedVars, consoleVars, shown>>

ClosePanel(p) ==
    /\ p # "overview" /\ p \in visible
    /\ visible' = visible \ {p}
    /\ asked' = [asked EXCEPT ![p] = {}]
    /\ UNCHANGED <<streamVars, feedVars, consoleVars, shown, missed>>

\* The conductor reads the database for a request.
Read(p) ==
    /\ Unread \in asked[p]
    /\ asked' = [asked EXCEPT ![p] = (@ \ {Unread}) \cup {version}]
    /\ UNCHANGED <<streamVars, feedVars, consoleVars, visible, shown, missed>>

\* Its answer arrives, or it fails and the panel keeps what it shows.
Answer(p) ==
    /\ \E s \in asked[p] \ {Unread} :
          /\ shown' = [shown EXCEPT ![p] = s]
          /\ asked' = [asked EXCEPT ![p] = @ \ {s}]
    /\ UNCHANGED <<streamVars, feedVars, consoleVars, visible, missed>>

Fail(p) ==
    /\ asked[p] # {}
    /\ asked' = [asked EXCEPT ![p] = {}]
    /\ missed' = [missed EXCEPT ![p] = ListensFor(p)]
    /\ UNCHANGED <<streamVars, feedVars, consoleVars, visible, shown>>

PanelNext ==
    \E p \in Panels : OpenPanel(p) \/ ClosePanel(p) \/ Read(p) \/ Answer(p) \/ Fail(p)

LiveNext ==
    \/ \E t \in Tables : Change(t)
    \/ StopListening \/ Listen \/ Flush
    \/ Connect \/ Ready \/ Invalidate \/ Disconnect \/ OtherStreams
    \/ Tick \/ PanelNext

LiveSpec == LiveInit /\ [][LiveNext]_liveVars

\* Only the timer and the requests are fair: the stream may never work.  A
\* request that keeps being sent is answered in the end (it takes less than the
\* timer's period), although any one of them may fail.
LiveFairness ==
    /\ WF_liveVars(Tick)
    /\ \A p \in Panels : SF_liveVars(Read(p)) /\ SF_liveVars(Answer(p))

FairLiveSpec == LiveSpec /\ LiveFairness

-----------------------------------------------------------------------------
(* Properties.                                                             *)

LiveTypeOK ==
    /\ StreamTypeOK
    /\ version \in [Tables -> Nat]
    /\ listening \in BOOLEAN
    /\ pending \subseteq Tables
    /\ queue \in Seq(SUBSET Tables)
    /\ greeted \in BOOLEAN /\ connectedOnce \in BOOLEAN /\ disconnected \in BOOLEAN
    /\ visible \subseteq Panels
    /\ asked \in [Panels -> SUBSET ({Unread} \cup [Tables -> Nat])]
    /\ shown \in [Panels -> [Tables -> Nat]]
    /\ missed \in [Panels -> SUBSET Tables]

\* A panel that is behind on a table it listens for is about to learn of it: an
\* invalidation is on its way or a request will bring it, unless the change was
\* one of those the feed is known to lose (listener down, no stream, a full
\* queue, a failed request) and the timer has not come yet.  The other tables a
\* panel reads are named in TimerOnly: of those it is promised EventuallyFresh alone.
StaleOnItsWay ==
    \A p \in visible : \A t \in ListensFor(p) \ missed[p] :
        \/ shown[p][t] = version[t]
        \/ t \in pending \cup QueuedTables
        \/ Unread \in asked[p]
        \/ \E s \in asked[p] \ {Unread} : s[t] = version[t]

\* The console implements FreshView: no answer of an earlier request is ever
\* shown after that of a later one.
Fresh == INSTANCE FreshView WITH Tables <- Tables, Panels <- Panels, version <- version, shown <- shown
ShowsFreshViews == Fresh!Spec

\* Whatever the feed loses, a panel that stays on the screen ends up showing
\* the last state of the tables it reads.
EventuallyFresh ==
    \A p \in Panels :
        <>[](p \in visible) => <>[](\A t \in Reads(p) : shown[p][t] = version[t])
=============================================================================
