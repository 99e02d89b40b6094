------------------------------ MODULE AnalyticsPanel ------------------------------
(***************************************************************************)
(* The analytics view of the console: a tab per range of days, a request   *)
(* whenever another range is chosen, and answers that nothing cancels.     *)
(***************************************************************************)
EXTENDS Naturals

CONSTANTS
    Spans,          \* 7, 30, 90 and 180 days
    FirstSpan,      \* 30
    NoSpan,         \* nothing loaded, no request
    MaxLoads        \* bound: requests under way

ASSUME PanelAssumption == FirstSpan \in Spans /\ NoSpan \notin Spans /\ MaxLoads \in Nat \ {0}

VARIABLES
    days,           \* the tab chosen
    dataOf,         \* the range of the data shown
    busyPanel,      \* loading
    panelError,
    loads,          \* the range each request under way asks for
    crossed         \* history: a range was chosen while a request was under way

panelVars == <<days, dataOf, busyPanel, panelError, loads, crossed>>

LoadSlots == 1..MaxLoads
Asked == {s \in LoadSlots : loads[s] # NoSpan}
FirstFree == CHOOSE s \in LoadSlots : loads[s] = NoSpan

\* The view is mounted and asks for the first range.
PanelInit ==
    /\ days = FirstSpan /\ dataOf = NoSpan
    /\ busyPanel = TRUE /\ panelError = FALSE
    /\ loads = [s \in LoadSlots |-> IF s = 1 THEN FirstSpan ELSE NoSpan]
    /\ crossed = FALSE

\* Mutant of Request: the callback still holds the range it was made with.
RequestMutant(d) ==
    /\ Asked # LoadSlots
    /\ loads' = [loads EXCEPT ![FirstFree] = days]
    /\ busyPanel' = TRUE /\ panelError' = FALSE

Request(d) ==
    /\ Asked # LoadSlots
    /\ loads' = [loads EXCEPT ![FirstFree] = d]
    /\ busyPanel' = TRUE /\ panelError' = FALSE

\* The tabs are there once something is loaded, also while more is.
ChooseSpan(d) ==
    /\ dataOf # NoSpan /\ d # days /\ days' = d
    /\ Request(d)
    /\ crossed' = (Asked # {})
    /\ UNCHANGED dataOf

\* Refresh beside the tabs, or Retry in place of what was never loaded.
Reask ==
    /\ ~busyPanel
    /\ Request(days)
    /\ crossed' = (Asked # {})
    /\ UNCHANGED <<days, dataOf>>

Loaded(s) ==
    /\ s \in Asked
    /\ dataOf' = loads[s]
    /\ loads' = [loads EXCEPT ![s] = NoSpan] /\ busyPanel' = FALSE
    /\ UNCHANGED <<days, panelError, crossed>>

\* What was shown stays, under a message.
LoadFailed(s) ==
    /\ s \in Asked
    /\ panelError' = TRUE
    /\ loads' = [loads EXCEPT ![s] = NoSpan] /\ busyPanel' = FALSE
    /\ UNCHANGED <<days, dataOf, crossed>>

Remount ==
    /\ days' = FirstSpan /\ dataOf' = NoSpan
    /\ busyPanel' = TRUE /\ panelError' = FALSE
    /\ loads' = [s \in LoadSlots |-> IF s = 1 THEN FirstSpan ELSE NoSpan]
    /\ crossed' = FALSE

PanelNext ==
    \/ \E d \in Spans : ChooseSpan(d)
    \/ Reask
    \/ \E s \in LoadSlots : Loaded(s) \/ LoadFailed(s)
    \/ Remount

PanelSpec == PanelInit /\ [][PanelNext]_panelVars

-----------------------------------------------------------------------------
(* Properties.                                                              *)

\* The figures are those of the tab chosen once nothing is under way, unless an
\* error says that they could not be refreshed or the requests crossed; refreshing
\* once more after they did puts it right.
FiguresOfTab == ~crossed /\ Asked = {} /\ ~panelError => dataOf = days
=============================================================================
