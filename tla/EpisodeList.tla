----------------------------- MODULE EpisodeList -----------------------------
(***************************************************************************)
(* The console's episode list (EpisodesView and the part of AdminConsole   *)
(* that feeds it): filters kept in the URL, a debounced search box, pages  *)
(* fetched with cancellable requests, a selection that spans pages, and    *)
(* bulk actions on the ticked rows or on everything that matches.          *)
(***************************************************************************)
EXTENDS Integers, Sequences, FiniteSets, SequencesExt

CONSTANTS
    Order,          \* the episodes, in the order of the list
    Titled,         \* those whose title matches the search text "text"
    StatusTabs,     \* the status filters used in this instance
    BulkOps,        \* the bulk actions used in this instance
    PageSize        \* filters.pageSize

ASSUME PageSizeAssumption == PageSize \in Nat \ {0}

VARIABLES
    status,         \* episodes table: episode |-> status, or "gone"
    here,           \* whether the section is on the screen
    filters,        \* [status, q, page]
    url,            \* the query string of the page
    qInput,         \* what the search box holds
    list,           \* the page shown: [of, rows, total]
    request,        \* its request, unless cancelled: [at, of, rows, total]
    selected, allMatching,
    under,          \* history: for each tick of the selection, the filters of the page
                    \* it was made on and the filters then in force
    dialog,         \* the open confirmation, or [op |-> "none"]
    bulk            \* bulk action |-> its request, or [at |-> "none"]

filterVars == <<filters, url, qInput>>
selectionVars == <<selected, allMatching, under>>
listVars == <<status, here, filterVars, list, request, selectionVars, dialog, bulk>>

Episodes == Range(Order)
Statuses == {"discovered", "downloading", "processed", "failed", "gone"}
Texts == {"", "text"}
Keys == [status : StatusTabs, q : Texts]
Key(f) == [status |-> f.status, q |-> f.q]

-----------------------------------------------------------------------------
(* The conductor.                                                          *)

Matches(e, k) ==
    /\ status[e] # "gone"
    /\ k.status \in {"all", status[e]}
    /\ k.q # "" => e \in Titled

Matching(k) == SelectSeq(Order, LAMBDA e : Matches(e, k))

Pages(total) == IF total = 0 THEN 1 ELSE (total + PageSize - 1) \div PageSize

Page(f) ==
    LET all == Matching(Key(f))
        from == (f.page - 1) * PageSize
    IN [of |-> f, total |-> Len(all),
        rows |-> Range(SubSeq(all, from + 1,
                              IF from + PageSize < Len(all) THEN from + PageSize ELSE Len(all)))]

\* Which of the targets a bulk action takes; the others are reported.
Eligible(op, e) ==
    CASE op = "retry"        -> status[e] \in {"failed", "downloading"}
      [] op = "process"      -> status[e] = "discovered"
      [] op = "retranscribe" -> status[e] \notin {"downloading", "gone"}
      [] OTHER               -> status[e] # "gone"

Targets(b) == IF b.all THEN Range(Matching(b.key)) ELSE b.ids

\* A delete leaves the episodes whose stored transcript it cannot delete.
Apply(op, S) ==
    \E done \in IF op = "delete" THEN SUBSET S ELSE {S} :
        status' = [e \in Episodes |->
            IF e \in done /\ Eligible(op, e)
            THEN CASE op = "delete" -> "gone" [] OTHER -> "downloading"
            ELSE status[e]]

-----------------------------------------------------------------------------
(* The address bar holds what differs from the defaults.                   *)

\* Mutant of Encode: the page is not kept.
EncodeMutant(f) ==
    (IF f.status # "all" THEN {<<"status", f.status>>} ELSE {})
    \cup (IF f.q # "" THEN {<<"q", f.q>>} ELSE {})

Encode(f) ==
    (IF f.status # "all" THEN {<<"status", f.status>>} ELSE {})
    \cup (IF f.q # "" THEN {<<"q", f.q>>} ELSE {})
    \cup (IF f.page # 1 THEN {<<"ep_page", f.page>>} ELSE {})

Param(u, name, default) ==
    IF \E p \in u : p[1] = name THEN (CHOOSE p \in u : p[1] = name)[2] ELSE default

Decode(u) == [status |-> Param(u, "status", "all"), q |-> Param(u, "q", ""),
              page |-> Param(u, "ep_page", 1)]

-----------------------------------------------------------------------------
Asked == [at |-> "asked"]
Idle == [at |-> "none"]
NoDialog == [op |-> "none"]
Empty == [of |-> Decode({}), rows |-> {}, total |-> 0]

ListInit ==
    /\ status \in [Episodes -> {"failed"}]
    /\ here = FALSE
    /\ filters = Decode({}) /\ url = {} /\ qInput = ""
    /\ list = Empty /\ request = Idle
    /\ selected = {} /\ allMatching = FALSE /\ under = {}
    /\ dialog = NoDialog
    /\ bulk = [op \in BulkOps |-> Idle]

ClearSelection == selected' = {} /\ allMatching' = FALSE /\ under' = {}

\* Mutant of Patch: the effect that clears the selection forgets filters.q.
PatchMutant(f) ==
    /\ filters' = f /\ url' = Encode(f)
    /\ qInput' = IF f.q = filters.q THEN qInput ELSE f.q
    /\ request' = Asked
    /\ IF f.status = filters.status THEN UNCHANGED selectionVars ELSE ClearSelection

\* A change of the filters: the URL follows, the page is asked for again, and
\* all but a change of page clears the selection and resets the search box.
Patch(f) ==
    /\ filters' = f /\ url' = Encode(f)
    /\ qInput' = IF f.q = filters.q THEN qInput ELSE f.q
    /\ request' = Asked
    /\ IF Key(f) = Key(filters) THEN UNCHANGED selectionVars ELSE ClearSelection

\* The section mounts, with the filters a link from another section asks for.
Enter(k) ==
    /\ ~here
    /\ here' = TRUE
    /\ \E f \in {filters, [status |-> k.status, q |-> k.q, page |-> 1]} :
          filters' = f /\ url' = Encode(f) /\ qInput' = f.q
    /\ request' = Asked
    /\ ClearSelection
    /\ UNCHANGED <<status, list, dialog, bulk>>

Leave ==
    /\ here /\ dialog = NoDialog
    /\ here' = FALSE
    /\ request' = Idle
    /\ allMatching' = FALSE /\ qInput' = filters.q
    /\ UNCHANGED <<status, filters, url, list, selected, under, dialog, bulk>>

\* The browser reloads the page: only the URL survives.
Reload ==
    /\ here
    /\ filters' = Decode(url) /\ qInput' = Decode(url).q
    /\ list' = Empty /\ request' = Asked
    /\ ClearSelection
    /\ dialog' = NoDialog /\ bulk' = [op \in BulkOps |-> Idle]
    /\ UNCHANGED <<status, here, url>>

\* The tabs and the selects: every one of them goes back to page 1.
TabsOf(f) == {[f EXCEPT !.status = s, !.page = 1] : s \in StatusTabs}

\* A chip for each filter in force, and `Clear all`.
ChipsOf(f) ==
    {g \in {[f EXCEPT !.status = "all", !.page = 1], [f EXCEPT !.q = "", !.page = 1], Decode({})} :
        Key(g) # Key(f)}

\* A view saved earlier holds the filters, not the page.
ViewsOf(f) == {[status |-> k.status, q |-> k.q, page |-> 1] : k \in Keys}

Filter ==
    /\ here /\ dialog = NoDialog
    /\ \E f \in TabsOf(filters) \cup ChipsOf(filters) \cup ViewsOf(filters) : Patch(f)
    /\ UNCHANGED <<status, here, list, dialog, bulk>>

Type(q) ==
    /\ here /\ dialog = NoDialog
    /\ qInput # q /\ qInput' = q
    /\ UNCHANGED <<status, here, filters, url, list, request, selectionVars, dialog, bulk>>

\* 280 ms after the last key.
Debounce ==
    /\ here /\ qInput # filters.q
    /\ Patch([filters EXCEPT !.q = qInput, !.page = 1])
    /\ UNCHANGED <<status, here, list, dialog, bulk>>

\* Prev and Next, by the total of the page shown.
Turn ==
    /\ here /\ dialog = NoDialog
    /\ \/ filters.page > 1 /\ Patch([filters EXCEPT !.page = @ - 1])
       \/ filters.page < Pages(list.total) /\ Patch([filters EXCEPT !.page = @ + 1])
    /\ UNCHANGED <<status, here, list, dialog, bulk>>

-----------------------------------------------------------------------------
(* The page's requests.                                                    *)

\* A bump, or the console's timer.
Refresh ==
    /\ here
    /\ request' = Asked
    /\ UNCHANGED <<status, here, filterVars, list, selectionVars, dialog, bulk>>

Read ==
    /\ request.at = "asked"
    /\ request' = [at |-> "answered", page |-> Page(filters)]
    /\ UNCHANGED <<status, here, filterVars, list, selectionVars, dialog, bulk>>

\* Mutant of Answer: an empty page is shown.
AnswerMutant ==
    /\ request.at = "answered"
    /\ list' = request.page /\ request' = Idle
    /\ UNCHANGED <<status, here, filterVars, selectionVars, dialog, bulk>>

\* An empty page of a list that is not: go to its last page instead.
Answer ==
    /\ request.at = "answered"
    /\ LET p == request.page IN
       IF p.rows = {} /\ p.total > 0 /\ filters.page > 1
       THEN Patch([filters EXCEPT !.page = Pages(p.total)]) /\ UNCHANGED list
       ELSE list' = p /\ request' = Idle /\ UNCHANGED <<filterVars, selectionVars>>
    /\ UNCHANGED <<status, here, dialog, bulk>>

FailList ==
    /\ request # Idle
    /\ request' = Idle
    /\ UNCHANGED <<status, here, filterVars, list, selectionVars, dialog, bulk>>

-----------------------------------------------------------------------------
(* The selection.                                                          *)

\* Until the page of new filters is there, the rows on the screen are those of the
\* page before, and can be ticked.
Ticked(S) ==
    under' = IF S = {} THEN {} ELSE under \cup {[on |-> Key(list.of), for |-> Key(filters)]}

\* A row's checkbox, or x and space on the keyboard.  While everything that matches is
\* selected, every checkbox is ticked: a click clears, a key leaves the row selected.
Tick(e) ==
    /\ here /\ dialog = NoDialog
    /\ e \in list.rows
    /\ IF allMatching THEN selected' \in {{}, {e}}
       ELSE selected' = IF e \in selected THEN selected \ {e} ELSE selected \cup {e}
    /\ allMatching' = FALSE
    /\ Ticked(selected')
    /\ UNCHANGED <<status, here, filterVars, list, request, dialog, bulk>>

\* The checkbox of the header.
TickPage ==
    /\ here /\ dialog = NoDialog /\ list.rows # {}
    /\ selected' = IF allMatching THEN {}
                   ELSE IF list.rows \subseteq selected
                        THEN selected \ list.rows ELSE selected \cup list.rows
    /\ allMatching' = FALSE
    /\ Ticked(selected')
    /\ UNCHANGED <<status, here, filterVars, list, request, dialog, bulk>>

\* `Select all N matching`, offered once something is ticked.
SelectAllMatching ==
    /\ here /\ dialog = NoDialog
    /\ selected # {} /\ ~allMatching /\ list.total > Cardinality(selected)
    /\ selected' = {} /\ allMatching' = TRUE /\ under' = {}
    /\ UNCHANGED <<status, here, filterVars, list, request, dialog, bulk>>

Deselect ==
    /\ here /\ dialog = NoDialog /\ (selected # {} \/ allMatching)
    /\ ClearSelection
    /\ UNCHANGED <<status, here, filterVars, list, request, dialog, bulk>>

-----------------------------------------------------------------------------
(* Bulk actions.                                                           *)

\* run(`bulk:${op}`): one request at a time; another one is dropped, and its
\* selection is cleared all the same.
Send(b) ==
    IF bulk[b.op].at = "none"
    THEN /\ bulk' = [bulk EXCEPT ![b.op] = [at |-> "sent", body |-> b]]
         /\ UNCHANGED selectionVars
    ELSE UNCHANGED bulk /\ ClearSelection

\* runBulk: delete and blacklist ask first.
RunBulk(op) ==
    /\ here /\ dialog = NoDialog
    /\ selected # {} \/ (allMatching /\ list.total > 0)
    /\ LET b == [op |-> op, ids |-> selected, all |-> allMatching, key |-> Key(filters)]
       IN IF op \in {"delete", "blacklist"}
          THEN dialog' = b /\ UNCHANGED <<bulk, selectionVars>>
          ELSE Send(b) /\ UNCHANGED dialog
    /\ UNCHANGED <<status, here, filterVars, list, request>>

Confirm ==
    /\ dialog # NoDialog
    /\ dialog' = NoDialog
    /\ Send([op |-> dialog.op, ids |-> dialog.ids, all |-> dialog.all, key |-> dialog.key])
    /\ UNCHANGED <<status, here, filterVars, list, request>>

Cancel ==
    /\ dialog # NoDialog
    /\ dialog' = NoDialog
    /\ UNCHANGED <<status, here, filterVars, list, request, selectionVars, bulk>>

\* bulk_episode_action resolves its targets, and acts on those it may.
Execute(op) ==
    /\ bulk[op].at = "sent"
    /\ Apply(op, Targets(bulk[op].body))
    /\ bulk' = [bulk EXCEPT ![op] = [at |-> "done"]]
    /\ UNCHANGED <<here, filterVars, list, request, selectionVars, dialog>>

\* The answer clears the selection and refreshes; so does an error, which may
\* hide an action that was carried out.
BulkAnswer(op) ==
    /\ bulk[op].at \in {"sent", "done"}
    /\ bulk' = [bulk EXCEPT ![op] = Idle]
    /\ ClearSelection
    /\ request' = IF here /\ bulk[op].at = "done" THEN Asked ELSE request
    /\ UNCHANGED <<status, here, filterVars, list, dialog>>

-----------------------------------------------------------------------------
ListRequests == Refresh \/ Read \/ Answer \/ FailList

UserStep ==
    \/ \E k \in Keys : Enter(k)
    \/ Filter \/ Leave \/ Reload \/ Turn
    \/ \E q \in Texts : Type(q)
    \/ \E e \in Episodes : Tick(e)
    \/ TickPage \/ SelectAllMatching \/ Deselect
    \/ \E op \in BulkOps : RunBulk(op)
    \/ Confirm \/ Cancel

SystemStep ==
    \/ Debounce \/ ListRequests
    \/ \E op \in BulkOps : Execute(op) \/ BulkAnswer(op)

ListNext == UserStep \/ SystemStep

ListSpec == ListInit /\ [][ListNext]_listVars

\* The debounce and the console's timer fire; a request that keeps being sent
\* is answered in the end.
ListFairness ==
    /\ WF_listVars(Debounce) /\ WF_listVars(Refresh)
    /\ SF_listVars(Read) /\ SF_listVars(Answer)

FairListSpec == ListSpec /\ ListFairness

-----------------------------------------------------------------------------
(* Properties.                                                             *)

Filters == [status : StatusTabs, q : Texts, page : 1..Len(Order)]
PageShown == [of : Filters, rows : SUBSET Episodes, total : 0..Len(Order)]

\* However the filters change (tab, search box, link from another section, saved
\* view), a bulk action takes in no row picked out of another list, but for rows that
\* were still on the screen and ticked while the page of these filters was awaited.
TickedUnderFilters ==
    here => \A t \in under :
        t.on = Key(filters) \/ (t.on # t.for /\ t.for = Key(filters))

\* A refresh lands on the same slice of the list.
ReloadKeepsSlice == [][Reload => filters' = filters]_listVars

\* Once the administrator stops, the list shows the page its filters and the
\* search box ask for, with the rows it has by then, and never an empty page of
\* a list that has rows.
Settled ==
    /\ qInput = filters.q
    /\ list = Page(filters)
    /\ list.total > 0 => list.rows # {}

ListSettles ==
    (<>[][SystemStep]_listVars /\ <>[]here) => <>[]Settled
=============================================================================
