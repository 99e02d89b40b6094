---------------------------- MODULE AdminViews_proofs ----------------------------
(***************************************************************************)
(* Theorems about the forms of the console, its analytics view, the        *)
(* analytics it shows and the buttons of its records, for any rows, fields,*)
(* values, ranges, browsers and bounds.                                    *)
(***************************************************************************)
EXTENDS RecordActions, ConsoleForms, SourceRebind, AnalyticsPanel, SearchAnalytics, FiniteSetTheorems, TLAPS

\* The first render has the drafts of the row it shows.
LEMMA DraftInit == FormsInit => DraftOfSelected
BY DEF FormsInit, DraftOfSelected

\* A render that shows another row starts the drafts over.
LEMMA RenderOwns ==
    ASSUME NEW sel, NEW renewed, Render(sel, renewed), selected' = sel, DraftOfSelected,
           sel = selected \/ form = "podcast"
    PROVE  DraftOfSelected'
<1>1. CASE Reset(sel, selected, renewed)
  BY <1>1 DEF Render, DraftOfSelected
<1>2. CASE ~Reset(sel, selected, renewed)
  <2>1. owner' = owner
    BY <1>2 DEF Render
  <2>2. CASE sel = selected
    BY <2>1, <2>2 DEF DraftOfSelected
  <2>3. CASE sel # selected
    <3>1. sel = Nobody
      BY <1>2, <2>3 DEF Reset
    <3> QED
      BY <3>1 DEF DraftOfSelected
  <2> QED
    BY <2>2, <2>3
<1> QED
  BY <1>1, <1>2

\* Only a render moves the selection or the drafts' row.
LEMMA DraftStep == DraftOfSelected /\ [FormsNext]_formVars => DraftOfSelected'
<1> SUFFICES ASSUME DraftOfSelected, [FormsNext]_formVars PROVE DraftOfSelected'
  OBVIOUS
<1>1. ASSUME NEW r \in Rows, NEW f \in Fields, NEW v \in Values, Elsewhere(r, f, v)
      PROVE  DraftOfSelected'
  BY <1>1 DEF Elsewhere, DraftOfSelected
<1>2. CASE Refetch
  BY <1>2, RenderOwns DEF Refetch
<1>3. ASSUME NEW r \in Rows \cup {Nobody}, Select(r) PROVE DraftOfSelected'
  BY <1>3, RenderOwns DEF Select
<1>4. ASSUME NEW f \in Fields, NEW v \in Values, TypeIn(f, v) PROVE DraftOfSelected'
  BY <1>4 DEF TypeIn, DraftOfSelected
<1>5. ASSUME NEW f \in Fields, Discard(f) PROVE DraftOfSelected'
  BY <1>5 DEF Discard, DraftOfSelected
<1>6. ASSUME NEW f \in Fields, Save(f) PROVE DraftOfSelected'
  BY <1>6 DEF Save, DraftOfSelected
<1>7. ASSUME NEW c \in saves, Land(c) PROVE DraftOfSelected'
  BY <1>7 DEF Land, DraftOfSelected
<1>8. ASSUME NEW c \in saves, Answered(c) PROVE DraftOfSelected'
  BY <1>8 DEF Answered, DraftOfSelected
<1>9. CASE UNCHANGED formVars
  BY <1>9 DEF formVars, DraftOfSelected
<1> QED
  BY <1>1, <1>2, <1>3, <1>4, <1>5, <1>6, <1>7, <1>8, <1>9 DEF FormsNext

\* Whatever is selected, deleted, renewed or saved, the drafts of a form come from
\* the row it shows (PodcastsView.tsx, SettingsView.tsx, ContentView.tsx).
THEOREM DraftStaysWithRow == FormsSpec => []DraftOfSelected
BY DraftInit, DraftStep, PTL DEF FormsSpec

-----------------------------------------------------------------------------
(* The analytics view.                                                     *)

\* The slots are typed, and unless the requests crossed there is at most one
\* under way, for the tab chosen, with no error shown.
PanelInv ==
    /\ days \in Spans
    /\ loads \in [LoadSlots -> Spans \cup {NoSpan}]
    /\ ~crossed =>
         /\ \A s, t \in Asked : s = t
         /\ \A s \in Asked : loads[s] = days /\ ~panelError
    /\ FiguresOfTab

\* A request takes a free slot, and is the only one if none was under way.
LEMMA OneRequest ==
    ASSUME loads \in [LoadSlots -> Spans \cup {NoSpan}], NEW d \in Spans, Request(d)
    PROVE  /\ loads' \in [LoadSlots -> Spans \cup {NoSpan}]
           /\ ~panelError' /\ FirstFree \in LoadSlots
           /\ Asked' = Asked \cup {FirstFree} /\ loads'[FirstFree] = d
<1>1. \E s \in LoadSlots : loads[s] = NoSpan
  BY DEF Request, Asked
<1>2. FirstFree \in LoadSlots
  BY <1>1 DEF FirstFree
<1>3. loads' = [loads EXCEPT ![FirstFree] = d] /\ ~panelError'
  BY DEF Request
<1>4. loads' \in [LoadSlots -> Spans \cup {NoSpan}] /\ loads'[FirstFree] = d
  BY <1>2, <1>3
<1>5. \A s \in LoadSlots : s # FirstFree => loads'[s] = loads[s]
  BY <1>3
<1>6. d # NoSpan
  BY PanelAssumption
<1>7. Asked' = Asked \cup {FirstFree}
  BY <1>2, <1>4, <1>5, <1>6 DEF Asked
<1> QED
  BY <1>2, <1>3, <1>4, <1>7

\* The mount asks for the first range, in the first slot.
LEMMA FirstRequest ==
    ASSUME NEW l, l = [s \in LoadSlots |-> IF s = 1 THEN FirstSpan ELSE NoSpan]
    PROVE  /\ l \in [LoadSlots -> Spans \cup {NoSpan}] /\ 1 \in LoadSlots
           /\ \A s \in LoadSlots : l[s] # NoSpan <=> s = 1
           /\ l[1] = FirstSpan
BY PanelAssumption DEF LoadSlots

LEMMA PanelInvInit == PanelInit => PanelInv
<1> SUFFICES ASSUME PanelInit PROVE PanelInv
  OBVIOUS
<1>1. /\ loads \in [LoadSlots -> Spans \cup {NoSpan}] /\ 1 \in LoadSlots
      /\ \A s \in LoadSlots : loads[s] # NoSpan <=> s = 1
      /\ loads[1] = FirstSpan
  BY FirstRequest DEF PanelInit
<1>2. Asked = {1}
  BY <1>1 DEF Asked
<1> QED
  BY <1>1, <1>2, PanelAssumption DEF PanelInit, PanelInv, FiguresOfTab

LEMMA PanelInvStep == PanelInv /\ [PanelNext]_panelVars => PanelInv'
<1> SUFFICES ASSUME PanelInv, [PanelNext]_panelVars PROVE PanelInv'
  OBVIOUS
<1>0. days \in Spans /\ loads \in [LoadSlots -> Spans \cup {NoSpan}]
  BY DEF PanelInv
<1>1. ASSUME NEW d \in Spans, ChooseSpan(d) PROVE PanelInv'
  <2>1. Request(d) /\ days' = d /\ crossed' = (Asked # {})
    BY <1>1 DEF ChooseSpan
  <2>2. /\ loads' \in [LoadSlots -> Spans \cup {NoSpan}]
        /\ ~panelError' /\ Asked' = Asked \cup {FirstFree} /\ loads'[FirstFree] = d
    BY <1>0, <2>1, OneRequest
  <2> QED
    BY <2>1, <2>2 DEF PanelInv, FiguresOfTab
<1>2. CASE Reask
  <2>1. Request(days) /\ days' = days /\ crossed' = (Asked # {})
    BY <1>2 DEF Reask
  <2>2. /\ loads' \in [LoadSlots -> Spans \cup {NoSpan}]
        /\ ~panelError' /\ Asked' = Asked \cup {FirstFree} /\ loads'[FirstFree] = days
    BY <1>0, <2>1, OneRequest
  <2> QED
    BY <1>0, <2>1, <2>2 DEF PanelInv, FiguresOfTab
<1>3. ASSUME NEW s \in LoadSlots, Loaded(s) PROVE PanelInv'
  <2>1. /\ s \in Asked /\ dataOf' = loads[s] /\ loads' = [loads EXCEPT ![s] = NoSpan]
        /\ days' = days /\ panelError' = panelError /\ crossed' = crossed
    BY <1>3 DEF Loaded
  <2>2. Asked' = Asked \ {s} /\ \A t \in Asked' : loads'[t] = loads[t]
    BY <1>0, <2>1 DEF Asked
  <2>3. loads' \in [LoadSlots -> Spans \cup {NoSpan}]
    BY <1>0, <2>1
  <2> QED
    BY <1>0, <2>1, <2>2, <2>3 DEF PanelInv, FiguresOfTab
<1>4. ASSUME NEW s \in LoadSlots, LoadFailed(s) PROVE PanelInv'
  <2>1. /\ s \in Asked /\ panelError' = TRUE /\ loads' = [loads EXCEPT ![s] = NoSpan]
        /\ days' = days /\ crossed' = crossed
    BY <1>4 DEF LoadFailed
  <2>2. Asked' = Asked \ {s} /\ \A t \in Asked' : loads'[t] = loads[t]
    BY <1>0, <2>1 DEF Asked
  <2>3. loads' \in [LoadSlots -> Spans \cup {NoSpan}]
    BY <1>0, <2>1
  <2>4. ~crossed => Asked' = {}
    BY <2>1, <2>2 DEF PanelInv
  <2> QED
    BY <1>0, <2>1, <2>2, <2>3, <2>4 DEF PanelInv, FiguresOfTab
<1>5. CASE Remount
  <2>1. /\ loads' \in [LoadSlots -> Spans \cup {NoSpan}] /\ 1 \in LoadSlots
        /\ \A s \in LoadSlots : loads'[s] # NoSpan <=> s = 1
        /\ loads'[1] = FirstSpan
    BY <1>5, FirstRequest DEF Remount
  <2>2. Asked' = {1}
    BY <2>1 DEF Asked
  <2>3. days' = FirstSpan /\ panelError' = FALSE /\ crossed' = FALSE
    BY <1>5 DEF Remount
  <2> QED
    BY <2>1, <2>2, <2>3, PanelAssumption DEF PanelInv, FiguresOfTab
<1>6. CASE UNCHANGED panelVars
  BY <1>6 DEF panelVars, PanelInv, FiguresOfTab, Asked
<1> QED
  BY <1>1, <1>2, <1>3, <1>4, <1>5, <1>6 DEF PanelNext

\* For any ranges and any number of requests under way, the figures of the
\* analytics view are those of its tab unless its requests crossed or failed
\* (AnalyticsView.tsx, load).
THEOREM FiguresStayOfTab == PanelSpec => []FiguresOfTab
<1>1. PanelInv => FiguresOfTab
  BY DEF PanelInv
<1> QED
  BY <1>1, PanelInvInit, PanelInvStep, PTL DEF PanelSpec

-----------------------------------------------------------------------------
(* Acting on a record.                                                       *)

RecordKinds == {"episode", "job", "preview", "audit"}

\* A record keeps its kind; what was asked for was offered for the status shown,
\* which is one of that kind.
OfferedAsShown ==
    /\ record = [kind |-> record.kind, st |-> record.st, obstacles |-> record.obstacles]
    /\ record.kind \in RecordKinds
    /\ record.st \in StatusesOf(record.kind) /\ view.st \in StatusesOf(record.kind)
    /\ sent # NotSent => /\ sent.st \in StatusesOf(record.kind)
                         /\ sent.op \in Offers(record.kind, sent.st, sent.bl)

\* What a view offers for a status is what the conductor takes in that status.
LEMMA OfferedIsAccepted ==
    ASSUME NEW k \in RecordKinds, NEW s \in StatusesOf(k), NEW bl, NEW op \in Offers(k, s, bl)
    PROVE  Accepts(k, op, s)
<1>1. CASE k = "episode"
  <2>1. /\ s \in EpisodeStatuses /\ s # "gone"
        /\ op \in RowOffers(s, bl) \cup DrawerOffers(s, bl) \cup AttentionOffers(s)
    BY <1>1 DEF StatusesOf, Offers
  <2>2. AcceptsEpisode(op, s)
    BY <2>1 DEF EpisodeStatuses, RowOffers, DrawerOffers, AttentionOffers, ByStatus, Toggle,
                AcceptsEpisode
  <2> QED
    BY <1>1, <2>2 DEF Accepts
<1>2. CASE k = "job"
  <2>1. s \in JobStatuses /\ op \in JobRowOffers(s) \cup JobDrawerOffers(s) \cup OverviewOffers(s)
    BY <1>2 DEF StatusesOf, Offers
  <2>2. AcceptsJob(op, s)
    BY <2>1 DEF JobStatuses, JobRowOffers, JobDrawerOffers, OverviewOffers, AcceptsJob
  <2> QED
    BY <1>2, <2>2 DEF Accepts
<1>3. CASE k = "preview"
  BY <1>3 DEF Offers, PreviewOffers, Accepts
<1>4. CASE k = "audit"
  BY <1>4 DEF Offers, AuditOffers, Accepts
<1> QED
  BY <1>1, <1>2, <1>3, <1>4 DEF RecordKinds

LEMMA StatusStaysOfKind ==
    ASSUME NEW k \in RecordKinds, NEW s \in StatusesOf(k)
    PROVE  /\ Moves(k, s) \subseteq StatusesOf(k)
           /\ \A shownAs, bl : \A op \in Offers(k, s, shownAs) :
                 \A t \in StatusesOf(k) : After(k, op, t, bl) \in StatusesOf(k)
<1>1. Moves(k, s) \subseteq StatusesOf(k)
  BY DEF RecordKinds, StatusesOf, Moves, EpisodeMoves, JobMoves,
         EpisodeStatuses, PreviewStatuses, JobStatuses, AuditStatuses
<1>2. ASSUME NEW shownAs, NEW bl, NEW op \in Offers(k, s, shownAs), NEW t \in StatusesOf(k)
      PROVE  After(k, op, t, bl) \in StatusesOf(k)
  <2>1. CASE k = "episode"
    <3>1. op \in {"process", "retry", "retranscribe", "blacklist", "unblacklist", "delete",
                  "update", "merge"}
      BY <1>2, <2>1 DEF Offers, RowOffers, DrawerOffers, AttentionOffers, ByStatus, Toggle
    <3> QED
      BY <1>2, <2>1, <3>1 DEF After, StatusesOf, EpisodeStatuses
  <2>2. CASE k = "job"
    <3>1. op \in {"cancel", "prioritize", "retry"}
      BY <1>2, <2>2 DEF Offers, JobRowOffers, JobDrawerOffers, OverviewOffers
    <3> QED
      BY <1>2, <2>2, <3>1 DEF After, StatusesOf, JobStatuses
  <2>3. CASE k = "preview"
    <3>1. op = "apply"
      BY <1>2, <2>3 DEF Offers, PreviewOffers
    <3> QED
      BY <2>3, <3>1 DEF After, StatusesOf, PreviewStatuses
  <2>4. CASE k = "audit"
    <3>1. op = "undo"
      BY <1>2, <2>4 DEF Offers, AuditOffers
    <3> QED
      BY <2>4, <3>1 DEF After, StatusesOf, AuditStatuses
  <2> QED
    BY <2>1, <2>2, <2>3, <2>4 DEF RecordKinds
<1> QED
  BY <1>1, <1>2

LEMMA OfferedInit == ActionInit => OfferedAsShown
BY DEF ActionInit, OfferedAsShown, RecordKinds, NotSent, View

LEMMA OfferedStep == OfferedAsShown /\ [ActionNext]_actionVars => OfferedAsShown'
<1> SUFFICES ASSUME OfferedAsShown, [ActionNext]_actionVars PROVE OfferedAsShown'
  OBVIOUS
<1>a. ASSUME record'.kind = record.kind,
             record' = [kind |-> record'.kind, st |-> record'.st, obstacles |-> record'.obstacles],
             record'.st \in StatusesOf(record.kind), view'.st \in StatusesOf(record.kind),
             sent' = sent \/ sent' = NotSent
      PROVE  OfferedAsShown'
  BY <1>a DEF OfferedAsShown, NotSent
<1>1. CASE Move
  <2>1. PICK s \in Moves(record.kind, record.st) : record' = [record EXCEPT !.st = s]
    BY <1>1 DEF Move
  <2>2. s \in StatusesOf(record.kind)
    BY <2>1, StatusStaysOfKind DEF OfferedAsShown
  <2>3. record' = [kind |-> record.kind, st |-> s, obstacles |-> record.obstacles]
    BY <2>1 DEF OfferedAsShown
  <2> QED
    BY <1>1, <1>a, <2>2, <2>3 DEF Move, OfferedAsShown
<1>2. CASE Hold
  <2>1. PICK O : record' = [record EXCEPT !.obstacles = O]
    BY <1>2 DEF Hold
  <2>2. record' = [kind |-> record.kind, st |-> record.st, obstacles |-> O]
    BY <2>1 DEF OfferedAsShown
  <2> QED
    BY <1>2, <1>a, <2>2 DEF Hold, OfferedAsShown
<1>3. CASE Show
  <2>1. view'.st = record.st
    BY <1>3 DEF Show, View
  <2> QED
    BY <1>3, <1>a, <2>1 DEF Show, OfferedAsShown
<1>4. ASSUME NEW op \in Offers(record.kind, view.st, view.bl), Act(op) PROVE OfferedAsShown'
  <2>1. /\ sent'.op = op /\ sent'.st = view.st /\ sent'.bl = view.bl
        /\ record' = record /\ view' = view
    BY <1>4 DEF Act
  <2> QED
    BY <1>4, <2>1 DEF OfferedAsShown
<1>5. CASE Arrive
  <2>1. sent # NotSent /\ sent' = NotSent /\ view' = view
    BY <1>5 DEF Arrive
  <2>2. CASE record' = record
    BY <1>a, <2>1, <2>2 DEF OfferedAsShown
  <2>3. CASE Accepts(record.kind, sent.op, record.st) /\ InTheWay = {}
    <3> DEFINE s == After(record.kind, sent.op, record.st, "blacklisted" \in record.obstacles)
    <3>1. s \in StatusesOf(record.kind)
      BY <2>1, StatusStaysOfKind DEF OfferedAsShown
    <3>2. PICK O : record' = [kind |-> record.kind, obstacles |-> O, st |-> s]
      BY <1>5, <2>3 DEF Arrive
    <3>3. /\ record'.st = s /\ record'.kind = record.kind
          /\ record' = [kind |-> record'.kind, st |-> record'.st, obstacles |-> record'.obstacles]
      BY <3>2
    <3> QED
      BY <1>a, <2>1, <3>1, <3>3 DEF OfferedAsShown
  <2> QED
    BY <1>5, <2>2, <2>3 DEF Arrive
<1>6. CASE UNCHANGED actionVars
  BY <1>6 DEF actionVars, OfferedAsShown, NotSent
<1> QED
  BY <1>1, <1>2, <1>3, <1>4, <1>5, <1>6 DEF ActionNext

\* Whatever the pipeline and other consoles do meanwhile, what a view offers for a
\* status is taken in that status: a refusal means that the status has changed since it
\* was shown, or that one of the obstacles of the operation, which no view looks at
\* before it offers the button, is in the way (main.py:1679-1876, 1982-2008).
THEOREM RefusalsMeanStale == ActionSpec => RefusedOnlyIfStale
<1>1. ASSUME OfferedAsShown, [ActionNext]_actionVars
      PROVE  [verdict' = "refused" /\ sent # sent' /\ sent # NotSent =>
                  sent.st # record.st \/ InTheWay # {}]_actionVars
  <2> SUFFICES ASSUME ActionNext, verdict' = "refused", sent # sent', sent # NotSent,
                      sent.st = record.st
               PROVE  InTheWay # {}
    BY <1>1
  <2>1. Arrive
    BY DEF ActionNext, Move, Hold, Show, Act
  <2>2. ~(Accepts(record.kind, sent.op, record.st) /\ InTheWay = {})
    BY <2>1 DEF Arrive
  <2>3. Accepts(record.kind, sent.op, record.st)
    BY <1>1, OfferedIsAccepted DEF OfferedAsShown
  <2> QED
    BY <2>2, <2>3
<1> QED
  BY <1>1, OfferedInit, OfferedStep, PTL DEF ActionSpec, RefusedOnlyIfStale

-----------------------------------------------------------------------------
(* The searchers of a day.                                                 *)

Writes == [kind : Kinds, day : Days, unique : 0..Cardinality(Browsers)]
Searchers(d) == Cardinality(searchers[d])

CountTypes ==
    /\ today \in Days /\ saltDay \in Days /\ saltDay <= today
    /\ visitors \in SUBSET Browsers
    /\ writing \in [Browsers -> Writes \cup {NoWrite}]
    /\ rows \in [Days -> [searches : Nat, unique : Nat, opens : Nat]]
    /\ searchers \in [Days -> SUBSET Browsers]

\* The write under way for a browser holds the searchers of day d as they are now.
Owed(b, d) ==
    writing[b] # NoWrite /\ writing[b].kind = "search" /\ writing[b].day = d
    /\ writing[b].unique = Searchers(d)

\* The memory holds searchers of its day, all of them if the day is undisturbed;
\* what is stored or on its way is never too much; and on an undisturbed day the
\* whole count is stored or on its way.
CountInv ==
    /\ CountTypes
    /\ \A d \in Days : d > today => searchers[d] = {}
    /\ visitors \subseteq searchers[saltDay]
    /\ saltDay \notin disturbed => visitors = searchers[saltDay]
    /\ \A d \in Days : d \notin disturbed /\ saltDay < d => searchers[d] = {}
    /\ \A d \in Days : rows[d].unique <= Searchers(d)
    /\ \A b \in Browsers, d \in Days :
          writing[b] # NoWrite /\ writing[b].day = d => writing[b].unique <= Searchers(d)
    /\ \A d \in Days \ disturbed : rows[d].unique = Searchers(d) \/ \E b \in Browsers : Owed(b, d)

\* The searchers of a day are finitely many, and at most the browsers.
LEMMA SearchersFinite ==
    ASSUME NEW S \in SUBSET Browsers
    PROVE  IsFiniteSet(S) /\ Cardinality(S) \in 0..Cardinality(Browsers)
BY FS_Subset, FS_CardinalityType, AnalyticsAssumption

\* Neither the values nor the bounds of the invariant are touched by a step that
\* leaves the count alone.
LEMMA CountLeftAlone ==
    ASSUME CountInv, UNCHANGED <<today, saltDay, visitors, writing, rows, searchers, disturbed>>
    PROVE  CountInv'
BY DEF CountInv, CountTypes, Owed, Searchers

LEMMA CountInit == AnalyticsInit => CountInv
<1> SUFFICES ASSUME AnalyticsInit PROVE CountInv
  OBVIOUS
<1>1. Cardinality({}) = 0
  BY FS_EmptySet
<1> QED
  BY <1>1, AnalyticsAssumption
  DEF AnalyticsInit, CountInv, CountTypes, Searchers, Days, Kinds, NoRow

\* A commit stores at most the searchers of its day, and all of them if it held
\* them all or they were stored already.
LEMMA UpsertCounts ==
    ASSUME NEW row \in [searches : Nat, unique : Nat, opens : Nat], NEW w \in Writes
    PROVE  /\ Upsert(row, w) \in [searches : Nat, unique : Nat, opens : Nat]
           /\ Upsert(row, w).unique \in {row.unique, w.unique}
           /\ Upsert(row, w).unique >= row.unique
           /\ w.kind = "search" => Upsert(row, w).unique >= w.unique
<1>0. w.unique \in Nat /\ w.kind \in Kinds
  BY FS_CardinalityType, AnalyticsAssumption DEF Writes
<1>1. CASE w.kind = "open"
  BY <1>0, <1>1 DEF Upsert
<1>2. CASE w.kind # "open"
  <2>1. row.searches + 1 \in Nat /\ row.unique \in Nat
    OBVIOUS
  <2>2. Upsert(row, w) = [searches |-> row.searches + 1, opens |-> row.opens,
                          unique |-> IF row.unique < w.unique THEN w.unique ELSE row.unique]
    BY <1>2 DEF Upsert
  <2> QED
    BY <1>0, <2>1, <2>2
<1> QED
  BY <1>1, <1>2

\* A search adds its browser to the memory and to the history alike.
LEMMA SearchCounts == ASSUME CountInv, NEW b \in Browsers, Search(b) PROVE CountInv'
<1> DEFINE w == [kind |-> "search", day |-> today, unique |-> Cardinality(Noted(b))]
<1>1. /\ saltDay' = today /\ visitors' = Noted(b) /\ UNCHANGED <<today, rows, disturbed>>
      /\ writing' = [writing EXCEPT ![b] = w] /\ writing[b] = NoWrite
      /\ searchers' = [searchers EXCEPT ![today] = @ \cup {b}]
  BY DEF Search, Received
<1>2. CountTypes
  BY DEF CountInv
<1>3. Noted(b) \in SUBSET Browsers /\ Noted(b) \subseteq searchers[today] \cup {b}
  BY <1>2 DEF CountInv, CountTypes, Noted
<1>4. today \notin disturbed => Noted(b) = searchers[today] \cup {b}
  BY <1>2 DEF CountInv, CountTypes, Noted, Days
<1>5. w \in Writes
  BY <1>2, <1>3, SearchersFinite DEF Writes, Kinds, CountTypes
<1>6. w # NoWrite
  BY <1>2, <1>3, SearchersFinite, AnalyticsAssumption DEF CountTypes, Days
<1>7. CountTypes'
  BY <1>1, <1>2, <1>3, <1>5 DEF CountTypes, Days
<1>8. /\ searchers'[today] = searchers[today] \cup {b}
      /\ \A d \in Days : d # today => searchers'[d] = searchers[d]
      /\ writing'[b] = w /\ \A c \in Browsers : c # b => writing'[c] = writing[c]
  BY <1>1, <1>2 DEF CountTypes
<1>9. \A d \in Days : Searchers(d) \in Nat /\ Searchers(d)' \in Nat /\ Searchers(d) <= Searchers(d)'
  <2>1. ASSUME NEW d \in Days PROVE searchers[d] \in SUBSET Browsers /\ searchers'[d] \in SUBSET Browsers
    BY <1>2, <1>7 DEF CountTypes
  <2>2. ASSUME NEW d \in Days PROVE searchers[d] \subseteq searchers'[d]
    BY <1>8
  <2>3. Cardinality(Browsers) \in Nat
    BY FS_CardinalityType, AnalyticsAssumption
  <2> QED
    BY <2>1, <2>2, <2>3, SearchersFinite, FS_Subset DEF Searchers
<1>10. w.unique <= Searchers(today)' /\ (today \notin disturbed => w.unique = Searchers(today)')
  <2>1. searchers'[today] \in SUBSET Browsers
    BY <1>2, <1>7 DEF CountTypes
  <2>2. IsFiniteSet(searchers'[today]) /\ Noted(b) \in SUBSET searchers'[today]
    BY <2>1, <1>3, <1>8, SearchersFinite
  <2>3. Cardinality(Noted(b)) <= Cardinality(searchers'[today])
    BY <2>2, FS_Subset
  <2>4. Searchers(today)' = Cardinality(searchers'[today])
    BY <1>1 DEF Searchers
  <2> QED
    BY <2>3, <2>4, <1>4, <1>8
<1>11. ASSUME NEW d \in Days, d > today' PROVE searchers'[d] = {}
  BY <1>1, <1>2, <1>8, <1>11 DEF CountInv, CountTypes, Days
<1>12. visitors' \subseteq searchers'[saltDay']
  BY <1>1, <1>3, <1>8
<1>13. saltDay' \notin disturbed' => visitors' = searchers'[saltDay']
  BY <1>1, <1>4, <1>8
<1>14. ASSUME NEW d \in Days, saltDay' < d PROVE searchers'[d] = {}
  BY <1>1, <1>11, <1>14, <1>2 DEF CountTypes, Days
<1>15. ASSUME NEW d \in Days PROVE rows'[d].unique <= Searchers(d)'
  <2>1. rows[d].unique <= Searchers(d) /\ rows[d].unique \in Nat
    BY <1>2 DEF CountInv, CountTypes
  <2> QED
    BY <2>1, <1>1, <1>9
<1>16. ASSUME NEW c \in Browsers, NEW d \in Days, writing'[c] # NoWrite, writing'[c].day = d
       PROVE  writing'[c].unique <= Searchers(d)'
  <2>1. CASE c = b
    BY <2>1, <1>1, <1>8, <1>10, <1>16 DEF Searchers
  <2>2. CASE c # b
    <3>1. writing[c] \in Writes /\ writing[c].unique <= Searchers(d)
      BY <2>2, <1>16, <1>8, <1>2 DEF CountInv, CountTypes
    <3>2. writing[c].unique \in Nat
      BY <3>1, FS_CardinalityType, AnalyticsAssumption DEF Writes
    <3> QED
      BY <2>2, <3>1, <3>2, <1>8, <1>9
  <2> QED
    BY <2>1, <2>2
<1>17. ASSUME NEW d \in Days \ disturbed'
       PROVE  rows'[d].unique = Searchers(d)' \/ \E c \in Browsers : Owed(c, d)'
  <2>1. CASE d = today
    <3>1. Owed(b, d)'
      BY <2>1, <1>1, <1>6, <1>8, <1>10, <1>17 DEF Owed
    <3> QED
      BY <3>1
  <2>2. CASE d # today
    <3>1. Searchers(d)' = Searchers(d)
      BY <2>2, <1>8 DEF Searchers
    <3>2. rows[d].unique = Searchers(d) \/ \E c \in Browsers : Owed(c, d)
      BY <1>1, <1>17 DEF CountInv
    <3>3. ASSUME NEW c \in Browsers, Owed(c, d) PROVE Owed(c, d)'
      <4>1. c # b
        BY <1>1, <3>3 DEF Owed
      <4> QED
        BY <4>1, <1>8, <3>1, <3>3 DEF Owed
    <3> QED
      BY <1>1, <3>1, <3>2, <3>3
  <2> QED
    BY <2>1, <2>2
<1> QED
  BY <1>7, <1>11, <1>12, <1>13, <1>14, <1>15, <1>16, <1>17 DEF CountInv

\* A commit moves a count on its way into the table, never below what is there.
LEMMA CommitCounts == ASSUME CountInv, NEW b \in Browsers, Commit(b) PROVE CountInv'
<1> DEFINE w == writing[b]
<1>0. CountTypes
  BY DEF CountInv
<1>1. /\ w # NoWrite /\ UNCHANGED <<today, saltDay, visitors, searchers, disturbed>>
      /\ rows' = [rows EXCEPT ![w.day] = Upsert(@, w)]
      /\ writing' = [writing EXCEPT ![b] = NoWrite]
  BY DEF Commit
<1>2. w \in Writes /\ w.day \in Days
  BY <1>0, <1>1 DEF CountTypes, Writes
<1>3. /\ rows'[w.day] = Upsert(rows[w.day], w)
      /\ \A d \in Days : d # w.day => rows'[d] = rows[d]
      /\ rows[w.day] \in [searches : Nat, unique : Nat, opens : Nat]
      /\ writing'[b] = NoWrite /\ \A c \in Browsers : c # b => writing'[c] = writing[c]
  BY <1>0, <1>1, <1>2 DEF CountTypes
<1>4. /\ rows'[w.day] \in [searches : Nat, unique : Nat, opens : Nat]
      /\ rows'[w.day].unique \in {rows[w.day].unique, w.unique}
      /\ rows'[w.day].unique >= rows[w.day].unique
      /\ w.kind = "search" => rows'[w.day].unique >= w.unique
  BY <1>2, <1>3, UpsertCounts
<1> HIDE DEF w
<1>5. CountTypes'
  BY <1>0, <1>1, <1>2, <1>3, <1>4 DEF CountTypes
<1>6. /\ rows[w.day].unique <= Searchers(w.day) /\ w.unique <= Searchers(w.day)
      /\ rows[w.day].unique \in Nat /\ w.unique \in Nat /\ Searchers(w.day) \in Nat
  <2>1. searchers[w.day] \in SUBSET Browsers
    BY <1>0, <1>2 DEF CountTypes
  <2>2. w.unique <= Searchers(w.day)
    BY <1>1, <1>2 DEF CountInv, w
  <2> QED
    BY <2>1, <2>2, <1>2, <1>3, SearchersFinite, FS_CardinalityType, AnalyticsAssumption
    DEF CountInv, Writes, Searchers
<1>7. rows'[w.day].unique <= Searchers(w.day)
  BY <1>4, <1>6
<1>8. \A d \in Days : Searchers(d)' = Searchers(d)
  BY <1>1 DEF Searchers
<1>9. \A d \in Days : rows'[d].unique <= Searchers(d)'
  BY <1>3, <1>7, <1>8 DEF CountInv
<1>10. ASSUME NEW c \in Browsers, NEW d \in Days, writing'[c] # NoWrite, writing'[c].day = d
       PROVE  writing'[c].unique <= Searchers(d)'
  <2>1. c # b /\ writing'[c] = writing[c]
    BY <1>3, <1>10
  <2> QED
    BY <2>1, <1>8, <1>10 DEF CountInv
<1>11. ASSUME NEW d \in Days \ disturbed'
       PROVE  rows'[d].unique = Searchers(d)' \/ \E c \in Browsers : Owed(c, d)'
  <2>1. rows[d].unique = Searchers(d) \/ \E c \in Browsers : Owed(c, d)
    BY <1>1, <1>11 DEF CountInv
  <2>2. CASE rows[d].unique = Searchers(d)
    BY <2>2, <1>2, <1>3, <1>4, <1>6, <1>7, <1>8
  <2>3. ASSUME NEW c \in Browsers, c # b, Owed(c, d) PROVE Owed(c, d)'
    BY <2>3, <1>3, <1>8 DEF Owed
  <2>4. CASE Owed(b, d)
    <3>1. d = w.day /\ w.kind = "search" /\ w.unique = Searchers(d)
      BY <2>4 DEF Owed, w
    <3> QED
      BY <3>1, <1>4, <1>6, <1>7, <1>8
  <2> QED
    BY <2>1, <2>2, <2>3, <2>4
<1> QED
  BY <1>1, <1>5, <1>9, <1>10, <1>11 DEF CountInv

\* The other steps of a browser's requests.
LEMMA OpenCounts == ASSUME CountInv, NEW b \in Browsers, OpenResult(b) PROVE CountInv'
<1> DEFINE w == [kind |-> "open", day |-> today, unique |-> 0]
<1>0. CountTypes
  BY DEF CountInv
<1>1. /\ UNCHANGED <<today, saltDay, visitors, rows, searchers, disturbed>>
      /\ writing' = [writing EXCEPT ![b] = w] /\ writing[b] = NoWrite
  BY DEF OpenResult, Received
<1>2. w \in Writes
  BY <1>0, SearchersFinite, FS_EmptySet, FS_CardinalityType, AnalyticsAssumption
  DEF CountTypes, Writes, Kinds
<1>3. writing'[b] = w /\ \A c \in Browsers : c # b => writing'[c] = writing[c]
  BY <1>0, <1>1 DEF CountTypes
<1>4. \A d \in Days : Searchers(d)' = Searchers(d) /\ Searchers(d) \in Nat
  BY <1>0, <1>1, SearchersFinite, FS_CardinalityType, AnalyticsAssumption
  DEF Searchers, CountTypes
<1>5. CountTypes'
  BY <1>0, <1>1, <1>2 DEF CountTypes
<1>6. ASSUME NEW c \in Browsers, NEW d \in Days, writing'[c] # NoWrite, writing'[c].day = d
      PROVE  writing'[c].unique <= Searchers(d)'
  <2>1. CASE c = b
    BY <2>1, <1>3, <1>4
  <2>2. CASE c # b
    BY <2>2, <1>3, <1>4, <1>6 DEF CountInv
  <2> QED
    BY <2>1, <2>2
<1>7. ASSUME NEW d \in Days, NEW c \in Browsers, Owed(c, d) PROVE Owed(c, d)'
  BY <1>1, <1>3, <1>4, <1>7 DEF Owed
<1> QED
  BY <1>1, <1>4, <1>5, <1>6, <1>7 DEF CountInv

LEMMA AbortCounts == ASSUME CountInv, NEW b \in Browsers, Abort(b) PROVE CountInv'
<1>0. CountTypes
  BY DEF CountInv
<1>1. /\ UNCHANGED <<today, saltDay, visitors, rows, searchers>>
      /\ disturbed' = disturbed \cup {writing[b].day}
      /\ writing' = [writing EXCEPT ![b] = NoWrite] /\ writing[b] # NoWrite
  BY DEF Abort
<1>3. writing'[b] = NoWrite /\ \A c \in Browsers : c # b => writing'[c] = writing[c]
  BY <1>0, <1>1 DEF CountTypes
<1>4. \A d \in Days : Searchers(d)' = Searchers(d)
  BY <1>1 DEF Searchers
<1>5. CountTypes'
  BY <1>0, <1>1 DEF CountTypes
<1>6. ASSUME NEW c \in Browsers, NEW d \in Days, writing'[c] # NoWrite, writing'[c].day = d
      PROVE  writing'[c].unique <= Searchers(d)'
  BY <1>3, <1>4, <1>6 DEF CountInv
<1>7. ASSUME NEW d \in Days \ disturbed', NEW c \in Browsers, Owed(c, d) PROVE Owed(c, d)'
  BY <1>1, <1>3, <1>4, <1>7 DEF Owed
<1> QED
  BY <1>1, <1>4, <1>5, <1>6, <1>7 DEF CountInv

\* Midnight, a restart and the deletions.
LEMMA MidnightCounts == ASSUME CountInv, Midnight PROVE CountInv'
<1>0. CountTypes
  BY DEF CountInv
<1>1. /\ UNCHANGED <<saltDay, visitors, writing, rows, searchers, disturbed>>
      /\ today' = today + 1 /\ today < LastDay
  BY DEF Midnight
<1>2. CountTypes'
  BY <1>0, <1>1, AnalyticsAssumption DEF CountTypes, Days
<1>3. \A d \in Days : d > today' => d > today
  BY <1>0, <1>1 DEF CountTypes, Days
<1>4. \A d \in Days : Searchers(d)' = Searchers(d) /\ \A b \in Browsers : Owed(b, d)' = Owed(b, d)
  BY <1>1 DEF Searchers, Owed
<1> QED
  BY <1>1, <1>2, <1>3, <1>4 DEF CountInv

LEMMA RestartCounts == ASSUME CountInv, RestartConductor PROVE CountInv'
<1> DEFINE lost == {writing[b].day : b \in {c \in Browsers : writing[c] # NoWrite}}
<1>0. CountTypes
  BY DEF CountInv
<1>1. /\ UNCHANGED <<today, rows, searchers>> /\ saltDay' = today /\ visitors' = {}
      /\ writing' = [b \in Browsers |-> NoWrite] /\ disturbed' = disturbed \cup {today} \cup lost
  BY DEF RestartConductor
<1>2. CountTypes'
  BY <1>0, <1>1, AnalyticsAssumption DEF CountTypes, Days
<1>3. \A d \in Days : Searchers(d)' = Searchers(d)
  BY <1>1 DEF Searchers
<1>4. ASSUME NEW d \in Days, NEW b \in Browsers, Owed(b, d) PROVE d \in disturbed'
  BY <1>1, <1>4 DEF Owed
<1>5. ASSUME NEW d \in Days \ disturbed' PROVE rows'[d].unique = Searchers(d)'
  BY <1>1, <1>3, <1>4, <1>5 DEF CountInv
<1>6. \A d \in Days : saltDay' < d => searchers'[d] = {}
  BY <1>0, <1>1 DEF CountInv, CountTypes, Days
<1> HIDE DEF lost
<1> QED
  BY <1>1, <1>2, <1>3, <1>5, <1>6 DEF CountInv

\* Every day up to today is disturbed by a purge, and the days to come have nobody.
LEMMA PurgeCounts == ASSUME CountInv, PurgeRows \/ PurgeMemory PROVE CountInv'
<1>0. CountTypes
  BY DEF CountInv
<1>1. /\ UNCHANGED <<today, searchers, writing>> /\ disturbed' = disturbed \cup 0..today
      /\ rows' = rows \/ rows' = [d \in Days |-> NoRow]
      /\ \/ UNCHANGED <<saltDay, visitors>>
         \/ saltDay' = today /\ visitors' = {}
  BY DEF PurgeRows, PurgeMemory
<1>2. CountTypes'
  <2>1. rows' \in [Days -> [searches : Nat, unique : Nat, opens : Nat]]
    BY <1>0, <1>1 DEF CountTypes, NoRow
  <2>2. saltDay' \in Days /\ saltDay' <= today /\ visitors' \in SUBSET Browsers
    BY <1>0, <1>1 DEF CountTypes, Days
  <2> QED
    BY <1>0, <1>1, <2>1, <2>2 DEF CountTypes
<1>3. \A d \in Days : Searchers(d)' = Searchers(d) /\ Searchers(d) \in Nat
  BY <1>0, <1>1, SearchersFinite, FS_CardinalityType, AnalyticsAssumption
  DEF Searchers, CountTypes
<1>4. \A d \in Days : d \in disturbed' \/ d > today
  BY <1>0, <1>1 DEF CountTypes, Days
<1>5. saltDay' \in disturbed' /\ visitors' \subseteq searchers'[saltDay']
  BY <1>0, <1>1 DEF CountInv, CountTypes, Days
<1>6. ASSUME NEW d \in Days PROVE rows'[d].unique <= Searchers(d)'
  BY <1>1, <1>3 DEF CountInv, NoRow
<1>7. ASSUME NEW d \in Days \ disturbed' PROVE rows'[d].unique = Searchers(d)'
  <2>1. searchers[d] = {} /\ Searchers(d) = 0
    BY <1>4, <1>7, FS_EmptySet DEF CountInv, Searchers
  <2>2. rows'[d].unique \in Nat
    BY <1>2 DEF CountTypes
  <2> QED
    BY <2>1, <2>2, <1>3, <1>6
<1>8. \A d \in Days : d \notin disturbed' => searchers'[d] = {}
  BY <1>1, <1>4 DEF CountInv
<1> QED
  BY <1>1, <1>2, <1>3, <1>5, <1>6, <1>7, <1>8 DEF CountInv

LEMMA RetentionCounts == ASSUME CountInv, NEW d \in Days, Retention(d) PROVE CountInv'
<1>0. CountTypes
  BY DEF CountInv
<1>1. /\ UNCHANGED <<today, saltDay, visitors, writing, searchers>>
      /\ disturbed' = disturbed \cup {d} /\ rows' = [rows EXCEPT ![d] = NoRow]
  BY DEF Retention
<1>2. /\ rows'[d] = NoRow /\ \A e \in Days : e # d => rows'[e] = rows[e]
  BY <1>0, <1>1 DEF CountTypes
<1>3. CountTypes'
  BY <1>0, <1>1 DEF CountTypes, NoRow
<1>4. \A e \in Days : /\ Searchers(e)' = Searchers(e) /\ Searchers(e) \in Nat
                       /\ \A b \in Browsers : Owed(b, e)' = Owed(b, e)
  BY <1>0, <1>1, SearchersFinite, FS_CardinalityType, AnalyticsAssumption
  DEF Searchers, CountTypes, Owed
<1>5. \A e \in Days : rows'[e].unique <= Searchers(e)'
  BY <1>2, <1>4 DEF CountInv, NoRow
<1> QED
  BY <1>1, <1>2, <1>3, <1>4, <1>5 DEF CountInv

LEMMA CountNext == CountInv /\ [AnalyticsNext]_analyticsVars => CountInv'
<1> SUFFICES ASSUME CountInv, [AnalyticsNext]_analyticsVars PROVE CountInv'
  OBVIOUS
<1>1. ASSUME NEW b \in Browsers, OptOut(b) PROVE CountInv'
  BY <1>1, CountLeftAlone DEF OptOut
<1>2. ASSUME NEW b \in Browsers, NEW k \in Kinds,
             Track(b, k) \/ LoseBeacon(b, k) \/ NewMinute(b, k) \/ Drop(b, k)
      PROVE  CountInv'
  BY <1>2, CountLeftAlone DEF Track, LoseBeacon, NewMinute, Drop
<1>3. CASE SwitchAnalytics \/ UNCHANGED analyticsVars
  BY <1>3, CountLeftAlone DEF SwitchAnalytics, analyticsVars
<1> QED
  BY <1>1, <1>2, <1>3, SearchCounts, OpenCounts, CommitCounts, AbortCounts, MidnightCounts,
     RestartCounts, PurgeCounts, RetentionCounts
  DEF AnalyticsNext

\* The stored searchers of a day are never too many, and all of them on a day
\* without restart, purge and failed write (analytics.py, record_search).
THEOREM SearchersAreCounted == AnalyticsSpec => []SearchersCounted
<1>1. CountInv => SearchersCounted
  BY DEF CountInv, CountTypes, SearchersCounted, Searchers, Owed
<1> QED
  BY <1>1, CountInit, CountNext, PTL DEF AnalyticsSpec

-----------------------------------------------------------------------------
(* Saves change their field alone.                                         *)

\* A row as stored, and a request: the whole row, or a field of it.
FormRow == [Fields -> Values]
FormSave == [row : Rows, field : Fields, seen : FormRow, landed : BOOLEAN,
             body : FormRow \cup UNION {[{f} -> Values] : f \in Fields}]

\* Beside its own field, a request holds only what it was read with.
HoldsOneChange(c) == \A g \in (Fields \cap DOMAIN c.body) \ {c.field} : c.body[g] = c.seen[g]

\* There is one request for each row and field: none that has landed can be
\* mistaken for one that has not.
OnePerField == \A c, d \in saves : c.row = d.row /\ c.field = d.field => c = d

\* The inductive invariant of the forms.
FormsInv ==
    /\ stored \in [Rows -> FormRow] /\ cached \in [Rows -> FormRow]
    /\ draft \in FormRow
    /\ selected \in Rows \cup {Nobody}
    /\ form # "podcast" => selected \in Rows
    /\ saves \subseteq FormSave
    /\ \A c \in saves : HoldsOneChange(c)
    /\ OnePerField

LEMMA FormsInvInit == FormsInit => FormsInv
<1> SUFFICES ASSUME FormsInit PROVE FormsInv
  OBVIOUS
<1>1. (CHOOSE v \in Values : TRUE) \in Values /\ (CHOOSE r \in Rows : TRUE) \in Rows
  BY RowsAssumption
<1> QED
  BY <1>1 DEF FormsInit, FormsInv, FormRow, OnePerField

\* A render starts the drafts over with a row, or leaves them.
LEMMA RenderTyped ==
    ASSUME FormsInv, NEW sel \in Rows \cup {Nobody}, NEW renewed \in [Rows -> FormRow], Render(sel, renewed)
    PROVE  draft' \in FormRow
BY DEF FormsInv, Render, Reset

\* A request is made from the row as cached.
LEMMA BodyHolds ==
    ASSUME FormsInv, NEW f \in Fields, selected \in Rows
    PROVE  /\ Body(f) \in FormRow \cup UNION {[{g} -> Values] : g \in Fields}
           /\ \A g \in (Fields \cap DOMAIN Body(f)) \ {f} : Body(f)[g] = cached[selected][g]
<1>1. cached[selected] \in FormRow /\ draft[f] \in Values
  BY DEF FormsInv, FormRow
<1>2. CASE form = "podcast"
  BY <1>1, <1>2 DEF Body, FormRow
<1>3. CASE form # "podcast"
  <2>1. Body(f) = [g \in {f} |-> draft[f]]
    BY <1>3 DEF Body
  <2>2. Body(f) \in [{f} -> Values]
    BY <1>1, <2>1
  <2> QED
    BY <2>1, <2>2
<1> QED
  BY <1>2, <1>3

\* What a request changes of the stored row is typed, and is its field alone
\* when the row is as it was read.
LEMMA Written ==
    ASSUME FormsInv, NEW c \in saves, Land(c)
    PROVE  /\ stored' \in [Rows -> FormRow]
           /\ c.seen = stored[c.row] =>
                \A g \in Fields \ {c.field} : stored'[c.row][g] = stored[c.row][g]
<1> DEFINE row == [g \in Fields |-> IF g \in DOMAIN c.body THEN c.body[g] ELSE stored[c.row][g]]
<1>1. c \in FormSave /\ HoldsOneChange(c) /\ stored \in [Rows -> FormRow]
  BY DEF FormsInv
<1>2. c.row \in Rows /\ stored[c.row] \in FormRow
  BY <1>1 DEF FormSave
<1>3. \A g \in Fields \cap DOMAIN c.body : c.body[g] \in Values
  <2>1. CASE c.body \in FormRow
    BY <2>1 DEF FormRow
  <2>2. ASSUME NEW f \in Fields, c.body \in [{f} -> Values]
        PROVE  \A g \in Fields \cap DOMAIN c.body : c.body[g] \in Values
    BY <2>2
  <2> QED
    BY <1>1, <2>1, <2>2 DEF FormSave
<1>4. row \in FormRow
  BY <1>2, <1>3 DEF FormRow
<1>5. stored' = [stored EXCEPT ![c.row] = row]
  BY DEF Land
<1>6. stored'[c.row] = row
  BY <1>1, <1>2, <1>5
<1>7. c.seen = stored[c.row] => \A g \in Fields \ {c.field} : row[g] = stored[c.row][g]
  BY <1>1, <1>2 DEF HoldsOneChange
<1> HIDE DEF row
<1>8. stored' \in [Rows -> FormRow]
  BY <1>1, <1>4, <1>5
<1> QED
  BY <1>6, <1>7, <1>8

LEMMA FormsInvStep == FormsInv /\ [FormsNext]_formVars => FormsInv'
<1> SUFFICES ASSUME FormsInv, [FormsNext]_formVars PROVE FormsInv'
  OBVIOUS
<1>1. ASSUME NEW r \in Rows, NEW f \in Fields, NEW v \in Values, Elsewhere(r, f, v)
      PROVE  FormsInv'
  <2>1. stored' \in [Rows -> FormRow]
    BY <1>1 DEF Elsewhere, FormsInv, FormRow
  <2> QED
    BY <1>1, <2>1 DEF Elsewhere, FormsInv, OnePerField, HoldsOneChange
<1>2. CASE Refetch
  BY <1>2, RenderTyped DEF Refetch, FormsInv, OnePerField, HoldsOneChange
<1>3. ASSUME NEW r \in Rows \cup {Nobody}, Select(r) PROVE FormsInv'
  BY <1>3, RenderTyped DEF Select, FormsInv, OnePerField, HoldsOneChange
<1>4. ASSUME NEW f \in Fields, NEW v \in Values, TypeIn(f, v) PROVE FormsInv'
  BY <1>4 DEF TypeIn, FormsInv, FormRow, OnePerField, HoldsOneChange
<1>5. ASSUME NEW f \in Fields, Discard(f) PROVE FormsInv'
  BY <1>5 DEF Discard, FormsInv, FormRow, OnePerField, HoldsOneChange
<1>6. ASSUME NEW f \in Fields, Save(f) PROVE FormsInv'
  <2> DEFINE request == [row |-> selected, field |-> f, body |-> Body(f), seen |-> cached[selected], landed |-> FALSE]
  <2>1. selected \in Rows /\ saves' = saves \cup {request}
    BY <1>6 DEF Save, FormsInv
  <2>2. request \in FormSave /\ HoldsOneChange(request)
    BY <2>1, BodyHolds DEF FormsInv, FormSave, HoldsOneChange
  <2>3. \A c \in saves : c.row # request.row \/ c.field # request.field
    BY <1>6 DEF Save
  <2> HIDE DEF request
  <2>4. OnePerField'
    BY <2>1, <2>3 DEF OnePerField, FormsInv
  <2>5. saves' \subseteq FormSave /\ \A c \in saves' : HoldsOneChange(c)
    BY <2>1, <2>2 DEF FormsInv
  <2> QED
    BY <1>6, <2>4, <2>5 DEF Save, FormsInv, HoldsOneChange
<1>7. ASSUME NEW c \in saves, Land(c) PROVE FormsInv'
  <2> DEFINE done == [c EXCEPT !.landed = TRUE]
  <2>1. done \in FormSave /\ done.row = c.row /\ done.field = c.field /\ HoldsOneChange(done)
    BY DEF FormsInv, FormSave, HoldsOneChange
  <2>2. saves' = (saves \ {c}) \cup {done}
    BY <1>7 DEF Land
  <2> HIDE DEF done
  <2>3. OnePerField'
    BY <2>1, <2>2 DEF OnePerField, FormsInv
  <2>4. saves' \subseteq FormSave /\ \A d \in saves' : HoldsOneChange(d)
    BY <2>1, <2>2 DEF FormsInv
  <2> QED
    BY <1>7, <2>3, <2>4, Written DEF Land, FormsInv, HoldsOneChange
<1>8. ASSUME NEW c \in saves, Answered(c) PROVE FormsInv'
  <2>1. draft' \in FormRow
    <3>1. CASE form = "placeholders" /\ c.landed
      BY <1>8, <3>1 DEF Answered, FormsInv
    <3>2. CASE ~(form = "placeholders" /\ c.landed)
      BY <1>8, <3>2 DEF Answered, FormsInv
    <3> QED
      BY <3>1, <3>2
  <2> QED
    BY <1>8, <2>1 DEF Answered, FormsInv, OnePerField, HoldsOneChange
<1>9. CASE UNCHANGED formVars
  BY <1>9 DEF formVars, FormsInv, OnePerField, HoldsOneChange
<1> QED
  BY <1>1, <1>2, <1>3, <1>4, <1>5, <1>6, <1>7, <1>8, <1>9 DEF FormsNext

\* The change of a request that lands is the one of Land: nothing else makes a
\* landed request of one under way.
LEMMA LandedBy ==
    ASSUME FormsInv, NEW c \in saves, ~c.landed, [c EXCEPT !.landed = TRUE] \in saves', [FormsNext]_formVars
    PROVE  Land(c)
<1> DEFINE done == [c EXCEPT !.landed = TRUE]
<1>1. done.landed /\ done.row = c.row /\ done.field = c.field /\ c # done
  BY DEF FormsInv, FormSave
<1>2. done \in saves'
  OBVIOUS
<1> HIDE DEF done
<1>3. done \notin saves
  BY <1>1 DEF FormsInv, OnePerField
<1>4. ASSUME NEW f \in Fields, Save(f) PROVE FALSE
  BY <1>1, <1>2, <1>3, <1>4 DEF Save
<1>5. ASSUME NEW d \in saves, Land(d) PROVE d = c
  <2>1. done = [d EXCEPT !.landed = TRUE]
    BY <1>2, <1>3, <1>5 DEF Land
  <2>2. done.row = d.row /\ done.field = d.field
    BY <2>1 DEF FormsInv, FormSave
  <2> QED
    BY <1>1, <2>2 DEF FormsInv, OnePerField
<1>6. ASSUME NEW d \in saves, Answered(d) PROVE FALSE
  BY <1>2, <1>3, <1>6 DEF Answered
<1>7. saves' # saves
  BY <1>2, <1>3
<1> QED
  BY <1>4, <1>5, <1>6, <1>7 DEF FormsNext, Elsewhere, Refetch, Select, TypeIn, Discard, formVars

THEOREM SaveChangesItsField == FormsSpec => OnlyItsField
<1>1. FormsInv /\ [FormsNext]_formVars =>
        \A c \in saves : ~c.landed /\ c.seen = stored[c.row] /\ (\E d \in saves' : d = [c EXCEPT !.landed = TRUE]) =>
            \A f \in Fields \ {c.field} : stored'[c.row][f] = stored[c.row][f]
  BY LandedBy, Written
<1> QED
  BY <1>1, FormsInvInit, FormsInvStep, PTL DEF FormsSpec, OnlyItsField

-----------------------------------------------------------------------------
(* A plan is applied to the episodes it was made for.                      *)

\* A discovery job of the source, and a request or handler.
RebindJob == [st : {"absent", "pending", "claimed", "completed", "failed"},
              kind : {"discover", "test", "preview"}, url : Urls, from : Urls,
              plan : BOOLEAN, since : SUBSET Jobs, moved : SUBSET Jobs, applied : {0, 1}]
RebindHandler == [at : {"discover", "test", "store", "put", "preview", "retire", "insert", "apply"},
                  url : Urls, from : Urls, job : Jobs \cup {NoJob}]

\* The types of the rebind: every plan has been applied at most once, and the URLs
\* that reach a job come from the row or from the form.
RebindInv ==
    /\ source \in Urls /\ shown \in Urls
    /\ edit \in Urls \cup {NoForm}
    /\ jobs \in [Jobs -> RebindJob]
    /\ handlers \subseteq RebindHandler
    /\ \A h \in handlers : h.at \in {"store", "apply"} => h.job \in Jobs

LEMMA AbsentType == Absent \in RebindJob /\ Absent.applied = 0
<1>1. (CHOOSE u \in Urls : TRUE) \in Urls
  BY UrlsAssumption
<1> QED
  BY <1>1 DEF Absent, RebindJob

LEMMA RebindInit1 == RebindInit => RebindInv
<1> SUFFICES ASSUME RebindInit PROVE RebindInv
  OBVIOUS
<1>1. source \in Urls
  BY UrlsAssumption DEF RebindInit
<1> QED
  BY <1>1, AbsentType DEF RebindInit, RebindInv

\* The row of a job just completed, of one with a new plan, and of one put back.
LEMMA ResultTyped ==
    ASSUME NEW r \in RebindJob
    PROVE  /\ Done(r) \in RebindJob /\ Done(r).st = "completed" /\ Done(r).moved = {}
           /\ Done(r).applied = 0
           /\ Planned(r) \in RebindJob /\ Planned(r).st = r.st /\ Planned(r).since = r.since
           /\ Planned(r).moved = {} /\ Planned(r).applied = 0
           /\ Queued(r) \in RebindJob /\ Queued(r).st = "pending"
           /\ Queued(r).moved = r.moved /\ Queued(r).applied = r.applied
BY DEF RebindJob, Done, Planned, Queued

\* A new job comes from no job and has not been applied.
LEMMA InsertTyped ==
    ASSUME RebindInv, NEW h \in RebindHandler, NEW j \in Free,
           NEW kind \in {"discover", "test", "preview"}, Insert(h, j, kind)
    PROVE  jobs' \in [Jobs -> RebindJob]
<1>1. CASE Live # {}
  BY <1>1 DEF Insert, RebindInv
<1>2. CASE Live = {}
  <2> DEFINE new == [Absent EXCEPT !.st = "pending", !.kind = kind, !.url = h.url, !.from = h.from]
  <2>1. new \in RebindJob
    BY AbsentType DEF RebindJob, RebindHandler
  <2>2. jobs' = [jobs EXCEPT ![j] = new]
    BY <1>2 DEF Insert
  <2> HIDE DEF new
  <2> QED
    BY <2>1, <2>2 DEF RebindInv, Free
<1> QED
  BY <1>1, <1>2

LEMMA RebindStep == RebindInv /\ [RebindNext]_rebindVars => RebindInv'
<1> SUFFICES ASSUME RebindInv, [RebindNext]_rebindVars PROVE RebindInv'
  OBVIOUS
<1> USE DEF RebindInv, Handler, Begin, Become
<1>1. ASSUME NEW kind \in {"discover", "test"}, Discover(kind) PROVE RebindInv'
  BY <1>1 DEF Discover, RebindHandler
<1>2. ASSUME NEW j \in Jobs, Claim(j) PROVE RebindInv'
  BY <1>2 DEF Claim, RebindJob
<1>3. ASSUME NEW j \in Jobs, Complete(j) PROVE RebindInv'
  <2>1. jobs[j] \in RebindJob
    OBVIOUS
  <2>2. handlers' \subseteq RebindHandler
    BY <1>3, <2>1 DEF Complete, RebindHandler, RebindJob
  <2>3. ASSUME NEW k \in Jobs PROVE jobs'[k] \in RebindJob
    <3>1. [jobs[k] EXCEPT !.since = @ \cup {j}] \in RebindJob
      BY DEF RebindJob
    <3> QED
      BY <1>3, <3>1, ResultTyped DEF Complete
  <2>4. jobs' \in [Jobs -> RebindJob]
    BY <1>3, <2>3 DEF Complete
  <2> QED
    BY <1>3, <2>2, <2>4 DEF Complete
<1>4. ASSUME NEW j \in Jobs, FailJob(j) PROVE RebindInv'
  BY <1>4 DEF FailJob, RebindJob
<1>21. ASSUME NEW j \in Jobs, Requeue(j) PROVE RebindInv'
  <2>1. ASSUME NEW k \in Jobs PROVE jobs'[k] \in RebindJob
    <3>1. [jobs[k] EXCEPT !.since = @ \ {j}] \in RebindJob
      BY DEF RebindJob
    <3> QED
      BY <1>21, <3>1, ResultTyped DEF Requeue
  <2>2. jobs' \in [Jobs -> RebindJob]
    BY <1>21, <2>1 DEF Requeue
  <2> QED
    BY <1>21, <2>2 DEF Requeue
<1>5. CASE ReadSource
  BY <1>5 DEF ReadSource
<1>6. CASE StartEdit
  BY <1>6 DEF StartEdit
<1>7. ASSUME NEW u \in Urls, EditForm(u) PROVE RebindInv'
  BY <1>7 DEF EditForm
<1>8. CASE CancelEdit
  BY <1>8 DEF CancelEdit
<1>9. CASE SaveSource
  BY <1>9 DEF SaveSource, RebindHandler
<1>10. CASE ToggleSource
  BY <1>10 DEF ToggleSource, RebindHandler
<1>11. ASSUME NEW j \in Jobs, ApplyPlan(j) PROVE RebindInv'
  <2>1. jobs[j] \in RebindJob
    OBVIOUS
  <2> QED
    BY <1>11, <2>1 DEF ApplyPlan, RebindHandler, RebindJob
<1>12. ASSUME NEW h \in handlers, InsertDiscovery(h) PROVE RebindInv'
  <2>1. PICK j \in Free : Insert(h, j, h.at)
    BY <1>12 DEF InsertDiscovery
  <2>2. jobs' \in [Jobs -> RebindJob]
    BY <1>12, <2>1, InsertTyped DEF InsertDiscovery
  <2> QED
    BY <1>12, <2>2 DEF InsertDiscovery
<1>13. ASSUME NEW h \in handlers, Store(h) PROVE RebindInv'
  <2>3. h.job \in Jobs
    BY <1>13 DEF Store
  <2>1. ASSUME NEW k \in Jobs PROVE jobs'[k] \in RebindJob
    <3>1. [jobs[k] EXCEPT !.moved = @ \cup {h.job}] \in RebindJob
      BY <2>3 DEF RebindJob
    <3> QED
      BY <1>13, <3>1, ResultTyped DEF Store
  <2>2. jobs' \in [Jobs -> RebindJob]
    BY <1>13, <2>1 DEF Store
  <2> QED
    BY <1>13, <2>2 DEF Store
<1>14. ASSUME NEW h \in handlers, Put(h) PROVE RebindInv'
  BY <1>14 DEF Put, RebindHandler
<1>15. ASSUME NEW h \in handlers, PreviewRead(h) PROVE RebindInv'
  BY <1>15 DEF PreviewRead, RebindHandler
<1>16. ASSUME NEW h \in handlers, PreviewRetire(h) PROVE RebindInv'
  BY <1>16 DEF PreviewRetire, RebindHandler, RebindJob
<1>17. ASSUME NEW h \in handlers, PreviewInsert(h) PROVE RebindInv'
  <2>1. PICK j \in Free : Insert(h, j, "preview")
    BY <1>17 DEF PreviewInsert
  <2>2. jobs' \in [Jobs -> RebindJob]
    BY <1>17, <2>1, InsertTyped DEF PreviewInsert
  <2> QED
    BY <1>17, <2>2 DEF PreviewInsert
<1>18. ASSUME NEW h \in handlers, Apply(h) PROVE RebindInv'
  <2>1. CASE Applicable(h.job)
    \* Only a plan that has never been applied is applied.
    <3>1. jobs[h.job].applied = 0 /\ h.job \in Jobs
      BY <1>18, <2>1 DEF Applicable, Apply
    <3>2. ASSUME NEW k \in Jobs PROVE jobs'[k] \in RebindJob
      BY <1>18, <2>1, <3>1 DEF Apply, RebindJob
    <3>3. jobs' \in [Jobs -> RebindJob]
      BY <1>18, <2>1, <3>2 DEF Apply
    <3>4. source' \in Urls /\ UNCHANGED <<shown, edit>> /\ handlers' \subseteq handlers
      BY <1>18, <2>1 DEF Apply, RebindHandler
    <3> QED
      BY <3>3, <3>4
  <2>2. CASE ~Applicable(h.job)
    BY <1>18, <2>2 DEF Apply
  <2> QED
    BY <2>1, <2>2
<1>19. ASSUME NEW h \in handlers, Lost(h) PROVE RebindInv'
  BY <1>19 DEF Lost
<1>20. CASE UNCHANGED rebindVars
  BY <1>20 DEF rebindVars
<1> QED
  BY <1>1, <1>2, <1>3, <1>4, <1>5, <1>6, <1>7, <1>8, <1>9, <1>10, <1>11, <1>12, <1>13,
     <1>14, <1>15, <1>16, <1>17, <1>18, <1>19, <1>20, <1>21 DEF RebindNext

\* What is under way for a job, and what the order of completion says of plans: of two
\* jobs that are completed one was first, and one that is completed and has moved the
\* episodes of a plan completed after the plan's job.
PlansInOrder ==
    /\ \A h \in handlers : h.at \in {"store", "apply"} => jobs[h.job].st # "absent"
    /\ \A j \in Jobs : \A k \in jobs[j].moved : jobs[k].st # "absent"
    /\ \A j \in Jobs : jobs[j].st = "completed" =>
           \A k \in jobs[j].moved : k # j /\ (jobs[k].st = "completed" => k \in jobs[j].since)
    /\ \A j, k \in Jobs :
           j # k /\ jobs[j].st = "completed" /\ jobs[k].st = "completed" =>
               j \in jobs[k].since \/ k \in jobs[j].since

\* Steps that leave alone the jobs that have completed.
LEMMA OrderKept ==
    ASSUME RebindInv, PlansInOrder,
           \A h \in handlers' \ handlers : h.at \notin {"store", "apply"},
           \A j \in Jobs : \/ jobs'[j] = jobs[j]
                           \/ /\ jobs[j].st # "completed" /\ jobs'[j].st \notin {"completed", "absent"}
                              /\ jobs'[j].moved \subseteq jobs[j].moved
    PROVE  PlansInOrder'
<1>1. \A j \in Jobs : jobs[j].moved \subseteq Jobs
  BY DEF RebindInv, RebindJob
<1>2. \A h \in handlers' : h.at \in {"store", "apply"} => h \in handlers /\ h.job \in Jobs
  BY DEF RebindInv
<1>3. \A h \in handlers' : h.at \in {"store", "apply"} => jobs'[h.job].st # "absent"
  BY <1>2 DEF PlansInOrder
<1>4. \A j \in Jobs : \A k \in jobs'[j].moved :
          k \in jobs[j].moved /\ k \in Jobs /\ jobs'[k].st # "absent"
  BY <1>1 DEF PlansInOrder
<1>5. \A j \in Jobs : jobs'[j].st = "completed" => jobs'[j] = jobs[j]
  OBVIOUS
<1> QED
  BY <1>3, <1>4, <1>5 DEF PlansInOrder

LEMMA InsertKept ==
    ASSUME RebindInv, NEW h \in RebindHandler, NEW j \in Free,
           NEW kind \in {"discover", "test", "preview"}, Insert(h, j, kind)
    PROVE  \A k \in Jobs : \/ jobs'[k] = jobs[k]
                           \/ /\ jobs[k].st # "completed" /\ jobs'[k].st \notin {"completed", "absent"}
                              /\ jobs'[k].moved \subseteq jobs[k].moved
<1> DEFINE new == [Absent EXCEPT !.st = "pending", !.kind = kind, !.url = h.url, !.from = h.from]
<1>1. new.st = "pending" /\ new.moved = {}
  BY DEF Absent
<1>2. jobs' = jobs \/ jobs' = [jobs EXCEPT ![j] = new]
  BY DEF Insert
<1> HIDE DEF new
<1> QED
  BY <1>1, <1>2 DEF RebindInv, Free

LEMMA PlansInit == RebindInit => PlansInOrder
BY DEF RebindInit, PlansInOrder, Absent

LEMMA PlansStep ==
    ASSUME RebindInv, PlansInOrder, [RebindNext]_rebindVars
    PROVE  PlansInOrder'
<1> USE DEF Handler, Begin, Become
<1>0. \A j \in Jobs : jobs[j].moved \subseteq Jobs /\ jobs[j].since \subseteq Jobs
  BY DEF RebindInv, RebindJob
<1>1. ASSUME NEW kind \in {"discover", "test"}, Discover(kind) PROVE PlansInOrder'
  BY <1>1, OrderKept DEF Discover
<1>2. ASSUME NEW j \in Jobs, Claim(j) \/ FailJob(j) PROVE PlansInOrder'
  <2>1. PICK s \in {"claimed", "failed"} : jobs' = [jobs EXCEPT ![j].st = s]
    BY <1>2 DEF Claim, FailJob
  <2>2. \A k \in Jobs : \/ jobs'[k] = jobs[k]
                        \/ /\ jobs[k].st # "completed" /\ jobs'[k].st \notin {"completed", "absent"}
                           /\ jobs'[k].moved \subseteq jobs[k].moved
    BY <1>2, <2>1 DEF Claim, FailJob, RebindInv, RebindJob
  <2> QED
    BY <1>2, <2>2, OrderKept DEF Claim, FailJob
<1>3. ASSUME NEW j \in Jobs, Complete(j) PROVE PlansInOrder'
  <2>1. /\ jobs'[j].st = "completed" /\ jobs'[j].moved = {}
        /\ \A k \in Jobs \ {j} : /\ jobs'[k].st = jobs[k].st /\ jobs'[k].moved = jobs[k].moved
                                 /\ jobs[k].since \subseteq jobs'[k].since
                                 /\ jobs[k].st = "completed" => j \in jobs'[k].since
    <3>1. \A k \in Jobs : jobs[k] \in RebindJob
      BY DEF RebindInv
    <3>2. /\ jobs'[j] = Done(jobs[j])
          /\ \A k \in Jobs \ {j} :
                jobs'[k] = IF jobs[k].st = "completed" THEN [jobs[k] EXCEPT !.since = @ \cup {j}] ELSE jobs[k]
      BY <1>3 DEF Complete
    <3>3. jobs'[j].st = "completed" /\ jobs'[j].moved = {}
      BY <3>1, <3>2, ResultTyped
    <3>4. ASSUME NEW k \in Jobs \ {j}
          PROVE  /\ jobs'[k].st = jobs[k].st /\ jobs'[k].moved = jobs[k].moved
                 /\ jobs[k].since \subseteq jobs'[k].since
                 /\ jobs[k].st = "completed" => j \in jobs'[k].since
      <4>1. jobs[k] \in RebindJob
        BY <3>1
      <4>2. CASE jobs[k].st = "completed"
        <5>1. jobs'[k] = [jobs[k] EXCEPT !.since = @ \cup {j}]
          BY <3>2, <4>2
        <5> QED
          BY <4>1, <5>1 DEF RebindJob
      <4>3. CASE jobs[k].st # "completed"
        BY <3>2, <4>3
      <4> QED
        BY <4>2, <4>3
    <3> QED
      BY <3>3, <3>4
  <2>2. \A h \in handlers' : h.at \in {"store", "apply"} => jobs'[h.job].st # "absent"
    BY <1>3, <2>1 DEF Complete, PlansInOrder, RebindInv
  <2>3. \A i \in Jobs : \A k \in jobs'[i].moved : jobs'[k].st # "absent"
    BY <1>0, <2>1 DEF PlansInOrder
  <2>4. \A i \in Jobs : jobs'[i].st = "completed" =>
            \A k \in jobs'[i].moved : k # i /\ (jobs'[k].st = "completed" => k \in jobs'[i].since)
    BY <1>0, <2>1 DEF PlansInOrder
  <2>5. \A i, k \in Jobs :
            i # k /\ jobs'[i].st = "completed" /\ jobs'[k].st = "completed" =>
                i \in jobs'[k].since \/ k \in jobs'[i].since
    BY <2>1 DEF PlansInOrder
  <2> QED
    BY <2>2, <2>3, <2>4, <2>5 DEF PlansInOrder
<1>14. ASSUME NEW j \in Jobs, Requeue(j) PROVE PlansInOrder'
  \* A job back in the queue is no completed one, and is in nobody's way.
  <2>1. /\ jobs'[j].st = "pending" /\ handlers' = handlers
        /\ \A k \in Jobs : jobs'[k].moved = jobs[k].moved
        /\ \A k \in Jobs \ {j} : /\ jobs'[k].st = jobs[k].st
                                 /\ jobs'[k].since = jobs[k].since \ {j}
    <3>1. \A k \in Jobs : jobs[k] \in RebindJob
      BY DEF RebindInv
    <3>2. /\ jobs'[j] = Queued(jobs[j]) /\ handlers' = handlers
          /\ \A k \in Jobs \ {j} : jobs'[k] = [jobs[k] EXCEPT !.since = @ \ {j}]
      BY <1>14 DEF Requeue
    <3>3. jobs'[j].st = "pending" /\ jobs'[j].moved = jobs[j].moved
      BY <3>1, <3>2, ResultTyped
    <3>4. ASSUME NEW k \in Jobs \ {j}
          PROVE  /\ jobs'[k].st = jobs[k].st /\ jobs'[k].moved = jobs[k].moved
                 /\ jobs'[k].since = jobs[k].since \ {j}
      BY <3>1, <3>2 DEF RebindJob
    <3> QED
      BY <3>2, <3>3, <3>4
  <2>2. \A h \in handlers' : h.at \in {"store", "apply"} => jobs'[h.job].st # "absent"
    BY <2>1 DEF PlansInOrder, RebindInv
  <2>3. \A i \in Jobs : \A k \in jobs'[i].moved : jobs'[k].st # "absent"
    BY <1>0, <2>1 DEF PlansInOrder
  <2>4. \A i \in Jobs : jobs'[i].st = "completed" =>
            \A k \in jobs'[i].moved : k # i /\ (jobs'[k].st = "completed" => k \in jobs'[i].since)
    BY <1>0, <2>1 DEF PlansInOrder
  <2>5. \A i, k \in Jobs :
            i # k /\ jobs'[i].st = "completed" /\ jobs'[k].st = "completed" =>
                i \in jobs'[k].since \/ k \in jobs'[i].since
    BY <2>1 DEF PlansInOrder
  <2> QED
    BY <2>2, <2>3, <2>4, <2>5 DEF PlansInOrder
<1>4. CASE ReadSource \/ StartEdit \/ (\E u \in Urls : EditForm(u)) \/ CancelEdit
  BY <1>4, OrderKept DEF ReadSource, StartEdit, EditForm, CancelEdit
<1>5. CASE SaveSource \/ ToggleSource
  BY <1>5, OrderKept DEF SaveSource, ToggleSource
<1>6. ASSUME NEW j \in Jobs, ApplyPlan(j) PROVE PlansInOrder'
  BY <1>6 DEF ApplyPlan, PlansInOrder
<1>7. ASSUME NEW h \in handlers, InsertDiscovery(h) PROVE PlansInOrder'
  <2>1. PICK j \in Free : Insert(h, j, h.at)
    BY <1>7 DEF InsertDiscovery
  <2>2. h \in RebindHandler /\ h.at \in {"discover", "test"}
    BY <1>7 DEF InsertDiscovery, RebindInv
  <2> QED
    BY <1>7, <2>1, <2>2, InsertKept, OrderKept DEF InsertDiscovery
<1>8. ASSUME NEW h \in handlers, Store(h) PROVE PlansInOrder'
  <2>1. h.job \in Jobs /\ jobs[h.job].st # "absent"
    BY <1>8 DEF Store, PlansInOrder, RebindInv
  <2>2. \A k \in Jobs : /\ jobs'[k].st = jobs[k].st /\ jobs'[k].since = jobs[k].since
                        /\ \/ jobs'[k].moved \subseteq jobs[k].moved
                           \/ /\ jobs'[k].moved = jobs[k].moved \cup {h.job}
                              /\ MovesEpisodes(h, k)
    <3>1. ASSUME NEW k \in Jobs
          PROVE  \/ jobs'[k] = Planned(jobs[k])
                 \/ MovesEpisodes(h, k) /\ jobs'[k] = [jobs[k] EXCEPT !.moved = @ \cup {h.job}]
                 \/ jobs'[k] = jobs[k]
      BY <1>8 DEF Store
    <3>2. ASSUME NEW k \in Jobs
          PROVE  /\ jobs'[k].st = jobs[k].st /\ jobs'[k].since = jobs[k].since
                 /\ \/ jobs'[k].moved \subseteq jobs[k].moved
                    \/ jobs'[k].moved = jobs[k].moved \cup {h.job} /\ MovesEpisodes(h, k)
      <4>1. jobs[k] \in RebindJob
        BY DEF RebindInv
      <4>2. CASE jobs'[k] = Planned(jobs[k])
        BY <4>1, <4>2, ResultTyped
      <4>3. CASE MovesEpisodes(h, k) /\ jobs'[k] = [jobs[k] EXCEPT !.moved = @ \cup {h.job}]
        BY <4>1, <4>3 DEF RebindJob
      <4> QED
        BY <3>1, <4>2, <4>3
    <3> QED
      BY <3>2
  <2>3. handlers' \subseteq handlers
    BY <1>8 DEF Store
  <2>4. \A g \in handlers' : g.at \in {"store", "apply"} => jobs'[g.job].st # "absent"
    BY <2>2, <2>3 DEF PlansInOrder, RebindInv
  <2>5. \A i \in Jobs : \A k \in jobs'[i].moved : jobs'[k].st # "absent"
    BY <1>0, <2>1, <2>2 DEF PlansInOrder
  \* A completed job that moves a plan's episodes completed after it.
  <2>6. \A i \in Jobs : jobs'[i].st = "completed" =>
            \A k \in jobs'[i].moved : k # i /\ (jobs'[k].st = "completed" => k \in jobs'[i].since)
    BY <1>0, <2>1, <2>2 DEF PlansInOrder, MovesEpisodes
  <2>7. \A i, k \in Jobs :
            i # k /\ jobs'[i].st = "completed" /\ jobs'[k].st = "completed" =>
                i \in jobs'[k].since \/ k \in jobs'[i].since
    BY <2>2 DEF PlansInOrder
  <2> QED
    BY <2>4, <2>5, <2>6, <2>7 DEF PlansInOrder
<1>9. ASSUME NEW h \in handlers, Put(h) \/ PreviewRead(h) \/ Lost(h) PROVE PlansInOrder'
  BY <1>9, OrderKept DEF Put, PreviewRead, Lost, RebindInv, RebindHandler
<1>10. ASSUME NEW h \in handlers, PreviewRetire(h) PROVE PlansInOrder'
  <2>1. \A k \in Jobs : \/ jobs'[k] = jobs[k]
                        \/ /\ jobs[k].st # "completed" /\ jobs'[k].st \notin {"completed", "absent"}
                           /\ jobs'[k].moved \subseteq jobs[k].moved
    BY <1>10 DEF PreviewRetire, RebindInv, RebindJob
  <2>2. handlers' = (handlers \ {h}) \cup {[h EXCEPT !.at = "insert"]} /\ h \in RebindHandler
    BY <1>10 DEF PreviewRetire, RebindInv
  <2>3. \A g \in handlers' \ handlers : g.at \notin {"store", "apply"}
    BY <2>2 DEF RebindHandler
  <2> QED
    BY <2>1, <2>3, OrderKept
<1>11. ASSUME NEW h \in handlers, PreviewInsert(h) PROVE PlansInOrder'
  <2>1. PICK j \in Free : Insert(h, j, "preview")
    BY <1>11 DEF PreviewInsert
  <2> QED
    BY <1>11, <2>1, InsertKept, OrderKept DEF PreviewInsert, RebindInv
<1>12. ASSUME NEW h \in handlers, Apply(h) PROVE PlansInOrder'
  <2>1. h.job \in Jobs /\ jobs[h.job].st # "absent" /\ handlers' \subseteq handlers
    BY <1>12 DEF Apply, PlansInOrder, RebindInv
  <2>2. CASE Applicable(h.job)
    <3>1. jobs[h.job].st = "completed" /\ ~Newer(h.job)
      BY <2>2 DEF Applicable
    <3>2. \A k \in Jobs : /\ jobs'[k].st = jobs[k].st /\ jobs'[k].since = jobs[k].since
                          /\ \/ jobs'[k].moved = jobs[k].moved
                             \/ jobs'[k].moved = jobs[k].moved \cup {h.job} /\ k # h.job
      BY <1>12, <2>2 DEF Apply, RebindInv, RebindJob
    <3>3. \A g \in handlers' : g.at \in {"store", "apply"} => jobs'[g.job].st # "absent"
      BY <2>1, <3>2 DEF PlansInOrder, RebindInv
    <3>4. \A i \in Jobs : \A k \in jobs'[i].moved : jobs'[k].st # "absent"
      BY <1>0, <2>1, <3>2 DEF PlansInOrder
    \* The plan that is applied is the last one: it was completed after the others.
    <3>5. \A i \in Jobs \ {h.job} : jobs[i].st = "completed" => h.job \in jobs[i].since
      BY <2>1, <3>1 DEF Newer, PlansInOrder
    <3>6. \A i \in Jobs : jobs'[i].st = "completed" =>
              \A k \in jobs'[i].moved : k # i /\ (jobs'[k].st = "completed" => k \in jobs'[i].since)
      BY <1>0, <2>1, <3>2, <3>5 DEF PlansInOrder
    <3>7. \A i, k \in Jobs :
              i # k /\ jobs'[i].st = "completed" /\ jobs'[k].st = "completed" =>
                  i \in jobs'[k].since \/ k \in jobs'[i].since
      BY <3>2 DEF PlansInOrder
    <3> QED
      BY <3>3, <3>4, <3>6, <3>7 DEF PlansInOrder
  <2>3. CASE ~Applicable(h.job)
    BY <1>12, <2>1, <2>3 DEF Apply, PlansInOrder
  <2> QED
    BY <2>2, <2>3
<1>13. CASE UNCHANGED rebindVars
  BY <1>13 DEF rebindVars, PlansInOrder
<1> QED
  BY <1>1, <1>2, <1>3, <1>4, <1>5, <1>6, <1>7, <1>8, <1>9, <1>10, <1>11, <1>12, <1>13, <1>14
     DEF RebindNext

\* Only an application counts one, and its guard refuses what was overtaken or applied.
LEMMA AppliedIsCurrent ==
    ASSUME RebindInv, PlansInOrder, [RebindNext]_rebindVars,
           NEW j \in Jobs, jobs'[j].applied > jobs[j].applied
    PROVE  /\ jobs[j].applied = 0
           /\ \A k \in jobs[j].moved : jobs[k].st = "failed"
<1>1. PICK h \in handlers : Apply(h) /\ jobs' # jobs /\ h.job = j
  <2>1. ASSUME NEW h \in handlers, InsertDiscovery(h) \/ PreviewInsert(h) PROVE FALSE
    <3>1. PICK k \in Free, kind \in {"discover", "test", "preview"} : Insert(h, k, kind)
      BY <2>1 DEF InsertDiscovery, PreviewInsert
    <3>2. jobs'[j] = jobs[j] \/ jobs'[j].applied = 0
      BY <3>1 DEF Insert, Absent, RebindInv
    <3> QED
      BY <3>2 DEF RebindInv, RebindJob
  <2>0. \A k \in Jobs : jobs[k] \in RebindJob
    BY DEF RebindInv
  <2>2. ASSUME NEW k \in Jobs, Claim(k) \/ FailJob(k) PROVE FALSE
    BY <2>2 DEF Claim, FailJob, RebindInv, RebindJob
  <2>6. ASSUME NEW k \in Jobs, Complete(k) \/ Requeue(k) PROVE FALSE
    <3>1. \/ jobs'[j] \in {Done(jobs[j]), Queued(jobs[j]), jobs[j]}
          \/ jobs'[j] = [jobs[j] EXCEPT !.since = @ \cup {k}]
          \/ jobs'[j] = [jobs[j] EXCEPT !.since = @ \ {k}]
      BY <2>6 DEF Complete, Requeue
    <3>2. jobs'[j].applied = 0 \/ jobs'[j].applied = jobs[j].applied
      BY <2>0, <3>1, ResultTyped DEF RebindJob
    <3> QED
      BY <2>0, <3>2 DEF RebindJob
  <2>3. ASSUME NEW h \in handlers, Store(h) \/ PreviewRetire(h) PROVE FALSE
    <3>1. \/ jobs'[j] \in {Planned(jobs[j]), jobs[j]}
          \/ jobs'[j] = [jobs[j] EXCEPT !.moved = @ \cup {h.job}]
          \/ jobs'[j] = [jobs[j] EXCEPT !.st = "failed"]
      BY <2>3 DEF Store, PreviewRetire
    <3>2. jobs'[j].applied = 0 \/ jobs'[j].applied = jobs[j].applied
      BY <2>0, <3>1, ResultTyped DEF RebindJob
    <3> QED
      BY <2>0, <3>2 DEF RebindJob
  <2>5. ASSUME NEW h \in handlers, Apply(h) PROVE jobs' # jobs /\ h.job = j
    BY <2>5 DEF Apply, RebindInv, RebindJob
  <2>7. \/ UNCHANGED jobs
        \/ \E k \in Jobs : Claim(k) \/ FailJob(k) \/ Complete(k) \/ Requeue(k)
        \/ \E h \in handlers : \/ InsertDiscovery(h) \/ PreviewInsert(h) \/ Store(h)
                               \/ PreviewRetire(h) \/ Apply(h)
    <3>1. ASSUME NEW kind \in {"discover", "test"}, Discover(kind) PROVE UNCHANGED jobs
      BY <3>1 DEF Discover
    <3>2. ASSUME NEW u \in Urls, EditForm(u) PROVE UNCHANGED jobs
      BY <3>2 DEF EditForm
    <3>3. CASE ReadSource \/ StartEdit \/ CancelEdit \/ SaveSource \/ ToggleSource
      BY <3>3 DEF ReadSource, StartEdit, CancelEdit, SaveSource, ToggleSource
    <3>4. ASSUME NEW k \in Jobs, ApplyPlan(k) PROVE UNCHANGED jobs
      BY <3>4 DEF ApplyPlan
    <3>5. ASSUME NEW h \in handlers, Put(h) \/ PreviewRead(h) \/ Lost(h) PROVE UNCHANGED jobs
      BY <3>5 DEF Put, PreviewRead, Lost
    <3>6. CASE UNCHANGED rebindVars
      BY <3>6 DEF rebindVars
    <3> QED
      BY <3>1, <3>2, <3>3, <3>4, <3>5, <3>6 DEF RebindNext
  <2>8. ~UNCHANGED jobs
    BY <2>0 DEF RebindJob
  <2> QED
    BY <2>1, <2>2, <2>3, <2>5, <2>6, <2>7, <2>8
<1>2. Applicable(j)
  BY <1>1 DEF Apply
<1>3. ASSUME NEW k \in jobs[j].moved PROVE jobs[k].st = "failed"
  <2>1. k \in Jobs /\ jobs[k].st \in {"absent", "pending", "claimed", "completed", "failed"}
    BY DEF RebindInv, RebindJob
  <2>2. jobs[k].st \notin {"pending", "claimed"}
    BY <1>2, <2>1 DEF Applicable, Live
  <2>3. jobs[k].st # "absent"
    BY DEF PlansInOrder
  <2>4. jobs[k].st # "completed"
    BY <1>2, <2>1 DEF Applicable, Newer, PlansInOrder
  <2> QED
    BY <2>1, <2>2, <2>3, <2>4
<1> QED
  BY <1>2, <1>3 DEF Applicable

\* A plan is applied once, and to the episodes it was made for (source_rebind.py:
\* 439-500): any job that has moved them since it was stored has been put back in the
\* queue afterwards and failed there, whatever the order of results, retries, undone
\* cancellations, saves and confirmations.
THEOREM PlansAreCurrent == RebindSpec => PlanIsCurrent
<1>1. RebindInit => RebindInv /\ PlansInOrder
  BY RebindInit1, PlansInit
<1>2. RebindInv /\ PlansInOrder /\ [RebindNext]_rebindVars => (RebindInv /\ PlansInOrder)'
  BY RebindStep, PlansStep
<1>3. RebindInv /\ PlansInOrder /\ [RebindNext]_rebindVars =>
          [\A j \in Jobs : jobs'[j].applied > jobs[j].applied =>
              /\ jobs[j].applied = 0
              /\ \A k \in jobs[j].moved : jobs[k].st = "failed"]_rebindVars
  BY AppliedIsCurrent
<1> QED
  BY <1>1, <1>2, <1>3, PTL DEF RebindSpec, PlanIsCurrent

=============================================================================
