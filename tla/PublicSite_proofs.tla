---------------------------- MODULE PublicSite_proofs ----------------------------
(***************************************************************************)
(* Theorems about the parts of the public site, for any tabs, episodes,    *)
(* searches, chunks and bounds.                                            *)
(***************************************************************************)
EXTENDS WatchedList, SearchPage, ContextPanel, SearchChoices, SavedClips,
        WellFoundedInduction, TLAPS

-----------------------------------------------------------------------------
(* The watched list.                                                       *)

WatchedTypeOK ==
    /\ key \in SUBSET Videos
    /\ memory \in [Tabs -> (SUBSET Videos) \cup {Unread}]
    /\ shown \in [Tabs -> SUBSET Videos]
    /\ counted \in [Tabs -> SUBSET Videos]
    /\ listed \in [Tabs -> SUBSET Videos]

\* The page of a tab that has read the key shows what its memory holds, unless it
\* has cleared since; what the last writer holds in memory is the key.
CopiesAgree ==
    \A t \in Tabs :
        /\ t \notin cleared /\ memory[t] # Unread => shown[t] = memory[t]
        /\ t \in aliased => memory[t] # Unread /\ shown[t] = memory[t]
        /\ t \in writer /\ memory[t] # Unread => key = memory[t]

WatchedInv == WatchedTypeOK /\ CopiesAgree /\ CountsFollowTicks

LEMMA WatchedInvInit == WatchedInit => WatchedInv
BY DEF WatchedInit, WatchedInv, WatchedTypeOK, CopiesAgree, CountsFollowTicks

\* A tab's memory, or the key, is a set of episodes.
LEMMA WatchedIsSet ==
    ASSUME WatchedTypeOK, NEW t \in Tabs
    PROVE  Watched(t) \in SUBSET Videos /\ Watched(t) # Unread
BY WatchedAssumption DEF WatchedTypeOK, Watched

\* Showing a set keeps the counts with the ticks, if a set that is in memory and
\* is already shown has only grown.
LEMMA ShowCounts ==
    ASSUME WatchedTypeOK, CountsFollowTicks, NEW t \in Tabs, NEW W \in SUBSET Videos,
           NEW inMemory \in BOOLEAN, Show(t, W, inMemory),
           inMemory /\ t \in aliased => shown[t] \subseteq W
    PROVE  /\ CountsFollowTicks'
           /\ shown' \in [Tabs -> SUBSET Videos]
           /\ counted' \in [Tabs -> SUBSET Videos] /\ listed' \in [Tabs -> SUBSET Videos]
           /\ shown'[t] = W /\ \A u \in Tabs : u # t => shown'[u] = shown[u]
           /\ \A u \in Tabs : u # t => (u \in aliased' <=> u \in aliased)
           /\ t \in aliased' <=> inMemory
<1>1. /\ shown' = [shown EXCEPT ![t] = W]
      /\ aliased' = IF inMemory THEN aliased \cup {t} ELSE aliased \ {t}
  BY DEF Show
<1>2. /\ shown' \in [Tabs -> SUBSET Videos] /\ shown'[t] = W
      /\ \A u \in Tabs : u # t => shown'[u] = shown[u]
      /\ \A u \in Tabs : u # t => (u \in aliased' <=> u \in aliased)
      /\ t \in aliased' <=> inMemory
  BY <1>1 DEF WatchedTypeOK
<1>3. CASE inMemory /\ t \in aliased
  <2>1. counted' = counted /\ listed' = listed
    BY <1>3 DEF Show
  <2> QED
    BY <1>2, <1>3, <2>1 DEF WatchedTypeOK, CountsFollowTicks
<1>4. CASE ~(inMemory /\ t \in aliased)
  <2>1. counted' = [counted EXCEPT ![t] = W] /\ listed' = [listed EXCEPT ![t] = W]
    BY <1>4 DEF Show
  <2>2. /\ counted' \in [Tabs -> SUBSET Videos] /\ listed' \in [Tabs -> SUBSET Videos]
        /\ counted'[t] = W /\ listed'[t] = W
        /\ \A u \in Tabs : u # t => counted'[u] = counted[u] /\ listed'[u] = listed[u]
    BY <2>1 DEF WatchedTypeOK
  <2> QED
    BY <1>2, <2>2 DEF CountsFollowTicks
<1> QED
  BY <1>2, <1>3, <1>4

LEMMA WatchedInvStep == WatchedInv /\ [WatchedNext]_watchedVars => WatchedInv'
<1> SUFFICES ASSUME WatchedInv, [WatchedNext]_watchedVars PROVE WatchedInv'
  OBVIOUS
<1>0. WatchedTypeOK /\ CopiesAgree /\ CountsFollowTicks
  BY DEF WatchedInv
<1>1. ASSUME NEW t \in Tabs, Mount(t) PROVE WatchedInv'
  <2>1. Watched(t) \in SUBSET Videos /\ Watched(t) # Unread
    BY <1>0, WatchedIsSet
  <2>2. /\ WatchedTypeOK'
        /\ memory'[t] = Watched(t) /\ shown'[t] = Watched(t)
        /\ counted'[t] = Watched(t) /\ listed'[t] = Watched(t)
        /\ \A u \in Tabs : u # t =>
             /\ memory'[u] = memory[u] /\ shown'[u] = shown[u]
             /\ counted'[u] = counted[u] /\ listed'[u] = listed[u]
        /\ aliased' = aliased \cup {t}
        /\ key' = key /\ cleared' = cleared /\ writer' = writer
    BY <1>0, <1>1, <2>1 DEF Mount, WatchedTypeOK
  <2>3. CountsFollowTicks'
    BY <1>0, <2>2 DEF CountsFollowTicks
  <2>4. t \in writer => key = Watched(t)
    BY <1>0 DEF CopiesAgree, Watched
  <2>5. CopiesAgree'
    BY <1>0, <2>1, <2>2, <2>4 DEF CopiesAgree
  <2> QED
    BY <2>2, <2>3, <2>5 DEF WatchedInv
<1>2. ASSUME NEW t \in Tabs, NEW v \in Videos, NEW ok \in BOOLEAN, ToggleWatched(t, v, ok)
      PROVE  WatchedInv'
  <2> DEFINE W == IF v \in Watched(t) THEN Watched(t) \ {v} ELSE Watched(t) \cup {v}
             S == IF v \in W THEN shown[t] \cup {v} ELSE shown[t] \ {v}
  <2>1. Watched(t) \in SUBSET Videos
    BY <1>0, WatchedIsSet
  <2>2. W \in SUBSET Videos /\ S \in SUBSET Videos
    BY <1>0, <2>1 DEF WatchedTypeOK
  <2>3. /\ memory[t] # Unread /\ cleared' = cleared
        /\ SaveWatched(t, W, ok) /\ Show(t, S, FALSE)
    BY <1>2 DEF ToggleWatched
  <2> HIDE DEF W, S
  <2>4. /\ memory' \in [Tabs -> (SUBSET Videos) \cup {Unread}] /\ key' \in SUBSET Videos
        /\ memory'[t] = W /\ W # Unread
        /\ \A u \in Tabs : u # t => memory'[u] = memory[u]
        /\ \/ key' = W /\ writer' = {t}
           \/ key' = key /\ writer' = writer \ {t}
    BY <1>0, <2>2, <2>3, WatchedAssumption DEF SaveWatched, WatchedTypeOK
  <2>5. /\ CountsFollowTicks'
        /\ shown' \in [Tabs -> SUBSET Videos]
        /\ counted' \in [Tabs -> SUBSET Videos] /\ listed' \in [Tabs -> SUBSET Videos]
        /\ shown'[t] = S /\ \A u \in Tabs : u # t => shown'[u] = shown[u]
        /\ \A u \in Tabs : u # t => (u \in aliased' <=> u \in aliased)
        /\ t \notin aliased'
    BY <1>0, <2>2, <2>3, ShowCounts
  <2>6. t \notin cleared => S = W
    <3> SUFFICES ASSUME t \notin cleared PROVE S = W
      OBVIOUS
    <3>1. shown[t] = Watched(t)
      BY <1>0, <2>3 DEF CopiesAgree, Watched
    <3> QED
      BY <3>1 DEF W, S
  <2>7. CopiesAgree'
    BY <1>0, <2>3, <2>4, <2>5, <2>6 DEF CopiesAgree
  <2> QED
    BY <2>4, <2>5, <2>7 DEF WatchedInv, WatchedTypeOK
<1>3. ASSUME NEW t \in Tabs, PickRows(t) PROVE WatchedInv'
  <2>1. /\ listed' = [listed EXCEPT ![t] = shown[t]]
        /\ key' = key /\ memory' = memory /\ shown' = shown /\ aliased' = aliased
        /\ counted' = counted /\ cleared' = cleared /\ writer' = writer
    BY <1>3 DEF PickRows
  <2>2. /\ listed' \in [Tabs -> SUBSET Videos] /\ listed'[t] = shown[t]
        /\ \A u \in Tabs : u # t => listed'[u] = listed[u]
    BY <1>0, <2>1 DEF WatchedTypeOK
  <2> QED
    BY <1>0, <2>1, <2>2 DEF WatchedInv, WatchedTypeOK, CopiesAgree, CountsFollowTicks
<1>4. ASSUME NEW t \in Tabs, ClearWatched(t) PROVE WatchedInv'
  <2>1. /\ key' = {} /\ memory' = memory /\ writer' = {}
        /\ cleared' = cleared \cup {t} /\ Show(t, {}, FALSE)
    BY <1>4 DEF ClearWatched
  <2>2. /\ CountsFollowTicks'
        /\ shown' \in [Tabs -> SUBSET Videos]
        /\ counted' \in [Tabs -> SUBSET Videos] /\ listed' \in [Tabs -> SUBSET Videos]
        /\ \A u \in Tabs : u # t => shown'[u] = shown[u]
        /\ \A u \in Tabs : u # t => (u \in aliased' <=> u \in aliased)
        /\ t \notin aliased'
    BY <1>0, <2>1, ShowCounts
  <2> QED
    BY <1>0, <2>1, <2>2 DEF WatchedInv, WatchedTypeOK, CopiesAgree
<1>5. ASSUME NEW t \in Tabs, NEW V \in SUBSET Videos, NEW ok \in BOOLEAN, ImportWatched(t, V, ok)
      PROVE  WatchedInv'
  <2> DEFINE W == Watched(t) \cup V
  <2>1. Watched(t) \in SUBSET Videos
    BY <1>0, WatchedIsSet
  <2>2. W \in SUBSET Videos
    BY <2>1
  <2>3. /\ memory[t] # Unread /\ cleared' = cleared \ {t}
        /\ SaveWatched(t, W, ok) /\ Show(t, W, TRUE)
    BY <1>5 DEF ImportWatched
  <2>4. t \in aliased => shown[t] \subseteq W
    BY <1>0, <2>3 DEF CopiesAgree, Watched
  <2> HIDE DEF W
  <2>5. /\ memory' \in [Tabs -> (SUBSET Videos) \cup {Unread}] /\ key' \in SUBSET Videos
        /\ memory'[t] = W /\ W # Unread
        /\ \A u \in Tabs : u # t => memory'[u] = memory[u]
        /\ \/ key' = W /\ writer' = {t}
           \/ key' = key /\ writer' = writer \ {t}
    BY <1>0, <2>2, <2>3, WatchedAssumption DEF SaveWatched, WatchedTypeOK
  <2>6. /\ CountsFollowTicks'
        /\ shown' \in [Tabs -> SUBSET Videos]
        /\ counted' \in [Tabs -> SUBSET Videos] /\ listed' \in [Tabs -> SUBSET Videos]
        /\ shown'[t] = W /\ \A u \in Tabs : u # t => shown'[u] = shown[u]
        /\ \A u \in Tabs : u # t => (u \in aliased' <=> u \in aliased)
    BY <1>0, <2>2, <2>3, <2>4, ShowCounts
  <2>7. CopiesAgree'
    BY <1>0, <2>3, <2>5, <2>6 DEF CopiesAgree
  <2> QED
    BY <2>5, <2>6, <2>7 DEF WatchedInv, WatchedTypeOK
<1>6. ASSUME NEW t \in Tabs, ReloadTab(t) PROVE WatchedInv'
  <2>1. /\ memory' = [memory EXCEPT ![t] = Unread] /\ Show(t, {}, FALSE)
        /\ cleared' = cleared \ {t} /\ key' = key /\ writer' = writer
    BY <1>6 DEF ReloadTab
  <2>2. /\ memory' \in [Tabs -> (SUBSET Videos) \cup {Unread}] /\ memory'[t] = Unread
        /\ \A u \in Tabs : u # t => memory'[u] = memory[u]
    BY <1>0, <2>1 DEF WatchedTypeOK
  <2>3. /\ CountsFollowTicks'
        /\ shown' \in [Tabs -> SUBSET Videos]
        /\ counted' \in [Tabs -> SUBSET Videos] /\ listed' \in [Tabs -> SUBSET Videos]
        /\ \A u \in Tabs : u # t => shown'[u] = shown[u]
        /\ \A u \in Tabs : u # t => (u \in aliased' <=> u \in aliased)
        /\ t \notin aliased'
    BY <1>0, <2>1, ShowCounts
  <2> QED
    BY <1>0, <2>1, <2>2, <2>3 DEF WatchedInv, WatchedTypeOK, CopiesAgree
<1>7. CASE UNCHANGED watchedVars
  BY <1>0, <1>7 DEF watchedVars, pageState, WatchedInv, WatchedTypeOK, CopiesAgree, CountsFollowTicks
<1> QED
  BY <1>1, <1>2, <1>3, <1>4, <1>5, <1>6, <1>7
     DEF WatchedNext, ChooseFilter, ChooseSite, ChoosePodcast, SortRows

\* For any tabs and episodes, whatever is clicked, imported, cleared and reloaded
\* and whichever writes fail, the last tab to write shows what a reload shows
\* (watchlist.ts, saveWatchedSet).
THEOREM WatchedIsKept == WatchedSpec => []ReloadKeepsWatched
<1>1. WatchedInv => ReloadKeepsWatched
  BY DEF WatchedInv, CopiesAgree, ReloadKeepsWatched
<1> QED
  BY <1>1, WatchedInvInit, WatchedInvStep, PTL DEF WatchedSpec

\* What a page counts and lists as watched is never more than it ticks, and is
\* that unless it shows the object in memory (WatchlistPage.tsx, useMemo).
THEOREM CountsAreTicks == WatchedSpec => []CountsFollowTicks
<1>1. WatchedInv => CountsFollowTicks
  BY DEF WatchedInv
<1> QED
  BY <1>1, WatchedInvInit, WatchedInvStep, PTL DEF WatchedSpec

-----------------------------------------------------------------------------
(* The page of results.                                                     *)

Requests == [search : Searches \cup {Nothing}, page : 1..MaxPages, append : BOOLEAN]
Pages == [search : Searches \cup {Nothing}, page : 1..MaxPages]

PageTypeOK ==
    /\ input \in Searches \cup {Nothing}
    /\ searching \in BOOLEAN /\ loadingMore \in BOOLEAN /\ overtaken \in BOOLEAN
    /\ results \in Seq(Pages)
    /\ total \in 0..MaxPages /\ page \in 1..MaxPages
    /\ flights \in [Slots -> Requests \cup {Nothing}]

\* A request that adds nothing asks for the first page.
FirstPages == \A s \in Slots : flights[s] # Nothing /\ ~flights[s].append => flights[s].page = 1

\* As long as nothing was overtaken one request at most is under way, and the page
\* knows of it.
OneAtATime ==
    /\ \A r, s \in Slots : flights[r] # Nothing /\ flights[s] # Nothing => r = s
    /\ \A s \in Slots : flights[s] # Nothing => searching \/ loadingMore

\* The pages shown are the first ones.  The one under way is the next one; with
\* none under way, the last one shown is the one that was asked for last, unless
\* there are no more.
PagesFit ==
    /\ \A i \in DOMAIN results : results[i].page = i
    /\ \A s \in Slots : flights[s] # Nothing /\ flights[s].append =>
                            flights[s].page = Len(results) + 1 /\ page = flights[s].page
    /\ (\A s \in Slots : flights[s] = Nothing) /\ results # <<>> =>
            Len(results) = page \/ Len(results) >= total

PageInv == PageTypeOK /\ FirstPages /\ (~overtaken => OneAtATime /\ PagesFit)

LEMMA FirstBounds == 1 \in 1..MaxPages /\ 0 \in 0..MaxPages
BY PageAssumption

LEMMA PageInvInit == PageInit => PageInv
<1> SUFFICES ASSUME PageInit PROVE PageInv
  OBVIOUS
<1>1. \A s \in Slots : flights[s] = Nothing
  BY DEF PageInit
<1>2. results = <<>> /\ results \in Seq(Pages)
  BY DEF PageInit
<1>3. PageTypeOK
  BY <1>2, FirstBounds DEF PageInit, PageTypeOK
<1> QED
  BY <1>1, <1>2, <1>3 DEF PageInv, FirstPages, OneAtATime, PagesFit

\* A request that leaves is in a place that was free, and the others stay.
LEMMA FetchTakesSlot ==
    ASSUME PageTypeOK, NEW n \in 1..MaxPages, NEW a \in BOOLEAN, Fetch(n, a)
    PROVE  /\ flights' \in [Slots -> Requests \cup {Nothing}]
           /\ \E s \in Slots :
                /\ flights[s] = Nothing
                /\ flights'[s] = [search |-> input, page |-> n, append |-> a]
                /\ flights'[s] # Nothing
                /\ \A r \in Slots : r # s => flights'[r] = flights[r]
<1> DEFINE q == [search |-> input, page |-> n, append |-> a]
           s == CHOOSE s \in Slots : flights[s] = Nothing
<1>1. q \in Requests /\ q # Nothing
  BY PageAssumption DEF PageTypeOK, Requests
<1>2. s \in Slots /\ flights[s] = Nothing
  BY DEF Fetch, UnderWay
<1>3. flights' = [flights EXCEPT ![s] = q]
  BY DEF Fetch
<1> HIDE DEF q, s
<1>4. /\ flights' \in [Slots -> Requests \cup {Nothing}] /\ flights'[s] = q
      /\ \A r \in Slots : r # s => flights'[r] = flights[r]
  BY <1>1, <1>2, <1>3 DEF PageTypeOK
<1> QED
  BY <1>1, <1>2, <1>4 DEF q

\* An answer or a failure frees its place, and the others stay.
LEMMA LandFreesSlot ==
    ASSUME PageTypeOK, NEW s \in Slots, Land(s)
    PROVE  /\ flights' \in [Slots -> Requests \cup {Nothing}] /\ flights'[s] = Nothing
           /\ \A r \in Slots : r # s => flights'[r] = flights[r]
           /\ searching' = FALSE /\ loadingMore' = FALSE
BY DEF PageTypeOK, Land

LEMMA PageInvStep == PageInv /\ [PageNext]_pageVars => PageInv'
<1> SUFFICES ASSUME PageInv, [PageNext]_pageVars PROVE PageInv'
  OBVIOUS
<1>0. PageTypeOK /\ FirstPages /\ (~overtaken => OneAtATime /\ PagesFit)
  BY DEF PageInv
<1> USE PageAssumption DEF PageInv
<1>1. ASSUME NEW t \in Searches \cup {Nothing}, Edit(t) PROVE PageInv'
  BY <1>0, <1>1 DEF Edit, PageTypeOK, FirstPages, OneAtATime, PagesFit, Slots
<1>2. CASE Submit
  <2>1. PICK s \in Slots :
            /\ flights[s] = Nothing
            /\ flights'[s] = [search |-> input, page |-> 1, append |-> FALSE]
            /\ flights'[s] # Nothing
            /\ \A r \in Slots : r # s => flights'[r] = flights[r]
    BY <1>0, <1>2, FetchTakesSlot, FirstBounds DEF Submit
  <2>2. flights' \in [Slots -> Requests \cup {Nothing}]
    BY <1>0, <1>2, FetchTakesSlot, FirstBounds DEF Submit
  <2>3. PageTypeOK'
    BY <1>0, <1>2, <2>2 DEF Submit, PageTypeOK, Slots
  <2>4. FirstPages'
    BY <1>0, <2>1 DEF FirstPages, Slots
  <2>5. ~overtaken' => ~overtaken /\ \A r \in Slots : flights[r] = Nothing
    BY <1>0, <1>2 DEF Submit, UnderWay, PageTypeOK
  <2>6. ~overtaken' => OneAtATime'
    BY <1>2, <2>1, <2>5 DEF Submit, OneAtATime, Slots
  <2>7. ~overtaken' => PagesFit'
    BY <1>0, <1>2, <2>1, <2>5 DEF Submit, PagesFit, Slots
  <2> QED
    BY <2>3, <2>4, <2>6, <2>7
<1>3. CASE SubmitNothing
  <2>1. ~overtaken' => \A r \in Slots : flights'[r] = Nothing
    BY <1>0, <1>3 DEF SubmitNothing, UnderWay, PageTypeOK
  <2>2. PageTypeOK' /\ FirstPages'
    <3>1. results' \in Seq(Pages)
      BY <1>3 DEF SubmitNothing
    <3> QED
      BY <1>0, <1>3, <3>1, FirstBounds DEF SubmitNothing, PageTypeOK, FirstPages, Slots
  <2>3. results' = <<>>
    BY <1>3 DEF SubmitNothing
  <2> QED
    BY <2>1, <2>2, <2>3 DEF OneAtATime, PagesFit, Slots
<1>4. CASE LoadMore
  <2>1. page + 1 \in 1..MaxPages
    BY <1>0, <1>4 DEF LoadMore, PageTypeOK
  <2>2. PICK s \in Slots :
            /\ flights[s] = Nothing
            /\ flights'[s] = [search |-> input, page |-> page + 1, append |-> TRUE]
            /\ flights'[s] # Nothing
            /\ \A r \in Slots : r # s => flights'[r] = flights[r]
    BY <1>0, <1>4, <2>1, FetchTakesSlot DEF LoadMore
  <2>3. flights' \in [Slots -> Requests \cup {Nothing}]
    BY <1>0, <1>4, <2>1, FetchTakesSlot DEF LoadMore
  <2>4. PageTypeOK'
    BY <1>0, <1>4, <2>1, <2>3 DEF LoadMore, PageTypeOK, Slots
  <2>5. FirstPages'
    BY <1>0, <2>2 DEF FirstPages, Slots
  <2>6. ~overtaken => \A r \in Slots : flights[r] = Nothing
    BY <1>0, <1>4 DEF LoadMore, MoreEnabled, MoreOffered, OneAtATime
  <2>7. ~overtaken => Len(results) = page
    <3>1. Len(results) < total /\ results # <<>>
      BY <1>4 DEF LoadMore, MoreEnabled, MoreOffered
    <3>2. Len(results) \in Nat /\ total \in Nat
      BY <1>0 DEF PageTypeOK
    <3> QED
      BY <1>0, <2>6, <3>1, <3>2 DEF PagesFit
  <2>8. /\ overtaken' = overtaken /\ results' = results /\ page' = page + 1
        /\ loadingMore' = TRUE
    BY <1>4 DEF LoadMore
  <2>9. ~overtaken' => OneAtATime'
    BY <2>2, <2>6, <2>8 DEF OneAtATime, Slots
  <2>10. ~overtaken' => PagesFit'
    BY <1>0, <2>2, <2>6, <2>7, <2>8 DEF PagesFit, Slots
  <2> QED
    BY <2>4, <2>5, <2>9, <2>10
<1>5. ASSUME NEW s \in Slots, NEW n \in 0..MaxPages, Answer(s, n) PROVE PageInv'
  <2> DEFINE r == flights[s]
             hits == IF r.page <= n THEN <<[search |-> r.search, page |-> r.page]>> ELSE <<>>
  <2>1. /\ r # Nothing /\ Land(s) /\ total' = n /\ input' = input
        /\ \/ r.append /\ results' = results \o hits /\ page' = page /\ overtaken' = overtaken
           \/ ~r.append /\ results' = hits /\ page' = 1 /\ overtaken' = (UnderWay # {s})
    BY <1>5 DEF Answer
  <2>2. /\ flights' \in [Slots -> Requests \cup {Nothing}] /\ flights'[s] = Nothing
        /\ \A u \in Slots : u # s => flights'[u] = flights[u]
        /\ searching' = FALSE /\ loadingMore' = FALSE
    BY <1>0, <2>1, LandFreesSlot
  <2>3. r \in Requests
    BY <1>0, <2>1 DEF PageTypeOK
  <2>4. hits \in Seq(Pages)
    <3>1. [search |-> r.search, page |-> r.page] \in Pages
      BY <2>3 DEF Requests, Pages
    <3> HIDE DEF r
    <3> QED
      BY <3>1
  <2>5. PageTypeOK'
    <3>1. results' \in Seq(Pages)
      <4>1. results \in Seq(Pages)
        BY <1>0 DEF PageTypeOK
      <4> HIDE DEF r, hits
      <4>2. results \o hits \in Seq(Pages)
        BY <2>4, <4>1
      <4> QED
        BY <2>1, <2>4, <4>2
    <3>2. page' \in 1..MaxPages
      BY <1>0, <2>1, FirstBounds DEF PageTypeOK
    <3>3. overtaken' \in BOOLEAN
      BY <1>0, <2>1 DEF PageTypeOK
    <3> QED
      BY <1>0, <2>1, <2>2, <3>1, <3>2, <3>3 DEF PageTypeOK, Slots
  <2>6. FirstPages'
    BY <1>0, <2>2 DEF FirstPages, Slots
  <2>7. ~overtaken' => \A u \in Slots : flights'[u] = Nothing
    <3>1. CASE ~r.append
      BY <2>1, <2>2, <3>1 DEF UnderWay
    <3>2. CASE r.append
      BY <1>0, <2>1, <2>2, <3>2 DEF OneAtATime
    <3> QED
      BY <3>1, <3>2
  <2>8. ~overtaken' => OneAtATime'
    BY <2>7 DEF OneAtATime, Slots
  <2>9. ~overtaken' => PagesFit'
    <3>1. CASE ~r.append
      <4>1. r.page = 1 /\ results' = hits /\ page' = 1
        BY <1>0, <2>1, <3>1 DEF FirstPages
      <4>2. results' = <<>> \/ results' = <<[search |-> r.search, page |-> 1]>>
        BY <4>1
      <4> QED
        BY <2>7, <4>1, <4>2 DEF PagesFit, Slots
    <3>2. CASE r.append /\ ~overtaken
      <4>1. /\ r.page = Len(results) + 1 /\ page = r.page
            /\ \A i \in DOMAIN results : results[i].page = i
        BY <1>0, <2>1, <3>2 DEF PagesFit
      <4>2. results' = results \o hits /\ page' = page /\ total' = n
        BY <2>1, <3>2
      <4>3. Len(results) \in Nat /\ DOMAIN results = 1..Len(results)
        BY <1>0 DEF PageTypeOK
      <4>4. CASE r.page <= n
        <5>1. results' = Append(results, [search |-> r.search, page |-> r.page])
          BY <1>0, <4>2, <4>4 DEF PageTypeOK
        <5>2. /\ Len(results') = page' /\ DOMAIN results' = 1..page'
              /\ \A i \in DOMAIN results' : results'[i].page = i
          BY <1>0, <4>1, <4>2, <4>3, <5>1 DEF PageTypeOK
        <5> QED
          BY <2>7, <5>2 DEF PagesFit, Slots
      <4>5. CASE ~(r.page <= n)
        <5>1. results' = results
          BY <1>0, <4>2, <4>5 DEF PageTypeOK
        <5>2. Len(results') >= total'
          BY <2>3, <4>1, <4>2, <4>3, <4>5, <5>1 DEF Requests
        <5> QED
          BY <2>7, <4>1, <5>1, <5>2 DEF PagesFit, Slots
      <4> QED
        BY <4>4, <4>5
    <3> QED
      BY <2>1, <3>1, <3>2
  <2> QED
    BY <2>5, <2>6, <2>8, <2>9
<1>6. ASSUME NEW s \in Slots, Fail(s) PROVE PageInv'
  <2>1. /\ flights[s] # Nothing /\ Land(s) /\ results' = <<>> /\ total' = 0
        /\ input' = input /\ page' = page /\ overtaken' = overtaken
    BY <1>6 DEF Fail
  <2>2. /\ flights' \in [Slots -> Requests \cup {Nothing}] /\ flights'[s] = Nothing
        /\ \A u \in Slots : u # s => flights'[u] = flights[u]
        /\ searching' = FALSE /\ loadingMore' = FALSE
    BY <1>0, <2>1, LandFreesSlot
  <2>3. PageTypeOK' /\ FirstPages'
    <3>1. results' \in Seq(Pages)
      BY <2>1
    <3> QED
      BY <1>0, <2>1, <2>2, <3>1, FirstBounds DEF PageTypeOK, FirstPages, Slots
  <2>4. ~overtaken' => \A u \in Slots : flights'[u] = Nothing
    BY <1>0, <2>1, <2>2 DEF OneAtATime
  <2> QED
    BY <2>1, <2>3, <2>4 DEF OneAtATime, PagesFit, Slots
<1>7. CASE ResetPage
  <2>1. ~overtaken' => \A r \in Slots : flights'[r] = Nothing
    BY <1>0, <1>7 DEF ResetPage, UnderWay, PageTypeOK
  <2>2. PageTypeOK' /\ FirstPages'
    <3>1. results' \in Seq(Pages)
      BY <1>7 DEF ResetPage
    <3> QED
      BY <1>0, <1>7, <3>1, FirstBounds DEF ResetPage, PageTypeOK, FirstPages, Slots
  <2>3. results' = <<>>
    BY <1>7 DEF ResetPage
  <2> QED
    BY <2>1, <2>2, <2>3 DEF OneAtATime, PagesFit, Slots
<1>8. CASE ReloadPage(input)
  <2>1. \A s \in Slots : flights'[s] = Nothing
    BY <1>8 DEF ReloadPage
  <2>2. results' = <<>> /\ results' \in Seq(Pages)
    BY <1>8 DEF ReloadPage
  <2>3. PageTypeOK'
    BY <1>0, <1>8, <2>2, FirstBounds DEF ReloadPage, PageTypeOK, Slots
  <2> QED
    BY <2>1, <2>2, <2>3 DEF FirstPages, OneAtATime, PagesFit, Slots
<1>9. CASE UNCHANGED pageVars
  BY <1>0, <1>9 DEF pageVars, PageTypeOK, FirstPages, OneAtATime, PagesFit, Slots
<1> QED
  BY <1>1, <1>2, <1>3, <1>4, <1>5, <1>6, <1>7, <1>8, <1>9 DEF PageNext

\* For any searches, any number of pages and of requests under way, in whatever
\* order they are answered and whichever fail: unless a search or a reset went past
\* a request, the pages shown are the first ones in order (page.tsx, performSearch).
THEOREM PagesAreFirst == PageSpec => []PagesInOrder
<1>1. PageInv => PagesInOrder
  BY DEF PageInv, PagesFit, PagesInOrder
<1> QED
  BY <1>1, PageInvInit, PageInvStep, PTL DEF PageSpec

-----------------------------------------------------------------------------
(* The context of a result.                                                  *)

Places == 1..MaxFetches

ContextTypeOK ==
    /\ before \in 0..MaxNeighbours /\ after \in 0..MaxNeighbours
    /\ radius \in Nat
    /\ fetches \in [Places -> Nat]

\* Each wider window is asked for once, none wider than the page knows of; a page
\* that shows none asks for the first.
FetchedOnce ==
    /\ \A s \in Places : fetches[s] <= radius
    /\ \A r, s \in Places : fetches[s] > Step /\ fetches[r] = fetches[s] => r = s
    /\ data = NoData => radius = Step

\* The window shown is one that was asked for, and no other like it will come.
ShownOnce ==
    data # NoData =>
        \E R \in Nat :
            /\ R <= radius /\ data = Window(R)
            /\ \A s \in Places : fetches[s] > Step => fetches[s] # R

ContextInv == ContextTypeOK /\ (view = "card" => FetchedOnce /\ ShownOnce)

LEMMA ContextInvInit == ContextInit => ContextInv
BY ContextAssumption
   DEF ContextInit, ContextInv, ContextTypeOK, FetchedOnce, ShownOnce, Places

LEMMA WindowIsData ==
    ASSUME NEW r \in Nat, ContextTypeOK
    PROVE  Window(r) # NoData
<1>1. /\ Least(r, before) \in 0..MaxNeighbours /\ Least(r, after) \in 0..MaxNeighbours
  BY ContextAssumption DEF ContextTypeOK, Least
<1>2. (r < before) \in BOOLEAN /\ (r < after) \in BOOLEAN
  OBVIOUS
<1> QED
  BY <1>1, <1>2, ContextAssumption DEF Window

\* A wider window than the one shown keeps its buttons, or has reached the edge.
LEMMA MergeIsWindow ==
    ASSUME ContextTypeOK, NEW r \in Nat, NEW R \in Nat, data = Window(R),
           r > Step => r # R
    PROVE  Merge(r) = Window(r)
<1>1. CASE r <= Step
  BY <1>1, ContextAssumption DEF Merge
<1>2. CASE r > Step
  <2>1. /\ r < before => Least(r, before) # Least(R, before)
        /\ r < after => Least(r, after) # Least(R, after)
    BY <1>2 DEF ContextTypeOK, Least
  <2> QED
    <3> DEFINE w == Window(r)
    <3>1. /\ w.moreBefore /\ w.left # data.left <=> w.moreBefore
          /\ w.moreAfter /\ w.right # data.right <=> w.moreAfter
      BY <2>1 DEF Window
    <3>2. /\ (w.moreBefore /\ w.left # data.left) = w.moreBefore
          /\ (w.moreAfter /\ w.right # data.right) = w.moreAfter
      <4>1. w.moreBefore \in BOOLEAN /\ w.moreAfter \in BOOLEAN
        BY DEF Window
      <4> HIDE DEF w
      <4> QED
        BY <3>1, <4>1
    <3>3. [w EXCEPT !.moreBefore = w.moreBefore, !.moreAfter = w.moreAfter] = w
      BY DEF Window
    <3>4. Merge(r) = w \/ Merge(r) = [w EXCEPT !.moreBefore = @ /\ w.left # data.left,
                                              !.moreAfter = @ /\ w.right # data.right]
      BY DEF Merge
    <3> HIDE DEF w
    <3> QED
      BY <3>2, <3>3, <3>4 DEF w
<1> QED
  BY <1>1, <1>2, ContextAssumption

\* A fetch that leaves is in a place that was free, and the others stay.
LEMMA FetchTakesPlace ==
    ASSUME ContextTypeOK, NEW r \in Nat, FetchContext(r)
    PROVE  /\ fetches' \in [Places -> Nat]
           /\ \E s \in Places :
                /\ fetches'[s] = r
                /\ \A u \in Places : u # s => fetches'[u] = fetches[u]
<1> DEFINE s == CHOOSE s \in DOMAIN fetches : fetches[s] = 0
<1>1. s \in Places /\ fetches' = [fetches EXCEPT ![s] = r]
  BY DEF FetchContext, ContextTypeOK
<1> HIDE DEF s
<1> QED
  BY <1>1 DEF ContextTypeOK

LEMMA ContextInvStep == ContextInv /\ [ContextNext]_contextVars => ContextInv'
<1> SUFFICES ASSUME ContextInv, [ContextNext]_contextVars PROVE ContextInv'
  OBVIOUS
<1>0. ContextTypeOK /\ (view = "card" => FetchedOnce /\ ShownOnce)
  BY DEF ContextInv
<1>a. Step \in Nat /\ Step > 0
  BY ContextAssumption
<1>1. CASE Expand
  <2>1. CASE data = NoData
    <3>1. /\ FetchContext(radius) /\ radius' = radius /\ data' = data /\ view' = view
          /\ before' = before /\ after' = after
      BY <1>1, <2>1 DEF Expand
    <3>2. fetches' \in [Places -> Nat]
      BY <1>0, <3>1, FetchTakesPlace DEF ContextTypeOK
    <3>3. PICK s \in Places :
              /\ fetches'[s] = radius
              /\ \A u \in Places : u # s => fetches'[u] = fetches[u]
      BY <1>0, <3>1, FetchTakesPlace DEF ContextTypeOK
    <3>4. ContextTypeOK'
      BY <1>0, <3>1, <3>2 DEF ContextTypeOK, Places
    <3>5. view = "card" => FetchedOnce'
      BY <1>0, <1>a, <2>1, <3>1, <3>2, <3>3 DEF FetchedOnce, ContextTypeOK, Places
    <3> QED
      BY <2>1, <3>1, <3>4, <3>5 DEF ContextInv, ShownOnce
  <2>2. CASE data # NoData
    BY <1>0, <1>1, <2>2
       DEF Expand, ContextInv, ContextTypeOK, FetchedOnce, ShownOnce, Places, Window
  <2> QED
    BY <2>1, <2>2
<1>2. CASE Collapse
  BY <1>0, <1>2 DEF Collapse, ContextInv, ContextTypeOK, FetchedOnce, ShownOnce, Places, Window
<1>3. CASE Widen
  <2>1. /\ data # NoData /\ FetchContext(radius + Step) /\ radius' = radius + Step
        /\ data' = data /\ view' = view /\ before' = before /\ after' = after
    BY <1>3 DEF Widen, Visible
  <2>2. radius + Step \in Nat /\ radius + Step > radius
    BY <1>0, <1>a DEF ContextTypeOK
  <2>3. fetches' \in [Places -> Nat]
    BY <1>0, <2>1, <2>2, FetchTakesPlace
  <2>4. PICK s \in Places :
            /\ fetches'[s] = radius + Step
            /\ \A u \in Places : u # s => fetches'[u] = fetches[u]
    BY <1>0, <2>1, <2>2, FetchTakesPlace
  <2>5. ContextTypeOK'
    BY <1>0, <2>1, <2>2, <2>3 DEF ContextTypeOK, Places
  <2>6. ASSUME view = "card" PROVE FetchedOnce'
    <3>1. \A u \in Places : fetches[u] <= radius /\ fetches[u] \in Nat
      BY <1>0, <2>6 DEF FetchedOnce, ContextTypeOK
    <3>2. \A u \in Places : fetches'[u] <= radius'
      BY <1>0, <1>a, <2>1, <2>2, <2>4, <3>1 DEF ContextTypeOK
    <3>3. ASSUME NEW u \in Places, NEW v \in Places, fetches'[u] > Step, fetches'[v] = fetches'[u]
          PROVE  u = v
      BY <1>0, <2>2, <2>4, <2>6, <3>1, <3>3 DEF FetchedOnce, ContextTypeOK
    <3> QED
      BY <2>1, <3>2, <3>3 DEF FetchedOnce, Places
  <2>7. ASSUME view = "card" PROVE ShownOnce'
    <3>1. PICK R \in Nat : /\ R <= radius /\ data = Window(R)
                           /\ \A u \in Places : fetches[u] > Step => fetches[u] # R
      BY <1>0, <2>1, <2>7 DEF ShownOnce
    <3>2. /\ R <= radius' /\ data' = Window(R)'
          /\ \A u \in Places : fetches'[u] > Step => fetches'[u] # R
      BY <1>0, <1>a, <2>1, <2>2, <2>4, <3>1 DEF Window, ContextTypeOK
    <3> QED
      BY <3>2 DEF ShownOnce, Places
  <2> QED
    BY <2>1, <2>5, <2>6, <2>7 DEF ContextInv
<1>4. ASSUME NEW s \in DOMAIN fetches, Arrive(s) PROVE ContextInv'
  <2>1. s \in Places /\ fetches[s] \in Nat
    BY <1>0, <1>4 DEF ContextTypeOK
  <2>2. /\ fetches' = [fetches EXCEPT ![s] = 0] /\ data' = Merge(fetches[s])
        /\ radius' = IF view = "saved" THEN fetches[s] ELSE radius
        /\ view' = view /\ before' = before /\ after' = after
    BY <1>4 DEF Arrive
  <2>3. /\ fetches' \in [Places -> Nat] /\ fetches'[s] = 0
        /\ \A u \in Places : u # s => fetches'[u] = fetches[u]
    BY <1>0, <2>1, <2>2 DEF ContextTypeOK
  <2>4. ContextTypeOK'
    BY <1>0, <2>1, <2>2, <2>3 DEF ContextTypeOK, Places
  <2>5. ASSUME view = "card" PROVE FetchedOnce' /\ ShownOnce'
    <3>1. FetchedOnce /\ ShownOnce /\ radius' = radius
      BY <1>0, <2>2, <2>5
    <3>2. Merge(fetches[s]) = Window(fetches[s])
      <4>1. CASE data = NoData
        BY <4>1 DEF Merge
      <4>2. CASE data # NoData
        <5>1. PICK R \in Nat : /\ data = Window(R)
                               /\ \A u \in Places : fetches[u] > Step => fetches[u] # R
          BY <3>1, <4>2 DEF ShownOnce
        <5> QED
          BY <1>0, <2>1, <5>1, MergeIsWindow
      <4> QED
        BY <4>1, <4>2
    <3>3. data' # NoData /\ data' = Window(fetches[s])
      BY <1>0, <2>1, <2>2, <3>2, WindowIsData
    <3>4. \A u \in Places : u # s /\ fetches[u] > Step => fetches[u] # fetches[s]
      BY <2>1, <3>1 DEF FetchedOnce
    <3>5. fetches[s] <= radius /\ 0 <= radius
      BY <1>0, <2>1, <3>1 DEF FetchedOnce, ContextTypeOK
    <3>6. FetchedOnce'
      BY <1>0, <1>a, <2>3, <3>1, <3>3, <3>5 DEF FetchedOnce, ContextTypeOK, Places
    <3>7. ShownOnce'
      <4> DEFINE R == fetches[s]
      <4>1. R \in Nat /\ R <= radius' /\ data' = Window(R)
        BY <2>1, <3>1, <3>3, <3>5
      <4>2. \A u \in Places : fetches'[u] > Step => fetches'[u] # R
        BY <1>a, <2>3, <3>4
      <4> HIDE DEF R
      <4> QED
        BY <2>2, <4>1, <4>2 DEF ShownOnce, Places, Window
    <3> QED
      BY <3>6, <3>7
  <2> QED
    BY <2>2, <2>4, <2>5 DEF ContextInv
<1>5. ASSUME NEW s \in DOMAIN fetches, FailContext(s) PROVE ContextInv'
  <2>1. s \in Places
    BY <1>0, <1>5 DEF ContextTypeOK
  <2>2. /\ fetches' = [fetches EXCEPT ![s] = 0] /\ data' = data /\ radius' = radius
        /\ view' = view /\ before' = before /\ after' = after
    BY <1>5 DEF FailContext
  <2>3. /\ fetches' \in [Places -> Nat] /\ fetches'[s] = 0
        /\ \A u \in Places : u # s => fetches'[u] = fetches[u]
    BY <1>0, <2>1, <2>2 DEF ContextTypeOK
  <2>4. ContextTypeOK'
    BY <1>0, <2>2, <2>3 DEF ContextTypeOK, Places
  <2>5. view = "card" => FetchedOnce'
    BY <1>0, <1>a, <2>2, <2>3 DEF FetchedOnce, ContextTypeOK, Places
  <2>6. view = "card" => ShownOnce'
    BY <1>0, <1>a, <2>2, <2>3 DEF ShownOnce, Places, Window
  <2> QED
    BY <2>2, <2>4, <2>5, <2>6 DEF ContextInv
<1>6. CASE Unmount
  <2>1. /\ data' = NoData /\ radius' = Step /\ fetches' = [s \in Places |-> 0]
        /\ view' = view /\ before' = before /\ after' = after
    BY <1>6 DEF Unmount, Fresh, Places
  <2> QED
    BY <1>0, <1>a, <2>1 DEF ContextInv, ContextTypeOK, FetchedOnce, ShownOnce, Places
<1>7. CASE UNCHANGED contextVars
  BY <1>0, <1>7
     DEF contextVars, ContextInv, ContextTypeOK, FetchedOnce, ShownOnce, Places, Window
<1> QED
  BY <1>1, <1>2, <1>3, <1>4, <1>5, <1>6, <1>7 DEF ContextNext

\* For any steps, limits and episodes, and in whatever order the fetches of a
\* result are answered or fail: on each side the button is there exactly as long as
\* the window has not reached the end of the episode (SearchResultCard.tsx).
THEOREM ContextIsReachable == ContextSpec => []MoreOfferedUntilEdge
<1>1. ContextInv => MoreOfferedUntilEdge
  <2> SUFFICES ASSUME ContextInv, view = "card", data # NoData
               PROVE  /\ data.moreBefore <=> data.left < before
                      /\ data.moreAfter <=> data.right < after
    BY DEF MoreOfferedUntilEdge
  <2>1. ContextTypeOK
    BY DEF ContextInv
  <2>2. PICK R \in Nat : data = Window(R)
    BY DEF ContextInv, ShownOnce
  <2>3. /\ data.left = Least(R, before) /\ data.right = Least(R, after)
        /\ data.moreBefore = (R < before) /\ data.moreAfter = (R < after)
    BY <2>2 DEF Window
  <2>4. (R < before <=> Least(R, before) < before) /\ (R < after <=> Least(R, after) < after)
    BY <2>1 DEF ContextTypeOK, Least
  <2> QED
    BY <2>3, <2>4
<1> QED
  BY <1>1, ContextInvInit, ContextInvStep, PTL DEF ContextSpec

-----------------------------------------------------------------------------
(* The choices of the search page.                                         *)

ChoicesTypeOK ==
    /\ ready \in BOOLEAN /\ choice \in Choices /\ local \in Choices
    /\ address \in Queries /\ params \in Queries
    /\ dates \in Dates \cup {NoDates}
    /\ stored \in (SUBSET Podcasts) \cup {Unset} /\ cookie \in (SUBSET Podcasts) \cup {Unset}
    /\ writable \in BOOLEAN /\ mine \in BOOLEAN

\* Once the page is ready, the address leaves out what is as by default: it is written at
\* once, whichever of the effects changed a choice.
AddressFollows == ready =>
    /\ address.text = Trim(choice.text)
    /\ address.range = choice.range /\ address.group = choice.group
    /\ address.podcasts = IF choice.podcasts = Enabled THEN {} ELSE choice.podcasts

\* The queries have the dates of the search bar, unless the logo has taken them
\* out: picking others always changes the query of the last render.
DatesFollow == params.dates \in {dates, NoDates} /\ address.dates \in {dates, NoDates}

\* What the address leaves out of the podcasts, the preferences of this tab fill in.
PreferencesFollow ==
    ready /\ mine /\ address.podcasts = {} =>
        choice.podcasts = IF Preferred(stored, cookie) # Unset THEN Preferred(stored, cookie) ELSE Enabled

ChoicesInv == ChoicesTypeOK /\ AddressFollows /\ DatesFollow /\ PreferencesFollow

\* The address is as the page writes it, and the modal's copies are choices.
LEMMA WrittenType ==
    ASSUME NEW c \in Choices, NEW q \in Queries
    PROVE  /\ Written(c, q) \in Queries /\ Copies(c) \in Choices
           /\ Written(c, q).text = Trim(c.text) /\ Written(c, q).range = c.range
           /\ Written(c, q).group = c.group /\ Written(c, q).dates = q.dates
           /\ Written(c, q).podcasts = IF c.podcasts = Enabled THEN {} ELSE c.podcasts
BY DEF Written, Copies, Choices, Queries, Inputs, Empty, Trim

LEMMA RestoredType ==
    ASSUME ChoicesTypeOK, NEW q \in Queries, NEW p \in (SUBSET Podcasts) \cup {Unset}, NEW c \in Choices
    PROVE  Restored(q, p, c) \in Choices
BY ChoicesAssumption DEF Restored, Choices, Queries

LEMMA DefaultsType ==
    Mounted \in Choices /\ Reset \in Choices /\ NoQuery \in Queries /\ NoQuery.dates = NoDates
BY ChoicesAssumption
   DEF Defaults, Mounted, Reset, Known, NoQuery, Choices, Queries, Ranges, Groups, Inputs, Empty

\* The effects of a render keep the address and the preferences with the choices.
LEMMA EffectsFollow ==
    ASSUME ChoicesInv, NEW c \in Choices, NEW q \in Queries, NEW selects \in BOOLEAN,
           Effects(c, q, selects), ready' = ready, writable' = writable,
           cookie' = cookie \/ (selects /\ cookie' = Migrated),
           selects \/ c.podcasts = choice.podcasts
    PROVE  /\ choice' \in Choices /\ local' \in Choices /\ address' \in Queries
           /\ stored' \in (SUBSET Podcasts) \cup {Unset} /\ mine' \in BOOLEAN
           /\ cookie' \in (SUBSET Podcasts) \cup {Unset}
           /\ AddressFollows' /\ PreferencesFollow' /\ address'.dates = q.dates
<1>0. ChoicesTypeOK /\ AddressFollows /\ PreferencesFollow
  BY DEF ChoicesInv
<1>1. choice' = c /\ local' \in {Copies(c), local}
  BY DEF Effects
<1>a. CASE ~ready
  <2>1. address' = q /\ stored' = stored /\ mine' = mine
    BY <1>a DEF Effects
  <2> QED
    BY <1>0, <1>1, <1>a, <2>1, WrittenType
       DEF ChoicesTypeOK, Migrated, AddressFollows, PreferencesFollow
<1>b. CASE ready
  <2>1. /\ address' = Written(c, q)
        /\ stored' = IF selects /\ writable THEN c.podcasts ELSE stored
        /\ mine' = IF selects THEN writable \/ (mine /\ c.podcasts = choice.podcasts) ELSE mine
    BY <1>b DEF Effects
  <2>2. c.podcasts \in SUBSET Podcasts /\ c.podcasts # Unset
    BY UnsetAssumption DEF Choices
  <2>3. /\ choice' \in Choices /\ local' \in Choices /\ address' \in Queries
        /\ stored' \in (SUBSET Podcasts) \cup {Unset} /\ mine' \in BOOLEAN
        /\ cookie' \in (SUBSET Podcasts) \cup {Unset}
    BY <1>0, <1>1, <2>1, <2>2, WrittenType DEF ChoicesTypeOK, Migrated
  <2>4. AddressFollows' /\ address'.dates = q.dates
    BY <1>1, <2>1, WrittenType DEF AddressFollows
  <2>5. PreferencesFollow'
    <3>1. CASE selects /\ writable
      <4>1. Preferred(stored', cookie') = c.podcasts
        BY <2>1, <2>2, <3>1 DEF Preferred
      <4> QED
        BY <1>1, <2>2, <4>1 DEF PreferencesFollow
    <3>2. CASE ~(selects /\ writable)
      <4>1. stored' = stored /\ cookie' = cookie
        BY <2>1, <3>2 DEF Migrated
      <4>2. mine' => mine /\ c.podcasts = choice.podcasts
        BY <2>1, <3>2
      <4>3. c.podcasts = choice.podcasts => address'.podcasts = address.podcasts
        BY <1>0, <1>1, <1>b, <2>4 DEF AddressFollows
      <4> QED
        BY <1>0, <1>1, <1>b, <4>1, <4>2, <4>3 DEF PreferencesFollow
    <3> QED
      BY <3>1, <3>2
  <2> QED
    BY <2>3, <2>4, <2>5
<1> QED
  BY <1>a, <1>b DEF ChoicesInv, ChoicesTypeOK

\* So does following the router to a query.
LEMMA FollowFollows ==
    ASSUME ChoicesInv, NEW q \in Queries, q # params, Follow(q),
           ready' = ready, writable' = writable
    PROVE  /\ choice' \in Choices /\ local' \in Choices /\ address' \in Queries
           /\ params' = q
           /\ stored' \in (SUBSET Podcasts) \cup {Unset} /\ mine' \in BOOLEAN
           /\ cookie' \in (SUBSET Podcasts) \cup {Unset}
           /\ AddressFollows' /\ PreferencesFollow' /\ address'.dates = q.dates
<1> DEFINE c == Restored(q, Preferred(stored, cookie), choice)
<1>1. params' = q
  BY DEF Follow
<1>2. c \in Choices
  BY RestoredType DEF ChoicesInv, ChoicesTypeOK, Preferred
<1>3. CASE ready
  <2>1. Effects(c, q, TRUE) /\ cookie' = Migrated
    BY <1>3 DEF Follow
  <2> HIDE DEF c
  <2> QED
    BY <1>1, <1>2, <2>1, EffectsFollow
<1>4. CASE ~ready
  <2>1. choice' = choice /\ address' = q /\ UNCHANGED <<local, stored, mine, cookie>>
    BY <1>4 DEF Follow
  <2> QED
    BY <1>1, <1>4, <2>1 DEF ChoicesInv, ChoicesTypeOK, AddressFollows, PreferencesFollow
<1> QED
  BY <1>3, <1>4

\* A page opened has nothing yet to keep.
LEMMA LoadFollows ==
    ASSUME ChoicesInv, NEW q \in Queries, Load(q)
    PROVE  ChoicesInv'
<1>1. ChoicesTypeOK
  BY DEF ChoicesInv
<1>2. /\ ready' = FALSE /\ choice' = Mounted /\ local' = Copies(Mounted)
      /\ dates' = q.dates /\ params' = q /\ address' = q /\ mine' = TRUE
      /\ UNCHANGED <<stored, cookie, writable>>
  BY DEF Load
<1>3. q.dates \in Dates \cup {NoDates}
  BY DEF Queries
<1>4. Copies(Mounted) \in Choices
  BY DefaultsType, WrittenType
<1> QED
  BY <1>1, <1>2, <1>3, <1>4, DefaultsType
     DEF ChoicesInv, ChoicesTypeOK, AddressFollows, DatesFollow, PreferencesFollow

\* The podcasts arrive: what is restored is written to the address and the preferences.
LEMMA ArrivalFollows ==
    ASSUME ChoicesInv, PodcastsArrive
    PROVE  ChoicesInv'
<1> DEFINE c == Restored(params, Preferred(stored, cookie), choice)
<1>0. ChoicesTypeOK /\ DatesFollow
  BY DEF ChoicesInv
<1>1. /\ ready' = TRUE /\ choice' = c /\ local' = Copies(c) /\ address' = Written(c, address)
      /\ stored' = IF writable THEN c.podcasts ELSE stored
      /\ mine' = (writable \/ params.podcasts = {})
      /\ cookie' = Migrated /\ UNCHANGED <<dates, params, writable>>
  BY DEF PodcastsArrive
<1>2. c \in Choices
  BY <1>0, RestoredType DEF ChoicesTypeOK, Preferred
<1>3. c.podcasts = IF params.podcasts # {} THEN params.podcasts
                   ELSE IF Preferred(stored, cookie) # Unset THEN Preferred(stored, cookie) ELSE Enabled
  BY DEF Restored
<1> HIDE DEF c
<1>4. c.podcasts \in SUBSET Podcasts /\ c.podcasts # Unset
  BY <1>2, UnsetAssumption DEF Choices
<1>5. /\ address' \in Queries /\ local' \in Choices /\ address'.dates = address.dates
      /\ AddressFollows'
  BY <1>0, <1>1, <1>2, WrittenType DEF ChoicesTypeOK, AddressFollows
<1>6. ChoicesTypeOK' /\ DatesFollow'
  BY <1>0, <1>1, <1>2, <1>4, <1>5 DEF ChoicesTypeOK, DatesFollow, Migrated
<1>7. PreferencesFollow'
  <2>1. CASE writable
    <3>1. Preferred(stored', cookie') = c.podcasts
      BY <1>1, <1>4, <2>1 DEF Preferred
    <3> QED
      BY <1>1, <1>4, <3>1 DEF PreferencesFollow
  <2>2. CASE ~writable
    <3>1. stored' = stored /\ cookie' = cookie
      BY <1>1, <2>2 DEF Migrated
    <3> QED
      BY <1>1, <1>3, <2>2, <3>1 DEF PreferencesFollow
  <2> QED
    BY <2>1, <2>2
<1> QED
  BY <1>5, <1>6, <1>7 DEF ChoicesInv

LEMMA ChoicesInvInit == ChoicesInit => ChoicesInv
<1> SUFFICES ASSUME ChoicesInit PROVE ChoicesInv
  OBVIOUS
<1>1. /\ ready = FALSE /\ choice = Mounted /\ local = Copies(Mounted)
      /\ dates = NoDates /\ mine = TRUE /\ address = params /\ writable \in BOOLEAN
  BY DEF ChoicesInit
<1>2. params \in Queries /\ params.dates = NoDates
  <2>1. Empty \in Inputs
    BY DEF Empty, Inputs
  <2> QED
    BY <2>1 DEF ChoicesInit, Queries, Ranges, Groups
<1>3. /\ stored \in (SUBSET Podcasts) \cup {Unset}
      /\ cookie \in (SUBSET Podcasts) \cup {Unset}
  BY DEF ChoicesInit
<1>4. Mounted \in Choices /\ Copies(Mounted) \in Choices
  BY DefaultsType, WrittenType
<1> QED
  BY <1>1, <1>2, <1>3, <1>4
     DEF ChoicesInv, ChoicesTypeOK, AddressFollows, DatesFollow, PreferencesFollow

LEMMA ChoicesInvStep == ChoicesInv /\ [ChoicesNext]_choiceVars => ChoicesInv'
<1> SUFFICES ASSUME ChoicesInv, [ChoicesNext]_choiceVars PROVE ChoicesInv'
  OBVIOUS
<1>0. ChoicesTypeOK /\ AddressFollows /\ DatesFollow /\ PreferencesFollow
  BY DEF ChoicesInv
<1>a. ASSUME NEW c \in Choices, NEW selects \in BOOLEAN, Effects(c, address, selects),
             selects \/ c.podcasts = choice.podcasts,
             UNCHANGED <<ready, dates, params, cookie, writable>>
      PROVE  ChoicesInv'
  <2>1. /\ choice' \in Choices /\ local' \in Choices /\ address' \in Queries
        /\ stored' \in (SUBSET Podcasts) \cup {Unset} /\ mine' \in BOOLEAN
        /\ cookie' \in (SUBSET Podcasts) \cup {Unset}
        /\ AddressFollows' /\ PreferencesFollow' /\ address'.dates = address.dates
    <3>1. address \in Queries /\ ready' = ready /\ writable' = writable /\ cookie' = cookie
      BY <1>0, <1>a DEF ChoicesTypeOK
    <3> QED
      BY <1>a, <3>1, EffectsFollow
  <2> QED
    BY <1>0, <1>a, <2>1 DEF ChoicesInv, ChoicesTypeOK, DatesFollow
<1>1. ASSUME NEW t \in Inputs, Type(t) PROVE ChoicesInv'
  <2>1. [choice EXCEPT !.text = t] \in Choices /\ [choice EXCEPT !.text = t].podcasts = choice.podcasts
    BY <1>0 DEF ChoicesTypeOK, Choices
  <2> QED
    BY <1>1, <1>a, <2>1 DEF Type
<1>2. ASSUME NEW p \in Enabled, PickPodcast(p) PROVE ChoicesInv'
  <2>1. [choice EXCEPT !.podcasts = IF AllMode THEN {p} ELSE Flip(@, p)] \in Choices
    BY <1>0, ChoicesAssumption DEF ChoicesTypeOK, Choices, Flip
  <2> QED
    BY <1>2, <1>a, <2>1 DEF PickPodcast
<1>3. CASE PickAll
  <2>1. [choice EXCEPT !.podcasts = {}] \in Choices
    BY <1>0 DEF ChoicesTypeOK, Choices
  <2> QED
    BY <1>3, <1>a, <2>1 DEF PickAll
<1>4. ASSUME NEW r \in Ranges, PickRange(r) PROVE ChoicesInv'
  <2>1. [choice EXCEPT !.range = r] \in Choices /\ [choice EXCEPT !.range = r].podcasts = choice.podcasts
    BY <1>0 DEF ChoicesTypeOK, Choices
  <2> QED
    BY <1>4, <1>a, <2>1 DEF PickRange
<1>5. ASSUME NEW g \in Groups, PickGroup(g) PROVE ChoicesInv'
  <2>1. [choice EXCEPT !.group = g] \in Choices /\ [choice EXCEPT !.group = g].podcasts = choice.podcasts
    BY <1>0 DEF ChoicesTypeOK, Choices
  <2> QED
    BY <1>5, <1>a, <2>1 DEF PickGroup
<1>6. ASSUME NEW d \in Dates, PickDates(d) PROVE ChoicesInv'
  <2> DEFINE q == [params EXCEPT !.dates = d]
  <2>1. q \in Queries /\ q.dates = d
    BY <1>0 DEF ChoicesTypeOK, Queries
  <2>2. q # params
    BY <1>0, <1>6, <2>1, ChoicesAssumption DEF PickDates, DatesFollow
  <2>3. Follow(q) /\ dates' = d /\ ready' = ready /\ writable' = writable
    BY <1>6 DEF PickDates
  <2> HIDE DEF q
  <2>4. /\ choice' \in Choices /\ local' \in Choices /\ address' \in Queries
        /\ params' = q
        /\ stored' \in (SUBSET Podcasts) \cup {Unset} /\ mine' \in BOOLEAN
        /\ cookie' \in (SUBSET Podcasts) \cup {Unset}
        /\ AddressFollows' /\ PreferencesFollow' /\ address'.dates = q.dates
    BY <2>1, <2>2, <2>3, FollowFollows
  <2> QED
    BY <1>0, <2>1, <2>3, <2>4 DEF ChoicesInv, ChoicesTypeOK, DatesFollow
<1>7. CASE Sync
  <2>1. address \in Queries /\ address # params /\ Follow(address) /\ UNCHANGED <<ready, dates, writable>>
    BY <1>0, <1>7 DEF Sync, ChoicesTypeOK
  <2>2. /\ choice' \in Choices /\ local' \in Choices /\ address' \in Queries
        /\ params' = address
        /\ stored' \in (SUBSET Podcasts) \cup {Unset} /\ mine' \in BOOLEAN
        /\ cookie' \in (SUBSET Podcasts) \cup {Unset}
        /\ AddressFollows' /\ PreferencesFollow' /\ address'.dates = address.dates
    BY <2>1, FollowFollows
  <2> QED
    BY <1>0, <2>1, <2>2 DEF ChoicesInv, ChoicesTypeOK, DatesFollow
<1>8. CASE OpenModal \/ Dismiss
  BY <1>0, <1>8 DEF OpenModal, Dismiss, ChoicesInv, ChoicesTypeOK, AddressFollows, DatesFollow, PreferencesFollow
<1>9. CASE EditModal
  <2>1. local' \in Choices
    <3>1. Empty \in Inputs
      BY DEF Empty, Inputs
    <3>2. Known \subseteq Podcasts /\ Known \in SUBSET Podcasts
      BY ChoicesAssumption DEF Known
    <3>3. \A p \in Known : Flip(local.podcasts, p) \in SUBSET Podcasts
      BY <1>0, <3>2 DEF Flip, ChoicesTypeOK, Choices
    <3>4. TickPodcasts \subseteq Choices
      BY <1>0, <3>2, <3>3 DEF TickPodcasts, ChoicesTypeOK, Choices
    <3>5. TickRange \subseteq Choices /\ TickGroup \subseteq Choices
      BY <1>0 DEF TickRange, TickGroup, ChoicesTypeOK, Choices
    <3>6. ResetModal \subseteq Choices
      BY <3>1, <3>2 DEF ResetModal, Copies, Reset, Defaults, Choices, Ranges, Groups
    <3> QED
      BY <1>9, <3>4, <3>5, <3>6 DEF EditModal
  <2> QED
    BY <1>0, <1>9, <2>1 DEF EditModal, ChoicesInv, ChoicesTypeOK, AddressFollows, DatesFollow, PreferencesFollow
<1>10. CASE ApplyFilters
  <2> DEFINE c == [local EXCEPT !.text = choice.text]
             q == IF c.range = "custom" THEN [params EXCEPT !.dates = dates] ELSE address
  <2>1. c \in Choices
    BY <1>0 DEF ChoicesTypeOK, Choices
  <2>2. q \in Queries /\ q.dates \in {dates, NoDates}
    BY <1>0 DEF ChoicesTypeOK, Queries, DatesFollow
  <2>3. Effects(c, q, TRUE) /\ UNCHANGED <<ready, dates, params, cookie, writable>>
    BY <1>10 DEF ApplyFilters
  <2> HIDE DEF c, q
  <2>4. /\ choice' \in Choices /\ local' \in Choices /\ address' \in Queries
        /\ stored' \in (SUBSET Podcasts) \cup {Unset} /\ mine' \in BOOLEAN
        /\ cookie' \in (SUBSET Podcasts) \cup {Unset}
        /\ AddressFollows' /\ PreferencesFollow' /\ address'.dates = q.dates
    <3>1. ready' = ready /\ writable' = writable /\ cookie' = cookie
      BY <2>3
    <3> QED
      BY <2>1, <2>2, <2>3, <3>1, EffectsFollow
  <2> QED
    BY <1>0, <2>2, <2>3, <2>4 DEF ChoicesInv, ChoicesTypeOK, DatesFollow
<1>11. CASE LogoReset
  <2> DEFINE saved == IF writable THEN Enabled ELSE Preferred(stored, cookie)
             c == IF ready /\ params # NoQuery THEN Restored(NoQuery, saved, Reset) ELSE Reset
  <2>1. c \in Choices
    <3>1. saved \in (SUBSET Podcasts) \cup {Unset}
      BY <1>0, ChoicesAssumption DEF ChoicesTypeOK, Preferred
    <3> QED
      BY <1>0, <3>1, DefaultsType, RestoredType
  <2>2. Effects(c, NoQuery, TRUE) /\ params' = NoQuery /\ UNCHANGED <<ready, dates, cookie, writable>>
    BY <1>11 DEF LogoReset
  <2> HIDE DEF c
  <2>3. /\ choice' \in Choices /\ local' \in Choices /\ address' \in Queries
        /\ stored' \in (SUBSET Podcasts) \cup {Unset} /\ mine' \in BOOLEAN
        /\ cookie' \in (SUBSET Podcasts) \cup {Unset}
        /\ AddressFollows' /\ PreferencesFollow' /\ address'.dates = NoQuery.dates
    <3>1. ready' = ready /\ writable' = writable /\ cookie' = cookie
      BY <2>2
    <3> QED
      BY <2>1, <2>2, <3>1, DefaultsType, EffectsFollow
  <2> QED
    BY <1>0, <2>2, <2>3, DefaultsType DEF ChoicesInv, ChoicesTypeOK, DatesFollow
<1>12. CASE Reload
  BY <1>0, <1>12, LoadFollows DEF Reload, ChoicesTypeOK
<1>13. ASSUME NEW p \in Enabled, OtherTab({p}) PROVE ChoicesInv'
  BY <1>0, <1>13, ChoicesAssumption
     DEF OtherTab, ChoicesInv, ChoicesTypeOK, AddressFollows, DatesFollow, PreferencesFollow
<1>14. CASE PodcastsArrive
  BY <1>14, ArrivalFollows
<1>15. CASE UNCHANGED choiceVars
  BY <1>0, <1>15 DEF choiceVars, ChoicesInv, ChoicesTypeOK, AddressFollows, DatesFollow, PreferencesFollow
<1> QED
  BY <1>1, <1>2, <1>3, <1>4, <1>5, <1>6, <1>7, <1>8, <1>9, <1>10, <1>11, <1>12, <1>13, <1>14, <1>15
     DEF ChoicesNext

\* What a reload restores from the address and the preferences.
LEMMA ReloadRestores == ChoicesInv => ReloadKeepsChoices
<1> SUFFICES ASSUME ChoicesInv, ready PROVE ReloadKeepsChoices
  BY DEF ReloadKeepsChoices
<1>1. ChoicesTypeOK /\ AddressFollows /\ PreferencesFollow
  BY DEF ChoicesInv
<1> DEFINE c == Restored(address, Preferred(stored, cookie), Mounted)
<1>2. c.text = Trim(choice.text) /\ c.range = choice.range /\ c.group = choice.group
  BY <1>1 DEF Restored, Mounted, AddressFollows
<1>3. address.podcasts # {} => c.podcasts = choice.podcasts
  BY <1>1 DEF Restored, AddressFollows
<1>4. mine /\ address.podcasts = {} => c.podcasts = choice.podcasts
  BY <1>1 DEF Restored, PreferencesFollow
<1> QED
  BY <1>2, <1>3, <1>4 DEF ReloadKeepsChoices

\* For any podcasts, texts and dates, whenever the podcasts arrive and whatever is then
\* typed, picked, applied, followed, reset or saved by another tab, a reload restores what
\* the page shows, as ReloadKeepsChoices says (page.tsx, updateURL and the effect on
\* searchParams).
THEOREM ChoicesSurviveReload == ChoicesSpec => []ReloadKeepsChoices
<1>1. ChoicesSpec => []ChoicesInv
  BY ChoicesInvInit, ChoicesInvStep, PTL DEF ChoicesSpec
<1> QED
  BY <1>1, ReloadRestores, PTL

-----------------------------------------------------------------------------
(* The saved clips.                                                        *)

\* Induction over the naturals, for a set.
LEMMA NatSetInduction ==
    ASSUME NEW S, 0 \in S, \A n \in Nat : n \in S => n + 1 \in S
    PROVE  Nat \subseteq S
<1>1. IsWellFoundedOn({p \in Nat \X Nat : p[1] < p[2]}, Nat)
  BY NatLessThanWellFounded DEF OpToRel
<1> SUFFICES ASSUME NEW m \in Nat, m \notin S PROVE FALSE
  OBVIOUS
<1> DEFINE T == Nat \ S
           R == {p \in Nat \X Nat : p[1] < p[2]}
<1>2. T \subseteq Nat /\ T # {}
  OBVIOUS
<1> HIDE DEF T, R
<1>3. PICK n \in T : \A k \in T : <<k, n>> \notin R
  BY <1>1, <1>2, WFMin DEF R
<1>4. n \in Nat /\ n # 0 /\ n - 1 \in Nat /\ n - 1 \notin S
  BY <1>3 DEF T
<1>5. <<n - 1, n>> \in R
  BY <1>4 DEF R
<1> QED
  BY <1>3, <1>4, <1>5 DEF T

ClipRecords == [clip : Clips, note : Notes]

\* One step of the recursion of Without, from the values f of the shorter lists.
KeptUpTo(L, c, n, f) ==
    [i \in 0..n |-> IF i = 0 THEN <<>>
                    ELSE IF L[i].clip = c THEN f[i - 1]
                    ELSE Append(f[i - 1], L[i])]

\* The recursion of Without defines a function.
LEMMA KeptExists ==
    ASSUME NEW L, NEW c
    PROVE  \A n \in Nat : \E f : f = KeptUpTo(L, c, n, f)
<1> DEFINE S == {n \in Nat : \E f : f = KeptUpTo(L, c, n, f)}
<1>1. 0 \in S
  <2> DEFINE f == [i \in 0..0 |-> <<>>]
  <2>1. f = KeptUpTo(L, c, 0, f)
    BY DEF KeptUpTo
  <2> QED
    BY <2>1
<1>2. ASSUME NEW n \in Nat, n \in S PROVE n + 1 \in S
  <2>1. PICK f : f = KeptUpTo(L, c, n, f)
    BY <1>2
  <2> DEFINE last == IF L[n + 1].clip = c THEN f[n] ELSE Append(f[n], L[n + 1])
             g == [i \in 0..(n + 1) |-> IF i = n + 1 THEN last ELSE f[i]]
  <2>2. \A i \in 0..n : f[i] = IF i = 0 THEN <<>> ELSE IF L[i].clip = c THEN f[i - 1] ELSE Append(f[i - 1], L[i])
    BY <2>1 DEF KeptUpTo
  <2>3. \A i \in 0..n : g[i] = f[i]
    OBVIOUS
  <2>4. ASSUME NEW i \in 0..(n + 1)
        PROVE  g[i] = IF i = 0 THEN <<>> ELSE IF L[i].clip = c THEN g[i - 1] ELSE Append(g[i - 1], L[i])
    <3>1. CASE i = n + 1
      <4>1. g[i] = last /\ i - 1 = n /\ i # 0 /\ g[i - 1] = f[n]
        BY <3>1, <2>3
      <4> HIDE DEF g
      <4> QED
        BY <3>1, <4>1
    <3>2. CASE i \in 0..n
      <4>1. g[i] = f[i] /\ (i # 0 => g[i - 1] = f[i - 1])
        BY <3>2, <2>3
      <4> HIDE DEF g
      <4> QED
        BY <3>2, <4>1, <2>2
    <3> QED
      BY <3>1, <3>2
  <2>5. g = KeptUpTo(L, c, n + 1, g)
    <3>1. g = [i \in 0..(n + 1) |-> g[i]]
      OBVIOUS
    <3> HIDE DEF g
    <3> QED
      BY <3>1, <2>4 DEF KeptUpTo
  <2> QED
    BY <2>5
<1> HIDE DEF S
<1>3. Nat \subseteq S
  BY <1>1, <1>2, NatSetInduction
<1> QED
  BY <1>3 DEF S

\* What Without returns, by the length of what it has looked at.
LEMMA WithoutOf ==
    ASSUME NEW L \in Seq(ClipRecords), NEW c \in Clips
    PROVE  LET W == Without(L, c)
           IN  /\ W \in Seq(ClipRecords) /\ Len(W) <= Len(L)
               /\ IdsOf(W) = IdsOf(L) \ {c}
               /\ Len(W) = Len(L) => W = L /\ c \notin IdsOf(L)
<1> DEFINE f == CHOOSE f : f = KeptUpTo(L, c, Len(L), f)
<1>0. Len(L) \in Nat /\ DOMAIN L = 1..Len(L) /\ \A i \in 1..Len(L) : L[i] \in ClipRecords
  OBVIOUS
<1>1. f = KeptUpTo(L, c, Len(L), f)
  BY <1>0, KeptExists
<1>2. Without(L, c) = f[Len(L)]
  BY DEF Without, KeptUpTo
<1> HIDE DEF f
<1>3. /\ f[0] = <<>>
      /\ \A i \in 1..Len(L) : f[i] = IF L[i].clip = c THEN f[i - 1] ELSE Append(f[i - 1], L[i])
  <2>1. \A i \in 0..Len(L) : f[i] = IF i = 0 THEN <<>>
                                   ELSE IF L[i].clip = c THEN f[i - 1] ELSE Append(f[i - 1], L[i])
    BY <1>0, <1>1 DEF KeptUpTo
  <2>2. 0 \in 0..Len(L) /\ \A i \in 1..Len(L) : i \in 0..Len(L) /\ i # 0
    BY <1>0
  <2> QED
    BY <2>1, <2>2
<1> DEFINE P(n) == /\ f[n] \in Seq(ClipRecords) /\ Len(f[n]) <= n
                   /\ {f[n][i].clip : i \in 1..Len(f[n])} = {L[i].clip : i \in 1..n} \ {c}
                   /\ Len(f[n]) = n => \A i \in 1..n : f[n][i] = L[i] /\ L[i].clip # c
           S == {n \in Nat : n <= Len(L) => P(n)}
<1>4. 0 \in S
  <2>1. P(0)
    BY <1>3
  <2> HIDE DEF P
  <2> QED
    BY <2>1
<1>5. ASSUME NEW n \in Nat, n \in S PROVE n + 1 \in S
  <2> SUFFICES ASSUME n + 1 <= Len(L) PROVE P(n + 1)
    <3> HIDE DEF P
    <3> QED
      OBVIOUS
  <2>0. P(n)
    <3> HIDE DEF P
    <3> QED
      BY <1>0, <1>5
  <2>1. P(n) /\ n + 1 \in 1..Len(L) /\ n = (n + 1) - 1
    <3> HIDE DEF P
    <3> QED
      BY <1>0, <2>0
  <2> DEFINE r == L[n + 1]
             g == f[n]
             h == f[n + 1]
  <2>2. h = IF r.clip = c THEN g ELSE Append(g, r)
    BY <1>3, <2>1
  <2>3. r \in ClipRecords /\ {L[i].clip : i \in 1..(n + 1)} = {L[i].clip : i \in 1..n} \cup {r.clip}
    <3>1. 1..(n + 1) = (1..n) \cup {n + 1}
      OBVIOUS
    <3> QED
      BY <1>0, <2>1, <3>1
  <2>4. g \in Seq(ClipRecords) /\ Len(g) <= n /\ Len(g) \in Nat
    BY <2>1
  <2>5. CASE r.clip = c
    <3>1. h = g /\ Len(h) # n + 1
      BY <2>2, <2>4, <2>5
    <3>2. {g[i].clip : i \in 1..Len(g)} = {L[i].clip : i \in 1..n} \ {c}
      BY <2>1
    <3>3. {h[i].clip : i \in 1..Len(h)} = {L[i].clip : i \in 1..(n + 1)} \ {c}
      <4> HIDE DEF g, h, r
      <4>1. {L[i].clip : i \in 1..(n + 1)} \ {c} = {L[i].clip : i \in 1..n} \ {c}
        BY <2>3, <2>5
      <4> QED
        BY <3>1, <3>2, <4>1
    <3>4. h \in Seq(ClipRecords) /\ Len(h) <= n + 1
      <4> HIDE DEF g, h
      <4> QED
        BY <2>4, <3>1
    <3> QED
      BY <3>1, <3>3, <3>4
  <2>6. CASE r.clip # c
    <3> HIDE DEF r, g
    <3>1. h = Append(g, r)
      BY <2>2, <2>6
    <3> HIDE DEF h
    <3>2. /\ h \in Seq(ClipRecords) /\ Len(h) = Len(g) + 1
          /\ h[Len(g) + 1] = r /\ \A i \in 1..Len(g) : h[i] = g[i]
      BY <2>3, <2>4, <3>1
    <3>3. {h[i].clip : i \in 1..Len(h)} = {g[i].clip : i \in 1..Len(g)} \cup {r.clip}
      <4>1. 1..Len(h) = (1..Len(g)) \cup {Len(g) + 1}
        BY <2>4, <3>2
      <4> QED
        BY <3>2, <4>1
    <3>4. {g[i].clip : i \in 1..Len(g)} = {L[i].clip : i \in 1..n} \ {c}
      BY <2>1 DEF g
    <3>5. {h[i].clip : i \in 1..Len(h)} = {L[i].clip : i \in 1..(n + 1)} \ {c}
      BY <2>3, <2>6, <3>3, <3>4
    <3>6. Len(h) = n + 1 => \A i \in 1..(n + 1) : h[i] = L[i] /\ L[i].clip # c
      <4> SUFFICES ASSUME Len(h) = n + 1, NEW i \in 1..(n + 1) PROVE h[i] = L[i] /\ L[i].clip # c
        OBVIOUS
      <4>1. Len(g) = n
        BY <2>4, <3>2
      <4>2. CASE i = n + 1
        BY <2>6, <3>2, <4>1, <4>2 DEF r
      <4>3. CASE i \in 1..n
        BY <2>1, <3>2, <4>1, <4>3 DEF g
      <4> QED
        BY <4>2, <4>3
    <3> QED
      <4>1. h \in Seq(ClipRecords) /\ Len(h) <= n + 1
        BY <2>4, <3>2
      <4> QED
        BY <3>5, <3>6, <4>1 DEF h
  <2> QED
    BY <2>5, <2>6
<1> HIDE DEF S
<1>6. Nat \subseteq S
  BY <1>4, <1>5, NatSetInduction
<1>7. P(Len(L))
  <2> HIDE DEF P
  <2> QED
    BY <1>0, <1>6 DEF S
<1> HIDE DEF P
<1> DEFINE W == f[Len(L)]
<1>8. W \in Seq(ClipRecords) /\ Len(W) <= Len(L) /\ IdsOf(W) = IdsOf(L) \ {c}
  <2>1. DOMAIN W = 1..Len(W) /\ DOMAIN L = 1..Len(L)
    BY <1>0, <1>7 DEF P
  <2>2. IdsOf(W) = {W[i].clip : i \in 1..Len(W)} /\ IdsOf(L) = {L[i].clip : i \in 1..Len(L)}
    BY <2>1 DEF IdsOf
  <2> QED
    BY <1>7, <2>2 DEF P
<1>9. Len(W) = Len(L) => W = L /\ c \notin IdsOf(L)
  <2> SUFFICES ASSUME Len(W) = Len(L) PROVE W = L /\ c \notin IdsOf(L)
    OBVIOUS
  <2>1. \A i \in 1..Len(L) : W[i] = L[i] /\ L[i].clip # c
    BY <1>7 DEF P
  <2> HIDE DEF W
  <2>2. c \notin IdsOf(L)
    BY <1>0, <2>1 DEF IdsOf
  <2>3. W = L
    BY <1>0, <1>8, <2>1
  <2> QED
    BY <2>2, <2>3
<1> QED
  BY <1>2, <1>8, <1>9

ClipLists == {L \in Seq(ClipRecords) : Len(L) <= Cap}

ClipsTypeOK ==
    /\ list \in ClipLists \cup {NoList}
    /\ legacy \in ClipLists \cup {NoList}
    /\ marked \in [Views -> SUBSET Clips]
    /\ editing \in [Views -> ClipRecords \cup {NoEdit}]
    /\ list # NoList => legacy = NoList

\* A list is a list of records, and NoList is none.
LEMMA ClipListsType ==
    \A L \in ClipLists : L # NoList /\ L \in Seq(ClipRecords) /\ Len(L) \in 0..Cap
<1> SUFFICES ASSUME NEW L \in ClipLists
             PROVE  L # NoList /\ L \in Seq(ClipRecords) /\ Len(L) \in 0..Cap
  OBVIOUS
<1>1. L \in Seq(ClipRecords) /\ Len(L) <= Cap
  BY DEF ClipLists
<1>2. L # NoList
  BY <1>1, NoListAssumption DEF ClipRecords, Notes
<1> QED
  BY <1>1, <1>2, ClipsAssumption

LEMMA EmptyIsClipList == <<>> \in ClipLists
BY ClipsAssumption DEF ClipLists

LEMMA SavedType == ClipsTypeOK => Saved \in ClipLists /\ Moved \in ClipLists \cup {NoList}
BY EmptyIsClipList DEF ClipsTypeOK, Saved, Moved

\* The first Cap of a list, behind a new clip.
LEMMA StoredOf ==
    ASSUME NEW L \in ClipLists, NEW c \in Clips
    PROVE  /\ Stored(L, c) \in ClipLists
           /\ Stored(L, c)[1].clip = c
           /\ \A d \in IdsOf(L) \ IdsOf(Stored(L, c)) :
                /\ Len(L) = Cap /\ L[Cap].clip = d
                /\ Len(Stored(L, c)) = Cap /\ c \notin IdsOf(L)
<1> DEFINE W == Without(L, c)
           r == [clip |-> c, note |-> ""]
           all == <<r>> \o W
           R == Stored(L, c)
<1>0. L \in Seq(ClipRecords) /\ Len(L) \in 0..Cap /\ Cap \in Nat \ {0}
  BY ClipListsType, ClipsAssumption
<1>1. /\ W \in Seq(ClipRecords) /\ Len(W) <= Len(L)
      /\ IdsOf(W) = IdsOf(L) \ {c}
      /\ Len(W) = Len(L) => W = L /\ c \notin IdsOf(L)
  BY <1>0, WithoutOf
<1>2. r \in ClipRecords /\ r.clip = c
  BY DEF ClipRecords, Notes
<1>3. R = IF Len(all) > Cap THEN SubSeq(all, 1, Cap) ELSE all
  BY DEF Stored
<1> HIDE DEF W, r
<1>4. /\ all \in Seq(ClipRecords) /\ Len(all) = Len(W) + 1
      /\ all[1] = r /\ \A i \in 1..Len(W) : all[i + 1] = W[i]
  BY <1>1, <1>2
<1> HIDE DEF all, R
<1>5. /\ R \in Seq(ClipRecords)
      /\ Len(R) = IF Len(all) > Cap THEN Cap ELSE Len(all)
      /\ \A i \in 1..Len(R) : R[i] = all[i]
  BY <1>0, <1>3, <1>4
<1>6. R \in ClipLists /\ R[1].clip = c
  BY <1>0, <1>1, <1>2, <1>4, <1>5 DEF ClipLists
<1>7. ASSUME NEW d \in IdsOf(L) \ IdsOf(R)
      PROVE  Len(L) = Cap /\ L[Cap].clip = d /\ Len(R) = Cap /\ c \notin IdsOf(L)
  <2>1. /\ DOMAIN L = 1..Len(L) /\ DOMAIN W = 1..Len(W) /\ DOMAIN R = 1..Len(R)
        /\ Len(W) \in Nat /\ Len(R) \in Nat
    BY <1>0, <1>1, <1>5
  <2>6. Len(R) = IF Len(W) + 1 > Cap THEN Cap ELSE Len(W) + 1
    BY <1>4, <1>5
  <2>2. 1 \in DOMAIN R
    BY <1>0, <2>6, <2>1
  <2>3. c \in IdsOf(R)
    BY <1>6, <2>2 DEF IdsOf
  <2>4. d \in IdsOf(W)
    BY <1>1, <2>3
  <2>5. PICK i \in 1..Len(W) : W[i].clip = d
    BY <2>1, <2>4 DEF IdsOf
  <2>8. i + 1 \notin 1..Len(R)
    <3> SUFFICES ASSUME i + 1 \in 1..Len(R) PROVE FALSE
      OBVIOUS
    <3>1. R[i + 1] = W[i]
      BY <1>4, <1>5
    <3> QED
      BY <2>1, <2>5, <3>1 DEF IdsOf
  <2>7. Len(R) = Cap /\ i >= Cap /\ Len(W) = Len(L) /\ Len(L) = Cap /\ i = Cap
    <3>1. Len(W) <= Len(L) /\ Len(L) \in 0..Cap /\ Cap \in Nat
      BY <1>0, <1>1
    <3>2. i \in Nat /\ i <= Len(W) /\ i + 1 > Len(R)
      BY <2>1, <2>8
    <3>3. /\ Len(W) \in Nat /\ Len(L) \in Nat /\ Len(R) \in Nat
          /\ Len(R) = IF Len(W) + 1 > Cap THEN Cap ELSE Len(W) + 1
      BY <2>1, <2>6, <3>1
    <3> HIDE DEF R, all
    <3>4. Len(W) >= Cap /\ Len(R) = Cap
      BY <3>1, <3>2, <3>3
    <3> QED
      BY <3>1, <3>2, <3>3, <3>4
  <2> QED
    BY <1>1, <2>5, <2>7
<1> QED
  BY <1>6, <1>7 DEF R

LEMMA ClipsTypeInit == ClipsInit => ClipsTypeOK
<1> SUFFICES ASSUME ClipsInit PROVE ClipsTypeOK
  OBVIOUS
<1>1. ASSUME NEW c \in Clips PROVE <<[clip |-> c, note |-> ""]>> \in ClipLists
  BY ClipsAssumption DEF ClipLists, ClipRecords, Notes
<1> QED
  BY <1>1 DEF ClipsInit, ClipsTypeOK

\* A read, change and write back keeps the types of the two keys.
LEMMA WriteType ==
    ASSUME ClipsTypeOK, NEW L \in ClipLists \cup {NoList}, NEW ok, Write(L, ok)
    PROVE  /\ list' \in ClipLists \cup {NoList} /\ legacy' \in ClipLists \cup {NoList}
           /\ list' # NoList => legacy' = NoList
BY SavedType DEF Write, Moved, ClipsTypeOK

\* A list with the note of one clip changed holds the same clips.
LEMMA NotedOf ==
    ASSUME NEW L \in ClipLists, NEW e \in ClipRecords
    PROVE  LET N == [i \in DOMAIN L |-> IF L[i].clip = e.clip THEN e ELSE L[i]]
           IN  N \in ClipLists /\ IdsOf(N) = IdsOf(L)
<1> DEFINE N == [i \in DOMAIN L |-> IF L[i].clip = e.clip THEN e ELSE L[i]]
<1>1. L \in Seq(ClipRecords) /\ Len(L) \in 0..Cap
  BY ClipListsType
<1>2. N \in Seq(ClipRecords) /\ Len(N) = Len(L) /\ DOMAIN N = DOMAIN L
  BY <1>1
<1>3. \A i \in DOMAIN L : N[i].clip = L[i].clip
  OBVIOUS
<1> HIDE DEF N
<1>4. IdsOf(N) = IdsOf(L)
  BY <1>2, <1>3 DEF IdsOf
<1> QED
  BY <1>1, <1>2, <1>4 DEF ClipLists, N

LEMMA ClipsTypeStep == ClipsTypeOK /\ [ClipsNext]_clipVars => ClipsTypeOK'
<1> SUFFICES ASSUME ClipsTypeOK, [ClipsNext]_clipVars PROVE ClipsTypeOK'
  OBVIOUS
<1>0. Saved \in ClipLists /\ Moved \in ClipLists \cup {NoList} /\ <<>> \in ClipLists
  BY SavedType, EmptyIsClipList
<1>1. ASSUME NEW t \in Views, NEW S \in SUBSET Clips, NEW ok \in BOOLEAN, MountClips(t, S, ok)
      PROVE  ClipsTypeOK'
  <2>1. /\ list' \in ClipLists \cup {NoList} /\ legacy' \in ClipLists \cup {NoList}
        /\ list' # NoList => legacy' = NoList
    BY <1>1, WriteType DEF MountClips, ClipsTypeOK
  <2> QED
    BY <1>1, <2>1 DEF MountClips, ClipsTypeOK
<1>2. ASSUME NEW t \in Views, NEW c \in Clips, NEW ok \in BOOLEAN, SaveToggle(t, c, ok)
      PROVE  ClipsTypeOK'
  <2>1. Without(Saved, c) \in ClipLists /\ Stored(Saved, c) \in ClipLists
    BY <1>0, ClipListsType, ClipsAssumption, WithoutOf, StoredOf DEF ClipLists
  <2>2. /\ list' \in ClipLists \cup {NoList} /\ legacy' \in ClipLists \cup {NoList}
        /\ list' # NoList => legacy' = NoList
    BY <1>2, <2>1, WriteType DEF SaveToggle
  <2> QED
    BY <1>2, <2>2 DEF SaveToggle, ClipsTypeOK
<1>3. ASSUME NEW t \in Views, NEW c \in Clips, NEW n \in Notes, EditNote(t, c, n)
      PROVE  ClipsTypeOK'
  BY <1>3 DEF EditNote, ClipsTypeOK, ClipRecords
<1>4. ASSUME NEW t \in Views, NEW ok \in BOOLEAN, SaveNote(t, ok) PROVE ClipsTypeOK'
  <2>1. editing[t] \in ClipRecords
    BY <1>4 DEF SaveNote, ClipsTypeOK
  <2>2. /\ list' \in ClipLists \cup {NoList} /\ legacy' \in ClipLists \cup {NoList}
        /\ list' # NoList => legacy' = NoList
    BY <1>0, <1>4, <2>1, NotedOf, WriteType DEF SaveNote
  <2> QED
    BY <1>4, <2>2 DEF SaveNote, ClipsTypeOK
<1>5. ASSUME NEW t \in Views, CancelNote(t) PROVE ClipsTypeOK'
  BY <1>5 DEF CancelNote, ClipsTypeOK
<1>6. ASSUME NEW t \in Views, ClearClips(t) PROVE ClipsTypeOK'
  BY <1>6 DEF ClearClips, ClipsTypeOK
<1>7. CASE UNCHANGED clipVars
  BY <1>7 DEF clipVars, ClipsTypeOK
<1> QED
  BY <1>1, <1>2, <1>3, <1>4, <1>5, <1>6, <1>7 DEF ClipsNext

\* The ways a clip may go, as the list of the reader changes from old to new.
Dropped(c) ==
    \/ Saved' = Without(Saved, c)
    \/ Saved' = <<>>
    \/ /\ Len(Saved) = Cap /\ Saved[Cap].clip = c
       /\ Len(Saved') = Cap /\ Saved'[1].clip \notin IdsOf(Saved)
    \/ list = NoList /\ list' = NoList /\ legacy' # legacy

\* What a write leaves for the next reader.
LEMMA WriteSaves ==
    ASSUME ClipsTypeOK, NEW L \in ClipLists, NEW ok \in BOOLEAN, Write(L, ok)
    PROVE  \/ ok /\ Saved' = L
           \/ Saved' = Saved
           \/ list = NoList /\ list' = NoList /\ legacy' # legacy
BY ClipListsType DEF Write, Saved, Moved, ClipsTypeOK

LEMMA ClipsKeptStep ==
    ASSUME ClipsTypeOK, [ClipsNext]_clipVars, NEW c \in IdsOf(Saved) \ IdsOf(Saved')
    PROVE  Dropped(c)
<1>0. Saved \in ClipLists /\ Saved \in Seq(ClipRecords)
  BY SavedType, ClipListsType
<1>1. ASSUME NEW t \in Views, NEW S \in SUBSET Clips, NEW ok \in BOOLEAN, MountClips(t, S, ok)
      PROVE  Dropped(c)
  <2>1. CASE list = NoList /\ legacy = NoList
    BY <1>1, <2>1 DEF MountClips, Write, Moved, Saved
  <2>2. CASE list # NoList \/ legacy # NoList
    <3>1. (IF list = NoList THEN legacy ELSE list) = Saved
      BY <2>2 DEF Saved
    <3>2. \/ Saved' = Saved
          \/ list = NoList /\ list' = NoList /\ legacy' # legacy
      BY <1>0, <1>1, <3>1, WriteSaves DEF MountClips
    <3> QED
      BY <3>2 DEF Dropped
  <2> QED
    BY <2>1, <2>2
<1>2. ASSUME NEW t \in Views, NEW d \in Clips, NEW ok \in BOOLEAN, SaveToggle(t, d, ok)
      PROVE  Dropped(c)
  <2>0. Without(Saved, d) \in ClipLists /\ Stored(Saved, d) \in ClipLists
    BY <1>0, ClipListsType, ClipsAssumption, WithoutOf, StoredOf DEF ClipLists
  <2>1. CASE d \in marked[t]
    <3>1. \/ Saved' = Without(Saved, d)
          \/ Saved' = Saved
          \/ list = NoList /\ list' = NoList /\ legacy' # legacy
      BY <1>2, <2>0, <2>1, WriteSaves DEF SaveToggle
    <3>2. IdsOf(Without(Saved, d)) = IdsOf(Saved) \ {d}
      BY <1>0, WithoutOf
    <3> QED
      BY <3>1, <3>2 DEF Dropped
  <2>2. CASE d \notin marked[t]
    <3>1. \/ Saved' = Stored(Saved, d)
          \/ Saved' = Saved
          \/ list = NoList /\ list' = NoList /\ legacy' # legacy
      BY <1>2, <2>0, <2>2, WriteSaves DEF SaveToggle
    <3>2. Saved' = Stored(Saved, d) =>
            /\ Len(Saved) = Cap /\ Saved[Cap].clip = c
            /\ Len(Saved') = Cap /\ Saved'[1].clip \notin IdsOf(Saved)
      BY <1>0, StoredOf
    <3> QED
      BY <3>1, <3>2 DEF Dropped
  <2> QED
    BY <2>1, <2>2
<1>3. ASSUME NEW t \in Views, NEW d \in Clips, NEW n \in Notes, EditNote(t, d, n)
      PROVE  Dropped(c)
  BY <1>3 DEF EditNote, Saved
<1>4. ASSUME NEW t \in Views, NEW ok \in BOOLEAN, SaveNote(t, ok) PROVE Dropped(c)
  <2> DEFINE N == [i \in DOMAIN Saved |-> IF Saved[i].clip = editing[t].clip THEN editing[t] ELSE Saved[i]]
  <2>1. editing[t] \in ClipRecords
    BY <1>4 DEF SaveNote, ClipsTypeOK
  <2>2. N \in ClipLists /\ IdsOf(N) = IdsOf(Saved)
    BY <1>0, <2>1, NotedOf
  <2>3. Write(N, ok)
    BY <1>4 DEF SaveNote
  <2> HIDE DEF N
  <2>4. \/ Saved' = N
        \/ Saved' = Saved
        \/ list = NoList /\ list' = NoList /\ legacy' # legacy
    BY <2>2, <2>3, WriteSaves
  <2> QED
    BY <2>2, <2>4 DEF Dropped
<1>5. ASSUME NEW t \in Views, CancelNote(t) PROVE Dropped(c)
  BY <1>5 DEF CancelNote, Saved
<1>6. ASSUME NEW t \in Views, ClearClips(t) PROVE Dropped(c)
  <2>1. list' = NoList /\ legacy' = legacy
    BY <1>6 DEF ClearClips
  <2>2. CASE list = NoList
    BY <2>1, <2>2 DEF Saved
  <2>3. CASE list # NoList
    <3>1. Saved' = <<>>
      BY <2>1, <2>3 DEF Saved, ClipsTypeOK
    <3> QED
      BY <3>1 DEF Dropped
  <2> QED
    BY <2>2, <2>3
<1>7. CASE UNCHANGED clipVars
  BY <1>7 DEF clipVars, Saved
<1> QED
  BY <1>1, <1>2, <1>3, <1>4, <1>5, <1>6, <1>7 DEF ClipsNext

\* ClipsKept, for any tabs, clips and cap.
THEOREM ClipsAreKept == ClipsSpec => ClipsKept
<1>1. ClipsSpec => []ClipsTypeOK
  BY ClipsTypeInit, ClipsTypeStep, PTL DEF ClipsSpec
<1>2. ClipsTypeOK /\ [ClipsNext]_clipVars =>
        [\A c \in IdsOf(Saved) \ IdsOf(Saved') : Dropped(c)]_clipVars
  BY ClipsKeptStep
<1> QED
  BY <1>1, <1>2, PTL DEF ClipsSpec, ClipsKept, Dropped

=============================================================================
