------------------------------ MODULE WatchedList ------------------------------
(***************************************************************************)
(* The watched episodes of a browser: one key of localStorage, a copy in   *)
(* the memory of every tab that never looks at the key again, and the set  *)
(* the page of a tab shows.  That set may be the very object in memory,    *)
(* which the functions of watchlist.ts change in place: what the page has  *)
(* memoised by the identity of its set then keeps its age.                 *)
(***************************************************************************)
EXTENDS FiniteSets

CONSTANTS
    Tabs,
    Videos,
    Unread          \* a tab that has not read the key

ASSUME WatchedAssumption == \A T \in SUBSET Videos : T # Unread

VARIABLES
    key,            \* palpal_watched_episodes
    memory,         \* _memCache of each tab
    shown,          \* what the page of each tab ticks as watched
    aliased,        \* tabs whose page shows the object in memory, not a copy
    counted,        \* the ticks when totalWatched was last worked out
    listed,         \* the ticks when the rows of the filter were last picked
    filter,         \* the filter of each page
    cleared,        \* history: tabs that have cleared since they were loaded
    writer          \* history: tabs whose last write is the last one of all, and went through

pageState == <<shown, aliased, counted, listed, filter>>
watchedVars == <<key, memory, pageState, cleared, writer>>

Filters == {"all", "watched", "unwatched"}

WatchedInit ==
    /\ key \in SUBSET Videos
    /\ memory = [t \in Tabs |-> Unread]
    /\ shown = [t \in Tabs |-> {}] /\ counted = shown /\ listed = shown
    /\ filter = [t \in Tabs |-> "all"]
    /\ aliased = {} /\ cleared = {} /\ writer = {}

\* getWatchedSet: the memory, else the key; a key that cannot be parsed is empty.
Watched(t) == IF memory[t] # Unread THEN memory[t] ELSE key

\* Mutant of SaveWatched: the memory is left to be read again.
SaveWatchedMutant(t, W, ok) ==
    /\ memory' = [memory EXCEPT ![t] = IF @ = Unread THEN W ELSE @]
    /\ key' = IF ok THEN W ELSE key
    /\ writer' = IF ok THEN {t} ELSE writer \ {t}

\* saveWatchedSet: the memory always, the key if it takes the write.
SaveWatched(t, W, ok) ==
    /\ memory' = [memory EXCEPT ![t] = W]
    /\ key' = IF ok THEN W ELSE key
    /\ writer' = IF ok THEN {t} ELSE writer \ {t}

\* Mutant of Show: the updater of a click adds to the set it is given.
ShowMutant(t, W, inMemory) ==
    /\ shown' = [shown EXCEPT ![t] = W]
    /\ aliased' = IF inMemory THEN aliased \cup {t} ELSE aliased
    /\ IF t \in aliased
          THEN UNCHANGED <<counted, listed>>
          ELSE counted' = [counted EXCEPT ![t] = W] /\ listed' = [listed EXCEPT ![t] = W]

\* setWatched, with the object in memory or with a new one.  The memos are worked
\* out anew unless it is the object the page already shows.
Show(t, W, inMemory) ==
    /\ shown' = [shown EXCEPT ![t] = W]
    /\ aliased' = IF inMemory THEN aliased \cup {t} ELSE aliased \ {t}
    /\ IF inMemory /\ t \in aliased
          THEN UNCHANGED <<counted, listed>>
          ELSE counted' = [counted EXCEPT ![t] = W] /\ listed' = [listed EXCEPT ![t] = W]

\* The page of a tab is mounted, the list or the results of a search: its set is
\* the one in memory, which its first render had not seen.
Mount(t) ==
    /\ memory' = [memory EXCEPT ![t] = Watched(t)]
    /\ shown' = [shown EXCEPT ![t] = Watched(t)]
    /\ counted' = [counted EXCEPT ![t] = Watched(t)]
    /\ listed' = [listed EXCEPT ![t] = Watched(t)]
    /\ aliased' = aliased \cup {t}
    /\ filter' = [filter EXCEPT ![t] = "all"]
    /\ UNCHANGED <<key, cleared, writer>>

\* The rows of a page: those of its filter when they were last picked.
Rows(t) ==
    {v \in Videos : /\ filter[t] = "watched" => v \in listed[t]
                    /\ filter[t] = "unwatched" => v \notin listed[t]}

\* The rows of a page are picked anew, whatever its set.
PickRows(t) ==
    /\ memory[t] # Unread
    /\ listed' = [listed EXCEPT ![t] = shown[t]]
    /\ UNCHANGED <<key, memory, shown, aliased, counted, cleared, writer>>

\* The buttons above the table for what was watched; the one in force changes nothing.
ChooseFilter(t, f) == f # filter[t] /\ PickRows(t) /\ filter' = [filter EXCEPT ![t] = f]

\* Those for the site of the episodes, another one than in force.
ChooseSite(t) == PickRows(t) /\ UNCHANGED filter

\* The tab of a podcast goes back to all of its episodes.
ChoosePodcast(t) == PickRows(t) /\ filter' = [filter EXCEPT ![t] = "all"]

\* A click on the head of a column, which is there while the table has a row.
SortRows(t) == Rows(t) # {} /\ PickRows(t) /\ UNCHANGED filter

\* A click on the tick of a row turns what the memory says, and the page shows what came of it.
ToggleWatched(t, v, ok) ==
    LET W == IF v \in Watched(t) THEN Watched(t) \ {v} ELSE Watched(t) \cup {v}
    IN  /\ memory[t] # Unread /\ v \in Rows(t)
        /\ SaveWatched(t, W, ok)
        /\ Show(t, IF v \in W THEN shown[t] \cup {v} ELSE shown[t] \ {v}, FALSE)
        /\ UNCHANGED <<cleared, filter>>

\* Clearing, offered while the count is not zero, leaves the memory.
ClearWatched(t) ==
    /\ counted[t] # {}
    /\ key' = {} /\ Show(t, {}, FALSE)
    /\ cleared' = cleared \cup {t} /\ writer' = {}
    /\ UNCHANGED <<memory, filter>>

\* An export read back in; its episodes are added.
ImportWatched(t, V, ok) ==
    LET W == Watched(t) \cup V
    IN  /\ memory[t] # Unread
        /\ SaveWatched(t, W, ok)
        /\ Show(t, W, TRUE)
        /\ cleared' = cleared \ {t}
        /\ UNCHANGED filter

\* The tab is loaded anew, and its modules with it.
ReloadTab(t) ==
    /\ memory' = [memory EXCEPT ![t] = Unread]
    /\ Show(t, {}, FALSE)
    /\ filter' = [filter EXCEPT ![t] = "all"]
    /\ cleared' = cleared \ {t}
    /\ UNCHANGED <<key, writer>>

WatchedNext ==
    \/ \E t \in Tabs : Mount(t)
    \/ \E t \in Tabs, v \in Videos, ok \in BOOLEAN : ToggleWatched(t, v, ok)
    \/ \E t \in Tabs, f \in Filters : ChooseFilter(t, f)
    \/ \E t \in Tabs : ChooseSite(t)
    \/ \E t \in Tabs : ChoosePodcast(t)
    \/ \E t \in Tabs : SortRows(t)
    \/ \E t \in Tabs : ClearWatched(t)
    \/ \E t \in Tabs, V \in SUBSET Videos, ok \in BOOLEAN : ImportWatched(t, V, ok)
    \/ \E t \in Tabs : ReloadTab(t)

WatchedSpec == WatchedInit /\ [][WatchedNext]_watchedVars

-----------------------------------------------------------------------------
(* Properties.                                                              *)

\* The tab that wrote last, and has not cleared since it was loaded, shows what
\* every tab will show when loaded: no click is lost to its copies.
ReloadKeepsWatched ==
    \A t \in Tabs :
        t \in writer \ cleared /\ memory[t] # Unread => key = shown[t] /\ key = memory[t]

\* What a page counts as watched is what it ticks.  Only an import right after
\* the page was mounted, into the set it shows, leaves the count and the rows
\* behind, and then they lack no more than what was imported.
CountsFollowTicks ==
    \A t \in Tabs :
        /\ t \notin aliased => counted[t] = shown[t] /\ listed[t] = shown[t]
        /\ counted[t] \subseteq shown[t] /\ listed[t] \subseteq shown[t]
=============================================================================
