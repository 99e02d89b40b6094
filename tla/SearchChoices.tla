----------------------------- MODULE SearchChoices -----------------------------
(***************************************************************************)
(* What a visitor chooses on the search page: the text, the podcasts, the  *)
(* range of dates and the grouping.  They are kept in the state of the     *)
(* page, in the address bar, in the preferences the tabs of a browser      *)
(* share, and in the copies of the filter modal; effects carry them from   *)
(* one to the other.  The router (external) hands the address to the page  *)
(* a moment after it changed, and the page then restores its state.  None  *)
(* of that happens before the podcasts have been fetched, which may fail.  *)
(***************************************************************************)
EXTENDS FiniteSets

CONSTANTS
    Podcasts,       \* all podcasts of /api/podcasts
    Enabled,        \* those enabled
    Texts,          \* what can be typed, but for the blanks around it
    Blank,          \* no text
    Dates,          \* pairs of custom dates
    NoDates,
    Unset           \* nothing under the key, no cookie

ASSUME ChoicesAssumption ==
    Enabled \subseteq Podcasts /\ Enabled # {} /\ Blank \notin Texts /\ NoDates \notin Dates
ASSUME UnsetAssumption == \A S \in SUBSET Podcasts : S # Unset

VARIABLES
    ready,          \* preferencesLoaded: the podcasts have arrived, the choices are restored
    choice,         \* searchQuery, selectedPodcasts, dateRange, groupBy
    local,          \* the modal's copies of all but the text
    open,           \* showFilterModal
    dates,          \* customStartDate and customEndDate of the search bar
    address,        \* the query string of the window
    params,         \* useSearchParams(): the query string as of the last render
    stored,         \* palpal_preferences in localStorage
    cookie,         \* palpal_preferences as a legacy cookie
    writable,       \* localStorage takes writes
    mine            \* history: a load would find the selection of this tab

choiceVars == <<ready, choice, local, open, dates, address, params, stored, cookie, writable, mine>>

Ranges == {"all", "custom"}        \* one preset stands for all of them
Groups == {"none", "episode"}

\* An input is a text with or without blanks around it.
Inputs == [word : Texts \cup {Blank}, padded : BOOLEAN]
Empty == [word |-> Blank, padded |-> FALSE]

Choices == [text : Inputs, podcasts : SUBSET Podcasts, range : Ranges, group : Groups]
Queries == [text : Inputs, podcasts : SUBSET Podcasts, range : Ranges, group : Groups,
            dates : Dates \cup {NoDates}]
Defaults == [text |-> Empty, podcasts |-> Enabled, range |-> "all", group |-> "none"]
Mounted == [text |-> Empty, podcasts |-> {}, range |-> "all", group |-> "none"]
NoQuery == [text |-> Empty, podcasts |-> {}, range |-> "all", group |-> "none", dates |-> NoDates]

-----------------------------------------------------------------------------
Trim(t) == [word |-> t.word, padded |-> FALSE]

\* The address after updateURL: defaults and the blanks around a text are left out, and
\* other parameters stay.
Written(c, q) ==
    [q EXCEPT !.text = Trim(c.text), !.range = c.range, !.group = c.group,
              !.podcasts = IF c.podcasts = Enabled THEN {} ELSE c.podcasts]

\* loadUserPreferences: the key, else the legacy cookie.
Preferred(s, k) == IF s # Unset THEN s ELSE k

\* The cookie is expired once it is in localStorage.
Migrated == IF stored = Unset /\ writable THEN Unset ELSE cookie

\* Mutant of Restored: the preferences go before the address.
RestoredMutant(q, preferred, c) ==
    [text     |-> IF q.text # Empty THEN q.text ELSE c.text,
     range    |-> IF q.range # "all" THEN q.range ELSE c.range,
     group    |-> IF q.group # "none" THEN q.group ELSE c.group,
     podcasts |-> IF preferred # Unset THEN preferred
                 ELSE IF q.podcasts # {} THEN q.podcasts ELSE Enabled]

\* What the address leaves out stays as it is, except for the podcasts, which
\* come from the preferences, and without those are all the enabled ones.
Restored(q, preferred, c) ==
    [text     |-> IF q.text # Empty THEN q.text ELSE c.text,
     range    |-> IF q.range # "all" THEN q.range ELSE c.range,
     group    |-> IF q.group # "none" THEN q.group ELSE c.group,
     podcasts |-> IF q.podcasts # {} THEN q.podcasts
                 ELSE IF preferred # Unset THEN preferred ELSE Enabled]

\* What the modal copies; it does not hold the text.
Copies(c) == [c EXCEPT !.text = Empty]

-----------------------------------------------------------------------------
\* The podcasts there are to choose from, and what a reset leaves.
Known == IF ready THEN Enabled ELSE {}
Reset == [Defaults EXCEPT !.podcasts = Known]

\* The effects after a render with the choices c on the query q, where the selection was
\* set or not: the modal's copies, and once the page is ready the preferences and the
\* address.
Effects(c, q, selects) ==
    /\ choice' = c
    /\ local' = IF selects \/ c.range # choice.range \/ c.group # choice.group THEN Copies(c) ELSE local
    /\ IF ready
       THEN /\ stored' = IF selects /\ writable THEN c.podcasts ELSE stored
            /\ mine' = IF selects THEN writable \/ (mine /\ c.podcasts = choice.podcasts) ELSE mine
            /\ address' = Written(c, q)
       ELSE address' = q /\ UNCHANGED <<stored, mine>>

\* A page opened by a link: until the podcasts arrive nothing is chosen.
Load(q) ==
    /\ ready' = FALSE /\ choice' = Mounted /\ local' = Copies(Mounted) /\ open' = FALSE
    /\ dates' = q.dates /\ params' = q /\ address' = q /\ mine' = TRUE
    /\ UNCHANGED <<stored, cookie, writable>>

\* /api/podcasts answers: the choices are restored, on top of what was typed meanwhile.
PodcastsArrive ==
    LET c == Restored(params, Preferred(stored, cookie), choice)
    IN  /\ ~ready /\ ready' = TRUE
        /\ choice' = c /\ local' = Copies(c)
        /\ address' = Written(c, address)
        /\ stored' = IF writable THEN c.podcasts ELSE stored
        /\ mine' = (writable \/ params.podcasts = {})
        /\ cookie' = Migrated
        /\ UNCHANGED <<open, dates, params, writable>>

\* On a browser with or without preferences.
ChoicesInit ==
    /\ ready = FALSE /\ choice = Mounted /\ local = Copies(Mounted) /\ open = FALSE
    /\ params \in [text : {Empty}, podcasts : SUBSET Podcasts, range : {"all"}, group : {"none"}, dates : {NoDates}]
    /\ address = params /\ dates = NoDates /\ mine = TRUE
    /\ stored \in {Unset} \cup {{p} : p \in Podcasts}
    /\ cookie \in {Unset} \cup {{p} : p \in Podcasts}
    /\ cookie # Unset => stored = Unset
    /\ writable \in BOOLEAN

\* Types into the search box, or clears it.
Type(t) ==
    /\ ~open /\ t # choice.text
    /\ Effects([choice EXCEPT !.text = t], address, FALSE)
    /\ UNCHANGED <<ready, open, dates, params, cookie, writable>>

\* All podcasts are shown as chosen when none or as many as are enabled are.
AllMode == choice.podcasts = {} \/ Cardinality(choice.podcasts) = Cardinality(Enabled)

Flip(S, p) == IF p \in S THEN S \ {p} ELSE S \cup {p}

\* The dropdown: the first podcast picked narrows from all to that one.
PickPodcast(p) ==
    /\ ~open /\ p \in Known
    /\ Effects([choice EXCEPT !.podcasts = IF AllMode THEN {p} ELSE Flip(@, p)], address, TRUE)
    /\ UNCHANGED <<ready, open, dates, params, cookie, writable>>

PickAll ==
    /\ ~open
    /\ Effects([choice EXCEPT !.podcasts = {}], address, TRUE)
    /\ UNCHANGED <<ready, open, dates, params, cookie, writable>>

PickRange(r) ==
    /\ ~open /\ r # choice.range
    /\ Effects([choice EXCEPT !.range = r], address, FALSE)
    /\ UNCHANGED <<ready, open, dates, params, cookie, writable>>

PickGroup(g) ==
    /\ ~open /\ g # choice.group
    /\ Effects([choice EXCEPT !.group = g], address, FALSE)
    /\ UNCHANGED <<ready, open, dates, params, cookie, writable>>

\* Once it is ready, the page restores its state from the query it is handed, and its
\* effects run.
Follow(q) ==
    /\ params' = q
    /\ IF q = params \/ ~ready
       THEN choice' = choice /\ address' = q /\ UNCHANGED <<local, stored, mine, cookie>>
       ELSE Effects(Restored(q, Preferred(stored, cookie), choice), q, TRUE) /\ cookie' = Migrated

\* A custom date is pushed to the address at once, in the dropdown or the modal
\* alike, on top of the query of the last render; the modal's copies start over.
PickDates(d) ==
    /\ (IF open THEN local.range ELSE choice.range) = "custom" /\ d # dates
    /\ dates' = d
    /\ Follow([params EXCEPT !.dates = d])
    /\ UNCHANGED <<ready, open, writable>>

\* The router hands on what updateURL wrote with replaceState.
Sync ==
    /\ params # address
    /\ Follow(address)
    /\ UNCHANGED <<ready, open, dates, writable>>

-----------------------------------------------------------------------------
(* The modal.  It is never unmounted: its copies outlive a cancellation.     *)

OpenModal == ~open /\ open' = TRUE /\ UNCHANGED <<ready, choice, local, dates, address, params, stored, cookie, writable, mine>>

\* What one click makes of the copies: a podcast is flipped, or all enabled ones are ticked,
TickPodcasts == {[local EXCEPT !.podcasts = Flip(@, p)] : p \in Known}
                    \cup {[local EXCEPT !.podcasts = Known]}

TickRange == {[local EXCEPT !.range = r] : r \in Ranges}

TickGroup == {[local EXCEPT !.group = g] : g \in Groups}

\* or Reset ticks the defaults, in the modal only.
ResetModal == {Copies(Reset)}

EditModal ==
    /\ open
    /\ local' \in TickPodcasts \cup TickRange \cup TickGroup \cup ResetModal
    /\ UNCHANGED <<ready, choice, open, dates, address, params, stored, cookie, writable, mine>>

Dismiss == open /\ open' = FALSE /\ UNCHANGED <<ready, choice, local, dates, address, params, stored, cookie, writable, mine>>

\* Applying custom dates pushes them again, on top of the query last rendered.
ApplyFilters ==
    LET c == [local EXCEPT !.text = choice.text]
    IN  /\ open /\ open' = FALSE
        /\ Effects(c, IF c.range = "custom" THEN [params EXCEPT !.dates = dates] ELSE address, TRUE)
        /\ UNCHANGED <<ready, dates, params, cookie, writable>>

\* The logo resets the choices and the address; the dates of the bar stay.  If that
\* changes the query, the page restores its state from the empty one, with the selection
\* that the preferences have by then.
LogoReset ==
    LET saved == IF writable THEN Enabled ELSE Preferred(stored, cookie)
        c == IF ready /\ params # NoQuery THEN Restored(NoQuery, saved, Reset) ELSE Reset
    IN  /\ ~open
        /\ Effects(c, NoQuery, TRUE)
        /\ params' = NoQuery
        /\ UNCHANGED <<ready, open, dates, cookie, writable>>

Reload == Load(address)

\* Another tab of the browser saves its selection; when it was loaded, it expired the
\* legacy cookie.
OtherTab(S) ==
    /\ writable /\ S # stored
    /\ stored' = S /\ cookie' = Unset /\ mine' = FALSE
    /\ UNCHANGED <<ready, choice, local, open, dates, address, params, writable>>

-----------------------------------------------------------------------------
ChoicesNext ==
    \/ PodcastsArrive
    \/ \E t \in Inputs : Type(t)
    \/ \E p \in Enabled : PickPodcast(p)
    \/ PickAll
    \/ \E r \in Ranges : PickRange(r)
    \/ \E g \in Groups : PickGroup(g)
    \/ \E d \in Dates : PickDates(d)
    \/ Sync
    \/ OpenModal
    \/ EditModal
    \/ Dismiss
    \/ ApplyFilters
    \/ LogoReset
    \/ Reload
    \/ \E p \in Enabled : OtherTab({p})

ChoicesSpec == ChoicesInit /\ [][ChoicesNext]_choiceVars

-----------------------------------------------------------------------------
(* Properties.                                                              *)

\* Once the podcasts have arrived, reloading the page at any moment keeps what was chosen,
\* when they arrive again: the text, but for the blanks around it, the range and the
\* grouping always, and the podcasts unless all or none are chosen, which is not in the
\* address, and the preferences of another tab, or of an earlier visit when nothing can be
\* written, have come in between.  What is chosen before they arrive, or when the fetch
\* has failed, is not kept.
ReloadKeepsChoices ==
    ready =>
        LET c == Restored(address, Preferred(stored, cookie), Mounted)
        IN  /\ c.text = Trim(choice.text) /\ c.range = choice.range /\ c.group = choice.group
            /\ mine \/ address.podcasts # {} => c.podcasts = choice.podcasts
=============================================================================
