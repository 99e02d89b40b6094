------------------------------- MODULE SearchPage -------------------------------
(***************************************************************************)
(* Searching: submissions that nothing disables, pages of results that are *)
(* added, answers in any order, failures, and the reset by the logo, which *)
(* leaves the requests under way.  What is searched (the text under the    *)
(* choices of SearchChoices) is one value here.                            *)
(***************************************************************************)
EXTENDS Naturals, Sequences

CONSTANTS
    Searches,       \* texts under filters
    Nothing,        \* an empty text; no request
    MaxPages,       \* bound: pages a search finds, and that are asked for
    MaxFlights      \* bound: requests under way

ASSUME PageAssumption ==
    /\ Nothing \notin Searches
    /\ MaxPages \in Nat \ {0} /\ MaxFlights \in Nat \ {0}
    /\ \A q \in Searches \cup {Nothing}, n \in 1..MaxPages, a \in BOOLEAN :
          Nothing # [search |-> q, page |-> n, append |-> a]

VARIABLES
    input,          \* searchQuery
    hasSearched,
    searching,      \* isSearching
    loadingMore,    \* isLoadingMore
    results,        \* the pages shown, each with its search
    total,          \* totalHits, in pages
    page,           \* currentPage
    error,          \* searchError is set
    flights,        \* the requests under way
    overtaken       \* history: a search or a reset went past a request

pageVars == <<input, hasSearched, searching, loadingMore, results, total, page, error, flights, overtaken>>

Slots == 1..MaxFlights
UnderWay == {s \in Slots : flights[s] # Nothing}

PageInit ==
    /\ input = Nothing /\ hasSearched = FALSE
    /\ searching = FALSE /\ loadingMore = FALSE
    /\ results = <<>> /\ total = 0 /\ page = 1 /\ error = FALSE
    /\ flights = [s \in Slots |-> Nothing]
    /\ overtaken = FALSE

\* A request leaves with what it asks for as it stands.
Fetch(n, append) ==
    LET s == CHOOSE s \in Slots : flights[s] = Nothing
    IN  /\ UnderWay # Slots
        /\ flights' = [flights EXCEPT ![s] = [search |-> input, page |-> n, append |-> append]]

Edit(t) ==
    /\ t # input /\ input' = t
    /\ UNCHANGED <<hasSearched, searching, loadingMore, results, total, page, error, flights, overtaken>>

\* Submitting is always possible, also while a search is under way.
Submit ==
    /\ input # Nothing
    /\ Fetch(1, FALSE)
    /\ hasSearched' = TRUE /\ page' = 1
    /\ searching' = TRUE /\ error' = FALSE
    /\ overtaken' = (overtaken \/ UnderWay # {})
    /\ UNCHANGED <<input, loadingMore, results, total>>

\* An empty text asks nothing and empties the page.
SubmitNothing ==
    /\ input = Nothing
    /\ hasSearched' = TRUE /\ page' = 1
    /\ searching' = FALSE /\ error' = FALSE /\ results' = <<>> /\ total' = 0
    /\ overtaken' = (overtaken \/ UnderWay # {})
    /\ UNCHANGED <<input, loadingMore, flights>>

\* The results are on the page, and not all of them.
MoreOffered ==
    /\ input # Nothing /\ ~error /\ ~searching /\ results # <<>>
    /\ Len(results) < total

\* Mutant of MoreEnabled: the button stays enabled while a page loads.
MoreEnabledMutant == MoreOffered

\* The button is disabled while a page is being loaded.
MoreEnabled == MoreOffered /\ ~loadingMore

\* The next page, of whatever the input holds by now.
LoadMore ==
    /\ MoreEnabled /\ page < MaxPages
    /\ Fetch(page + 1, TRUE)
    /\ page' = page + 1 /\ loadingMore' = TRUE /\ error' = FALSE
    /\ UNCHANGED <<input, hasSearched, searching, results, total, overtaken>>

\* Every answer clears both flags, whichever request set them.
Land(s) ==
    /\ flights' = [flights EXCEPT ![s] = Nothing]
    /\ searching' = FALSE /\ loadingMore' = FALSE

\* n pages were found; a page past the last one is empty.
Answer(s, n) ==
    LET r == flights[s]
        hits == IF r.page <= n THEN <<[search |-> r.search, page |-> r.page]>> ELSE <<>>
    IN  /\ r # Nothing
        /\ Land(s)
        /\ total' = n
        /\ IF r.append
           THEN results' = results \o hits /\ UNCHANGED <<page, overtaken>>
           ELSE results' = hits /\ page' = 1 /\ overtaken' = (UnderWay # {s})
        /\ UNCHANGED <<input, hasSearched, error>>

\* A failure of any request empties the page, and its error hides what follows.
Fail(s) ==
    /\ flights[s] # Nothing
    /\ Land(s)
    /\ error' = TRUE /\ results' = <<>> /\ total' = 0
    /\ UNCHANGED <<input, hasSearched, page, overtaken>>

\* The logo clears everything but the requests under way.
ResetPage ==
    /\ input' = Nothing /\ hasSearched' = FALSE
    /\ searching' = FALSE /\ loadingMore' = FALSE
    /\ results' = <<>> /\ total' = 0 /\ page' = 1 /\ error' = FALSE
    /\ overtaken' = (overtaken \/ UnderWay # {})
    /\ UNCHANGED flights

\* The buttons of an error reload the page, as does the visitor; no search is
\* made anew.
ReloadPage(t) ==
    /\ input' = t /\ hasSearched' = FALSE
    /\ searching' = FALSE /\ loadingMore' = FALSE
    /\ results' = <<>> /\ total' = 0 /\ page' = 1 /\ error' = FALSE
    /\ flights' = [s \in Slots |-> Nothing]
    /\ overtaken' = FALSE

-----------------------------------------------------------------------------
PageNext ==
    \/ \E t \in Searches \cup {Nothing} : Edit(t)
    \/ Submit
    \/ SubmitNothing
    \/ LoadMore
    \/ \E s \in Slots, n \in 0..MaxPages : Answer(s, n)
    \/ \E s \in Slots : Fail(s)
    \/ ResetPage
    \/ ReloadPage(input)

PageSpec == PageInit /\ [][PageNext]_pageVars

-----------------------------------------------------------------------------
(* Properties.                                                              *)

\* The pages shown are the first ones, each once and in order, whatever is
\* typed, loaded, answered or failed: only a search or a reset that went past
\* a request under way can leave others.
PagesInOrder == ~overtaken => \A i \in DOMAIN results : results[i].page = i
=============================================================================
