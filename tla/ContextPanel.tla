------------------------------ MODULE ContextPanel ------------------------------
(***************************************************************************)
(* The context of a chunk, on a search result and on a saved clip: the     *)
(* chunks around it, fetched when the panel is opened and in wider windows *)
(* on demand.  Closing and opening the panel may leave several fetches     *)
(* under way, which are answered in any order.                             *)
(***************************************************************************)
EXTENDS Naturals

CONSTANTS
    Step,           \* 2: the first radius, and what it grows by
    RadiusLimit,    \* 10: the conductor refuses a wider window
    MaxNeighbours,  \* bound: chunks on one side
    MaxFetches,     \* bound: fetches under way
    NoData

ASSUME ContextAssumption ==
    /\ Step \in Nat \ {0} /\ RadiusLimit \in Nat /\ MaxNeighbours \in Nat
    /\ \A l, r \in 0..MaxNeighbours, x, y \in BOOLEAN :
          NoData # [left |-> l, right |-> r, moreBefore |-> x, moreAfter |-> y]

VARIABLES
    view,           \* the card of a result or the saved page
    before, after,  \* chunks of the episode on either side
    expanded,
    loading,
    data,           \* the window shown and its two buttons
    radius,
    failed,         \* the saved page's
    fetches         \* the radius of each fetch under way, 0 where there is none

contextVars == <<view, before, after, expanded, loading, data, radius, failed, fetches>>

Least(a, b) == IF a < b THEN a ELSE b

\* The chunks up to r away, and whether there are more.
Window(r) ==
    [left |-> Least(r, before), right |-> Least(r, after),
     moreBefore |-> r < before, moreAfter |-> r < after]

\* Mutant of Merge: a window that did not grow is always taken for the last one.
MergeMutant(r) ==
    LET w == Window(r)
    IN  IF data # NoData
        THEN [w EXCEPT !.moreBefore = @ /\ w.left # data.left, !.moreAfter = @ /\ w.right # data.right]
        ELSE w

\* If loading more did not extend the window, its button goes.
Merge(r) ==
    LET w == Window(r)
    IN  IF data # NoData /\ r > Step
        THEN [w EXCEPT !.moreBefore = @ /\ w.left # data.left, !.moreAfter = @ /\ w.right # data.right]
        ELSE w

Fresh ==
    /\ expanded' = FALSE /\ loading' = FALSE /\ data' = NoData
    /\ radius' = Step /\ failed' = FALSE
    /\ fetches' = [s \in 1..MaxFetches |-> 0]

ContextInit ==
    /\ view \in {"card", "saved"}
    /\ before \in 0..MaxNeighbours /\ after \in 0..MaxNeighbours
    /\ expanded = FALSE /\ loading = FALSE /\ data = NoData
    /\ radius = Step /\ failed = FALSE
    /\ fetches = [s \in 1..MaxFetches |-> 0]

FetchContext(r) ==
    /\ \E s \in DOMAIN fetches : fetches[s] = 0
    /\ fetches' = [fetches EXCEPT ![CHOOSE s \in DOMAIN fetches : fetches[s] = 0] = r]
    /\ loading' = TRUE /\ failed' = FALSE

Expand ==
    /\ ~expanded /\ expanded' = TRUE
    /\ IF data = NoData THEN FetchContext(radius) ELSE UNCHANGED <<fetches, loading, failed>>
    /\ UNCHANGED <<view, before, after, data, radius>>

Collapse ==
    /\ expanded /\ expanded' = FALSE
    /\ UNCHANGED <<view, before, after, loading, data, radius, failed, fetches>>

\* The window is on the screen; the saved page shows a failure in its place.
Visible == expanded /\ data # NoData /\ ~failed

\* Either button asks for more on both sides; a radius past the limit is asked
\* for once more in the model, although the card goes on widening it.
Widen ==
    /\ Visible /\ ~loading
    /\ data.moreBefore \/ data.moreAfter
    /\ radius <= RadiusLimit
    /\ radius' = radius + Step
    /\ FetchContext(radius + Step)
    /\ UNCHANGED <<view, before, after, expanded, data>>

\* The saved page takes its radius from the answer.
Arrive(s) ==
    /\ fetches[s] \in 1..RadiusLimit
    /\ fetches' = [fetches EXCEPT ![s] = 0]
    /\ data' = Merge(fetches[s])
    /\ radius' = IF view = "saved" THEN fetches[s] ELSE radius
    /\ loading' = FALSE /\ failed' = FALSE
    /\ UNCHANGED <<view, before, after, expanded>>

\* Any fetch may fail; the card says nothing of it.
FailContext(s) ==
    /\ fetches[s] # 0
    /\ fetches' = [fetches EXCEPT ![s] = 0]
    /\ loading' = FALSE /\ failed' = (view = "saved")
    /\ UNCHANGED <<view, before, after, expanded, data, radius>>

\* Other results, or another page.
Unmount == Fresh /\ UNCHANGED <<view, before, after>>

-----------------------------------------------------------------------------
ContextNext ==
    \/ Expand
    \/ Collapse
    \/ Widen
    \/ \E s \in DOMAIN fetches : Arrive(s)
    \/ \E s \in DOMAIN fetches : FailContext(s)
    \/ Unmount

ContextSpec == ContextInit /\ [][ContextNext]_contextVars

-----------------------------------------------------------------------------
(* Properties.                                                              *)

\* A result offers more context on each side until the window has reached the
\* end of the episode there, in whatever order its fetches are answered and
\* whichever of them fail.  (The saved page does not: see the README.)
MoreOfferedUntilEdge ==
    view = "card" /\ data # NoData =>
        /\ data.moreBefore <=> data.left < before
        /\ data.moreAfter <=> data.right < after
=============================================================================
