--------------------------- MODULE EpisodeList_proofs ---------------------------
(***************************************************************************)
(* Theorems about the console's episode list, for any episodes, titles,    *)
(* filters, bulk actions and page size.                                    *)
(***************************************************************************)
EXTENDS EpisodeList, TLAPS

-----------------------------------------------------------------------------
(* The selection and the filters.                                          *)

\* A change of the filters keeps the selection only under the same key.
LEMMA PatchKeepsTicks ==
    ASSUME TickedUnderFilters, here, UNCHANGED here, NEW f, Patch(f)
    PROVE  TickedUnderFilters'
<1>1. filters' = f
  BY DEF Patch
<1>2. CASE Key(f) = Key(filters)
  BY <1>1, <1>2 DEF Patch, Key, selectionVars, TickedUnderFilters
<1>3. CASE Key(f) # Key(filters)
  BY <1>3 DEF Patch, ClearSelection, TickedUnderFilters
<1> QED
  BY <1>2, <1>3

\* A tick is made on a page of the filters in force, or while it is awaited.
LEMMA TickKeepsTicks ==
    ASSUME TickedUnderFilters, here, UNCHANGED <<here, filters>>, NEW S, Ticked(S)
    PROVE  TickedUnderFilters'
BY DEF Ticked, TickedUnderFilters, Key

\* A request of a bulk action leaves the selection or clears it.
LEMMA SendKeepsTicks ==
    ASSUME TickedUnderFilters, UNCHANGED <<here, filters>>, NEW b, Send(b)
    PROVE  TickedUnderFilters'
BY DEF Send, selectionVars, ClearSelection, TickedUnderFilters, Key

LEMMA TicksInit == ListInit => TickedUnderFilters
BY DEF ListInit, TickedUnderFilters

LEMMA TicksNext == TickedUnderFilters /\ [ListNext]_listVars => TickedUnderFilters'
<1> SUFFICES ASSUME TickedUnderFilters, [ListNext]_listVars PROVE TickedUnderFilters'
  OBVIOUS
<1>1. ASSUME UNCHANGED <<here, filters, under>> PROVE TickedUnderFilters'
  BY <1>1 DEF TickedUnderFilters, Key
<1>2. ASSUME UNCHANGED <<here, filterVars, selectionVars>> PROVE TickedUnderFilters'
  BY <1>1, <1>2 DEF filterVars, selectionVars
<1>3. ASSUME NEW k \in Keys, Enter(k) PROVE TickedUnderFilters'
  BY <1>3 DEF Enter, ClearSelection, TickedUnderFilters
<1>4. CASE Leave
  BY <1>4 DEF Leave, TickedUnderFilters
<1>5. CASE Reload
  BY <1>5 DEF Reload, ClearSelection, TickedUnderFilters
<1>6. CASE Filter
  BY <1>6, PatchKeepsTicks DEF Filter
<1>7. ASSUME NEW q \in Texts, Type(q) PROVE TickedUnderFilters'
  BY <1>7, <1>1 DEF Type, selectionVars
<1>8. CASE Debounce
  BY <1>8, PatchKeepsTicks DEF Debounce
<1>9. CASE Turn
  BY <1>9, PatchKeepsTicks DEF Turn
<1>10. CASE Refresh \/ Read \/ FailList
  BY <1>10, <1>2 DEF Refresh, Read, FailList
<1>11. CASE Answer
  <2>1. UNCHANGED here
    BY <1>11 DEF Answer
  <2>2. CASE ~here
    BY <2>1, <2>2 DEF TickedUnderFilters
  <2>3. CASE UNCHANGED <<filterVars, selectionVars>>
    BY <2>1, <2>3, <1>2
  <2>4. ASSUME NEW f, Patch(f), here PROVE TickedUnderFilters'
    BY <2>1, <2>4, PatchKeepsTicks
  <2> QED
    BY <1>11, <2>2, <2>3, <2>4 DEF Answer
<1>12. ASSUME NEW e \in Episodes, Tick(e) PROVE TickedUnderFilters'
  BY <1>12, TickKeepsTicks DEF Tick, filterVars
<1>13. CASE TickPage
  BY <1>13, TickKeepsTicks DEF TickPage, filterVars
<1>14. CASE SelectAllMatching
  BY <1>14 DEF SelectAllMatching, TickedUnderFilters
<1>15. CASE Deselect
  BY <1>15 DEF Deselect, ClearSelection, TickedUnderFilters
<1>16. ASSUME NEW op \in BulkOps, RunBulk(op) PROVE TickedUnderFilters'
  <2>1. UNCHANGED <<here, filterVars>>
    BY <1>16 DEF RunBulk
  <2>2. UNCHANGED selectionVars \/ \E b : Send(b)
    BY <1>16 DEF RunBulk
  <2> QED
    BY <2>1, <2>2, <1>2, SendKeepsTicks DEF filterVars
<1>17. CASE Confirm
  BY <1>17, SendKeepsTicks DEF Confirm, filterVars
<1>18. CASE Cancel
  BY <1>18, <1>2 DEF Cancel
<1>19. ASSUME NEW op \in BulkOps, Execute(op) PROVE TickedUnderFilters'
  BY <1>19, <1>2 DEF Execute
<1>20. ASSUME NEW op \in BulkOps, BulkAnswer(op) PROVE TickedUnderFilters'
  BY <1>20 DEF BulkAnswer, ClearSelection, TickedUnderFilters
<1>21. CASE UNCHANGED listVars
  BY <1>21, <1>2 DEF listVars
<1> QED
  BY <1>3, <1>4, <1>5, <1>6, <1>7, <1>8, <1>9, <1>10, <1>11, <1>12, <1>13, <1>14, <1>15,
     <1>16, <1>17, <1>18, <1>19, <1>20, <1>21
  DEF ListNext, UserStep, SystemStep, ListRequests

\* Whichever way the filters change, a row stays selected only if it was ticked on a page
\* of the filters in force, or on the one still shown while that page was awaited (the
\* effect on filters.status, filters.q ... of EpisodesView.tsx).
THEOREM TicksFollowFilters == ListSpec => []TickedUnderFilters
BY TicksInit, TicksNext, PTL DEF ListSpec

-----------------------------------------------------------------------------
(* The address bar.                                                        *)

\* A record of filters.
IsFilters(f) == f = [status |-> f.status, q |-> f.q, page |-> f.page]

\* What a query string holds under a name, or the default.
LEMMA ParamThere ==
    ASSUME NEW u, NEW name, NEW default, NEW v, <<name, v>> \in u,
           \A p \in u : p[1] = name => p = <<name, v>>
    PROVE  Param(u, name, default) = v
BY DEF Param

LEMMA ParamNotThere ==
    ASSUME NEW u, NEW name, NEW default, \A p \in u : p[1] # name
    PROVE  Param(u, name, default) = default
BY DEF Param

\* Each pair of an encoded query names one of the three filters.
LEMMA EncodedPairs ==
    ASSUME NEW f, NEW p \in Encode(f)
    PROVE  \/ f.status # "all" /\ p = <<"status", f.status>> /\ p[1] = "status"
           \/ f.q # "" /\ p = <<"q", f.q>> /\ p[1] = "q"
           \/ f.page # 1 /\ p = <<"ep_page", f.page>> /\ p[1] = "ep_page"
<1>1. \/ f.status # "all" /\ p = <<"status", f.status>>
      \/ f.q # "" /\ p = <<"q", f.q>>
      \/ f.page # 1 /\ p = <<"ep_page", f.page>>
  BY ZenonT(30) DEF Encode
<1>2. ASSUME NEW x, NEW y PROVE <<x, y>>[1] = x
  OBVIOUS
<1> QED
  BY <1>1, <1>2, Zenon

\* What is written to the address bar is read back from it.
LEMMA EncodeDecode == ASSUME NEW f, IsFilters(f) PROVE Decode(Encode(f)) = f
<1>1. Param(Encode(f), "status", "all") = f.status
  <2>1. CASE f.status = "all"
    <3>1. \A p \in Encode(f) : p[1] # "status"
      BY <2>1, EncodedPairs
    <3> QED
      BY <2>1, <3>1, ParamNotThere
  <2>2. CASE f.status # "all"
    <3>1. \A p \in Encode(f) : p[1] = "status" => p = <<"status", f.status>>
      BY EncodedPairs
    <3>2. <<"status", f.status>> \in Encode(f)
      BY <2>2 DEF Encode
    <3> QED
      BY <3>1, <3>2, ParamThere
  <2> QED
    BY <2>1, <2>2
<1>2. Param(Encode(f), "q", "") = f.q
  <2>1. CASE f.q = ""
    <3>1. \A p \in Encode(f) : p[1] # "q"
      BY <2>1, EncodedPairs
    <3> QED
      BY <2>1, <3>1, ParamNotThere
  <2>2. CASE f.q # ""
    <3> DEFINE v == f.q
    <3>1. \A p \in Encode(f) : p[1] = "q" => p = <<"q", v>>
      BY EncodedPairs
    <3>2. <<"q", v>> \in Encode(f)
      BY <2>2 DEF Encode
    <3> HIDE DEF v
    <3>3. Param(Encode(f), "q", "") = v
      BY <3>1, <3>2, ParamThere
    <3> QED
      BY <3>3 DEF v
  <2> QED
    BY <2>1, <2>2
<1>3. Param(Encode(f), "ep_page", 1) = f.page
  <2>1. CASE f.page = 1
    <3>1. \A p \in Encode(f) : p[1] # "ep_page"
      BY <2>1, EncodedPairs
    <3> QED
      BY <2>1, <3>1, ParamNotThere
  <2>2. CASE f.page # 1
    <3>1. \A p \in Encode(f) : p[1] = "ep_page" => p = <<"ep_page", f.page>>
      BY EncodedPairs
    <3>2. <<"ep_page", f.page>> \in Encode(f)
      BY <2>2 DEF Encode
    <3> QED
      BY <3>1, <3>2, ParamThere
  <2> QED
    BY <2>1, <2>2
<1> QED
  BY <1>1, <1>2, <1>3 DEF IsFilters, Decode

\* While the section is shown, the address bar holds its filters.
UrlInv == IsFilters(filters) /\ (here => url = Encode(filters))

LEMMA DecodeIsFilters == ASSUME NEW u PROVE IsFilters(Decode(u))
BY DEF Decode, IsFilters

\* Every change of the filters writes the address bar.
LEMMA PatchUrl ==
    ASSUME NEW f, IsFilters(f), Patch(f)
    PROVE  UrlInv'
BY DEF Patch, UrlInv, IsFilters

\* A page or a text of other filters.
LEMMA ChangedIsFilters ==
    ASSUME NEW f, IsFilters(f), NEW a, NEW b, NEW c
    PROVE  /\ IsFilters([f EXCEPT !.page = a])
           /\ IsFilters([f EXCEPT !.status = b, !.page = a])
           /\ IsFilters([f EXCEPT !.q = c, !.page = a])
<1> DEFINE x == f.status
           y == f.q
           z == f.page
<1>1. f = [status |-> x, q |-> y, page |-> z]
  BY DEF IsFilters
<1> HIDE DEF x, y, z
<1>2. [f EXCEPT !.page = a] = [status |-> x, q |-> y, page |-> a]
  BY <1>1
<1>3. [f EXCEPT !.status = b, !.page = a] = [status |-> b, q |-> y, page |-> a]
  <2>1. [f EXCEPT !.status = b] = [status |-> b, q |-> y, page |-> z]
    BY <1>1
  <2>2. ASSUME NEW h, h = [status |-> b, q |-> y, page |-> z]
        PROVE  [h EXCEPT !.page = a] = [status |-> b, q |-> y, page |-> a]
    BY <2>2
  <2> QED
    BY <2>1, <2>2
<1>4. [f EXCEPT !.q = c, !.page = a] = [status |-> x, q |-> c, page |-> a]
  <2>1. [f EXCEPT !.q = c] = [status |-> x, q |-> c, page |-> z]
    BY <1>1
  <2>2. ASSUME NEW h, h = [status |-> x, q |-> c, page |-> z]
        PROVE  [h EXCEPT !.page = a] = [status |-> x, q |-> c, page |-> a]
    BY <2>2
  <2> QED
    BY <2>1, <2>2
<1> QED
  BY <1>2, <1>3, <1>4 DEF IsFilters

LEMMA UrlInit == ListInit => UrlInv
BY DecodeIsFilters DEF ListInit, UrlInv

LEMMA UrlNext == UrlInv /\ [ListNext]_listVars => UrlInv'
<1> SUFFICES ASSUME UrlInv, [ListNext]_listVars PROVE UrlInv'
  OBVIOUS
<1>0. IsFilters(filters)
  BY DEF UrlInv
<1>1. ASSUME UNCHANGED <<here, filters, url>> PROVE UrlInv'
  BY <1>1 DEF UrlInv, IsFilters
<1>2. ASSUME UNCHANGED <<here, filterVars>> PROVE UrlInv'
  BY <1>1, <1>2 DEF filterVars
<1>3. ASSUME NEW k \in Keys, Enter(k) PROVE UrlInv'
  <2>1. PICK f \in {filters, [status |-> k.status, q |-> k.q, page |-> 1]} :
           filters' = f /\ url' = Encode(f)
    BY <1>3 DEF Enter
  <2>2. IsFilters(f)
    BY <1>0 DEF IsFilters
  <2> QED
    BY <2>1, <2>2 DEF UrlInv, IsFilters
<1>4. CASE Leave
  BY <1>4, <1>0 DEF Leave, UrlInv, IsFilters
<1>5. CASE Reload
  <2>1. filters' = filters
    BY <1>5, <1>0, EncodeDecode DEF Reload, UrlInv
  <2> QED
    BY <1>5, <2>1, <1>1 DEF Reload
<1>6. CASE Filter
  <2>1. PICK f \in TabsOf(filters) \cup ChipsOf(filters) \cup ViewsOf(filters) : Patch(f)
    BY <1>6 DEF Filter
  <2>2. CASE f \in TabsOf(filters)
    BY <2>1, <2>2, <1>0, ChangedIsFilters, PatchUrl DEF TabsOf
  <2>3. CASE f \in ChipsOf(filters)
    BY <2>1, <2>3, <1>0, ChangedIsFilters, DecodeIsFilters, PatchUrl DEF ChipsOf
  <2>4. CASE f \in ViewsOf(filters)
    <3>1. IsFilters(f)
      BY <2>4 DEF ViewsOf, IsFilters
    <3> QED
      BY <2>1, <3>1, PatchUrl
  <2> QED
    BY <2>1, <2>2, <2>3, <2>4
<1>7. ASSUME NEW q \in Texts, Type(q) PROVE UrlInv'
  BY <1>7, <1>1 DEF Type
<1>8. CASE Debounce
  BY <1>8, <1>0, ChangedIsFilters, PatchUrl DEF Debounce
<1>9. CASE Turn
  BY <1>9, <1>0, ChangedIsFilters, PatchUrl DEF Turn
<1>10. CASE Refresh \/ Read \/ FailList
  BY <1>10, <1>2 DEF Refresh, Read, FailList
<1>11. CASE Answer
  <2>1. UNCHANGED here
    BY <1>11 DEF Answer
  <2>2. CASE UNCHANGED filterVars
    BY <2>1, <2>2, <1>2
  <2>3. CASE Patch([filters EXCEPT !.page = Pages(request.page.total)])
    BY <2>3, <1>0, ChangedIsFilters, PatchUrl
  <2> QED
    BY <1>11, <2>2, <2>3 DEF Answer
<1>12. ASSUME NEW e \in Episodes, Tick(e) PROVE UrlInv'
  BY <1>12, <1>2 DEF Tick
<1>13. CASE TickPage \/ SelectAllMatching \/ Deselect
  BY <1>13, <1>2 DEF TickPage, SelectAllMatching, Deselect
<1>14. ASSUME NEW op \in BulkOps, RunBulk(op) PROVE UrlInv'
  BY <1>14, <1>2 DEF RunBulk
<1>15. CASE Confirm \/ Cancel
  BY <1>15, <1>2 DEF Confirm, Cancel
<1>16. ASSUME NEW op \in BulkOps, Execute(op) \/ BulkAnswer(op) PROVE UrlInv'
  BY <1>16, <1>2 DEF Execute, BulkAnswer
<1>17. CASE UNCHANGED listVars
  BY <1>17, <1>2 DEF listVars
<1> QED
  BY <1>3, <1>4, <1>5, <1>6, <1>7, <1>8, <1>9, <1>10, <1>11, <1>12, <1>13, <1>14, <1>15,
     <1>16, <1>17
  DEF ListNext, UserStep, SystemStep, ListRequests

\* A reload of the console reads back the filters and the page it showed
\* (readFilters and the effect that writes the query string, AdminConsole.tsx).
THEOREM ReloadIsHarmless == ListSpec => ReloadKeepsSlice
<1>1. UrlInv /\ [ListNext]_listVars => [Reload => filters' = filters]_listVars
  <2>1. ASSUME UrlInv, Reload PROVE filters' = filters
    BY <2>1, EncodeDecode DEF Reload, UrlInv
  <2> QED
    BY <2>1
<1> QED
  BY <1>1, UrlInit, UrlNext, PTL DEF ListSpec, ReloadKeepsSlice
=============================================================================
