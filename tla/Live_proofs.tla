------------------------------- MODULE Live_proofs -------------------------------
(***************************************************************************)
(* Theorems about the stream route and what the console shows, for any     *)
(* streams, caps, tables, panels, sizes of queues and numbers of changes.  *)
(***************************************************************************)
EXTENDS LiveConsole, FiniteSetTheorems, TLAPS

-----------------------------------------------------------------------------
(* The streams.                                                             *)

\* Exactly the open streams have still to be released.
ReleasedOnce == \A r \in Streams : phase[r] = "open" <=> ~released[r]

StreamInv == StreamTypeOK /\ ReleasedOnce /\ CountCoversOpen /\ OvershootBounded

LEMMA StreamSets ==
    /\ Open \subseteq Streams /\ IsFiniteSet(Open) /\ Cardinality(Open) \in Nat
    /\ Uncounted \subseteq Streams /\ IsFiniteSet(Uncounted) /\ Cardinality(Uncounted) \in Nat
    /\ Cardinality(Streams) \in Nat /\ Cardinality(Uncounted) <= Cardinality(Streams)
<1>1. Open \subseteq Streams /\ Uncounted \subseteq Streams
  BY DEF Open, Uncounted
<1> QED
  BY <1>1, StreamsAssumption, FS_Subset, FS_CardinalityType

LEMMA StreamInvInit == StreamInit => StreamInv
<1> SUFFICES ASSUME StreamInit PROVE StreamInv
  OBVIOUS
<1>1. Open = {} /\ Uncounted = {}
  BY DEF StreamInit, Open, Uncounted
<1>2. Cardinality(Open) = 0 /\ Cardinality(Uncounted) = 0
  BY <1>1, FS_EmptySet
<1>3. StreamTypeOK /\ ReleasedOnce
  BY DEF StreamInit, StreamTypeOK, ReleasedOnce, Phases
<1>4. CountCoversOpen /\ OvershootBounded
  BY <1>2, StreamSets, CapAssumption
     DEF StreamInit, CountCoversOpen, OvershootBounded
<1> QED
  BY <1>3, <1>4 DEF StreamInv

\* A request in `from` moves to `to`.
LEMMA MoveSets ==
    ASSUME StreamTypeOK, NEW r \in Streams, NEW p \in Phases, MoveTo(r, p)
    PROVE  /\ phase' \in [Streams -> Phases] /\ phase'[r] = p
           /\ \A s \in Streams : s # r => phase'[s] = phase[s]
           /\ Open' = IF p = "open" THEN Open \cup {r} ELSE Open \ {r}
           /\ Uncounted' = IF p = "checked" THEN Uncounted \cup {r} ELSE Uncounted \ {r}
<1>1. /\ phase' \in [Streams -> Phases] /\ phase'[r] = p
      /\ \A s \in Streams : s # r => phase'[s] = phase[s]
  BY DEF StreamTypeOK, MoveTo
<1> QED
  BY <1>1 DEF Open, Uncounted

LEMMA OneElement ==
    ASSUME NEW S, IsFiniteSet(S), NEW x
    PROVE  /\ x \in S => Cardinality(S \ {x}) = Cardinality(S) - 1
           /\ x \notin S => Cardinality(S \ {x}) = Cardinality(S)
           /\ Cardinality(S \cup {x}) <= Cardinality(S) + 1
<1>1. Cardinality(S) \in Nat
  BY FS_CardinalityType
<1>2. Cardinality(S \ {x}) = IF x \in S THEN Cardinality(S) - 1 ELSE Cardinality(S)
  BY FS_RemoveElement, Zenon
<1>3. Cardinality(S \cup {x}) = IF x \in S THEN Cardinality(S) ELSE Cardinality(S) + 1
  BY FS_AddElement, Zenon
<1> QED
  BY <1>1, <1>2, <1>3

LEMMA MoveCounts ==
    ASSUME StreamTypeOK, NEW r \in Streams, NEW p \in Phases, MoveTo(r, p)
    PROVE  /\ p = "open" => Cardinality(Open') <= Cardinality(Open) + 1
           /\ p # "open" /\ r \in Open => Cardinality(Open') = Cardinality(Open) - 1
           /\ p # "open" /\ r \notin Open => Cardinality(Open') = Cardinality(Open)
           /\ p = "checked" => Cardinality(Uncounted') <= Cardinality(Uncounted) + 1
           /\ p # "checked" /\ r \in Uncounted => Cardinality(Uncounted') = Cardinality(Uncounted) - 1
           /\ p # "checked" /\ r \notin Uncounted => Cardinality(Uncounted') = Cardinality(Uncounted)
<1>1. /\ p = "open" => Open' = Open \cup {r}
      /\ p # "open" => Open' = Open \ {r}
      /\ p # "checked" => Uncounted' = Uncounted \ {r}
      /\ p = "checked" => Uncounted' = Uncounted \cup {r}
  BY MoveSets
<1>2. IsFiniteSet(Open) /\ IsFiniteSet(Uncounted)
  BY StreamSets
<1>3. /\ Cardinality(Open \cup {r}) <= Cardinality(Open) + 1
      /\ r \in Open => Cardinality(Open \ {r}) = Cardinality(Open) - 1
      /\ r \notin Open => Cardinality(Open \ {r}) = Cardinality(Open)
  BY <1>2, OneElement
<1>4. /\ Cardinality(Uncounted \cup {r}) <= Cardinality(Uncounted) + 1
      /\ r \in Uncounted => Cardinality(Uncounted \ {r}) = Cardinality(Uncounted) - 1
      /\ r \notin Uncounted => Cardinality(Uncounted \ {r}) = Cardinality(Uncounted)
  BY <1>2, OneElement
<1> QED
  BY <1>1, <1>3, <1>4, Zenon

\* Releasing a stream that was open counts it down, another release does nothing.
LEMMA ReleaseCounts ==
    ASSUME StreamTypeOK, NEW r \in Streams, Release(r)
    PROVE  /\ released' \in [Streams -> BOOLEAN] /\ released'[r]
           /\ \A s \in Streams : s # r => released'[s] = released[s]
           /\ activeStreams' \in Nat /\ activeStreams' <= activeStreams
           /\ released[r] => activeStreams' = activeStreams
           /\ activeStreams' >= activeStreams - 1
<1>1. CASE released[r]
  BY <1>1 DEF StreamTypeOK, Release
<1>2. CASE ~released[r]
  <2>1. /\ released' = [released EXCEPT ![r] = TRUE]
        /\ activeStreams' = IF activeStreams > 0 THEN activeStreams - 1 ELSE 0
    BY <1>2 DEF Release
  <2>2. /\ released' \in [Streams -> BOOLEAN] /\ released'[r]
        /\ \A s \in Streams : s # r => released'[s] = released[s]
    BY <2>1 DEF StreamTypeOK
  <2>3. activeStreams' \in Nat /\ activeStreams' <= activeStreams /\ activeStreams' >= activeStreams - 1
    BY <2>1 DEF StreamTypeOK
  <2> QED
    BY <1>2, <2>2, <2>3
<1> QED
  BY <1>1, <1>2

LEMMA StreamInvStep == StreamInv /\ [StreamNext]_streamVars => StreamInv'
<1> SUFFICES ASSUME StreamInv, [StreamNext]_streamVars PROVE StreamInv'
  OBVIOUS
<1>0. StreamTypeOK /\ ReleasedOnce /\ CountCoversOpen /\ OvershootBounded
  BY DEF StreamInv
<1>a. /\ activeStreams \in Nat /\ crowd \in Nat /\ MaxConcurrentStreams \in Nat
      /\ Cardinality(Open) <= activeStreams
      /\ activeStreams + Cardinality(Uncounted) <= MaxConcurrentStreams - 1 + crowd
      /\ Cardinality(Open) \in Nat /\ Cardinality(Uncounted) \in Nat /\ Cardinality(Streams) \in Nat
  BY <1>0, StreamSets, CapAssumption
     DEF StreamTypeOK, CountCoversOpen, OvershootBounded
<1>b. /\ IsFiniteSet(Open) /\ IsFiniteSet(Uncounted)
      /\ Cardinality(Uncounted)' <= Cardinality(Streams)
      /\ Cardinality(Open)' \in Nat /\ Cardinality(Uncounted)' \in Nat
  <2>1. Open' \subseteq Streams /\ Uncounted' \subseteq Streams
    BY DEF Open, Uncounted
  <2> QED
    BY <2>1, StreamSets, StreamsAssumption, FS_Subset, FS_CardinalityType
<1>c. ASSUME Cardinality(Open') <= activeStreams',
             activeStreams' + Cardinality(Uncounted') <= MaxConcurrentStreams - 1 + crowd'
      PROVE  CountCoversOpen' /\ OvershootBounded'
  BY <1>c DEF CountCoversOpen, OvershootBounded
<1>1. ASSUME NEW r \in Streams, Ask(r) PROVE StreamInv'
  <2>1. PICK p \in {"checked", "refused"} :
            /\ MoveTo(r, p)
            /\ p = "checked" => /\ activeStreams < MaxConcurrentStreams
                                /\ crowd' = Cardinality(Uncounted) + 1
            /\ p = "refused" => crowd' = crowd
    BY <1>1 DEF Ask
  <2>2. phase[r] = "none" /\ released' = released /\ activeStreams' = activeStreams
    BY <1>1 DEF Ask
  <2>3. p \in Phases
    BY DEF Phases
  <2>4. /\ phase' \in [Streams -> Phases] /\ phase'[r] = p
        /\ \A s \in Streams : s # r => phase'[s] = phase[s]
    BY <1>0, <2>1, <2>3, MoveSets
  <2>a. /\ Cardinality(Open') <= Cardinality(Open)
        /\ p = "refused" => Cardinality(Uncounted') = Cardinality(Uncounted)
        /\ p = "checked" => Cardinality(Uncounted') <= Cardinality(Uncounted) + 1
    <3>1. r \notin Uncounted /\ r \notin Open
      BY <2>2 DEF Uncounted, Open
    <3> QED
      BY <1>0, <1>a, <2>1, <2>3, <3>1, MoveCounts
  <2>b. crowd' \in Nat
    BY <1>a, <2>1
  <2>5. StreamTypeOK' /\ ReleasedOnce'
    BY <1>0, <2>2, <2>4, <2>b DEF StreamTypeOK, ReleasedOnce
  <2>6. Cardinality(Open') <= activeStreams'
    BY <1>a, <1>b, <2>2, <2>a
  <2>7. activeStreams' + Cardinality(Uncounted') <= MaxConcurrentStreams - 1 + crowd'
    <3>1. CASE p = "checked"
      BY <1>a, <1>b, <2>1, <2>2, <2>a, <3>1
    <3>2. CASE p # "checked"
      BY <1>a, <2>1, <2>2, <2>a, <3>2
    <3> QED
      BY <3>1, <3>2
  <2> QED
    BY <1>c, <2>5, <2>6, <2>7 DEF StreamInv
<1>2. ASSUME NEW r \in Streams, Deny(r) \/ EndEarly(r) PROVE StreamInv'
  <2>1. /\ phase[r] = "checked" /\ released' = released /\ crowd' = crowd
        /\ activeStreams' \in {activeStreams, activeStreams + 1}
    BY <1>2 DEF Deny, EndEarly
  <2>2. PICK p \in {"refused", "none"} : MoveTo(r, p)
    BY <1>2 DEF Deny, EndEarly
  <2>3. p \in Phases /\ r \in Uncounted
    BY <2>1 DEF Phases, Uncounted
  <2>4. /\ phase' \in [Streams -> Phases] /\ phase'[r] = p
        /\ \A s \in Streams : s # r => phase'[s] = phase[s]
    BY <1>0, <2>2, <2>3, MoveSets
  <2>a. /\ Cardinality(Open') = Cardinality(Open)
        /\ Cardinality(Uncounted') = Cardinality(Uncounted) - 1
    <3>1. r \notin Open
      BY <2>1 DEF Open
    <3> QED
      BY <1>0, <2>2, <2>3, <3>1, MoveCounts
  <2>b. activeStreams' \in Nat /\ activeStreams' >= activeStreams /\ activeStreams' <= activeStreams + 1
    BY <1>a, <2>1
  <2>5. StreamTypeOK' /\ ReleasedOnce'
    BY <1>0, <2>1, <2>4, <2>b DEF StreamTypeOK, ReleasedOnce
  <2>6. Cardinality(Open') <= activeStreams'
    BY <1>a, <2>1, <2>a, <2>b
  <2>7. activeStreams' + Cardinality(Uncounted') <= MaxConcurrentStreams - 1 + crowd'
    BY <1>a, <2>1, <2>a, <2>b
  <2> QED
    BY <1>c, <2>5, <2>6, <2>7 DEF StreamInv
<1>3. ASSUME NEW r \in Streams, Serve(r) PROVE StreamInv'
  <2>1. /\ phase[r] = "checked" /\ MoveTo(r, "open")
        /\ released' = [released EXCEPT ![r] = FALSE] /\ activeStreams' = activeStreams + 1
        /\ crowd' = crowd
    BY <1>3 DEF Serve
  <2>2. r \in Uncounted /\ "open" \in Phases
    BY <2>1 DEF Uncounted, Phases
  <2>3. /\ phase' \in [Streams -> Phases] /\ phase'[r] = "open"
        /\ \A s \in Streams : s # r => phase'[s] = phase[s]
    BY <1>0, <2>1, <2>2, MoveSets
  <2>a. /\ Cardinality(Open') <= Cardinality(Open) + 1
        /\ Cardinality(Uncounted') = Cardinality(Uncounted) - 1
    BY <1>0, <2>1, <2>2, MoveCounts
  <2>b. activeStreams' \in Nat
    BY <1>a, <2>1
  <2>c. /\ released' \in [Streams -> BOOLEAN] /\ ~released'[r]
        /\ \A s \in Streams : s # r => released'[s] = released[s]
    BY <1>0, <2>1 DEF StreamTypeOK
  <2>4. StreamTypeOK' /\ ReleasedOnce'
    BY <1>0, <2>1, <2>3, <2>b, <2>c DEF StreamTypeOK, ReleasedOnce
  <2>5. Cardinality(Open') <= activeStreams'
    BY <1>a, <1>b, <2>1, <2>a
  <2>6. activeStreams' + Cardinality(Uncounted') <= MaxConcurrentStreams - 1 + crowd'
    BY <1>a, <1>b, <2>1, <2>a
  <2> QED
    BY <1>c, <2>4, <2>5, <2>6 DEF StreamInv
<1>4. ASSUME NEW r \in Streams, End(r) \/ EndAgain(r) PROVE StreamInv'
  <2>1. phase[r] \in {"open", "closing"} /\ Release(r) /\ crowd' = crowd
    BY <1>4 DEF End, EndAgain
  <2>2. PICK p \in {"closing", "none"} : MoveTo(r, p)
    BY <1>4 DEF End, EndAgain
  <2>3. p \in Phases /\ r \notin Uncounted
    BY <2>1 DEF Phases, Uncounted
  <2>4. /\ phase' \in [Streams -> Phases] /\ phase'[r] = p
        /\ \A s \in Streams : s # r => phase'[s] = phase[s]
    BY <1>0, <2>2, <2>3, MoveSets
  <2>a. /\ r \in Open => Cardinality(Open') = Cardinality(Open) - 1
        /\ r \notin Open => Cardinality(Open') = Cardinality(Open)
        /\ Cardinality(Uncounted') = Cardinality(Uncounted)
    BY <1>0, <2>2, <2>3, MoveCounts
  <2>5. /\ released' \in [Streams -> BOOLEAN] /\ released'[r]
        /\ \A s \in Streams : s # r => released'[s] = released[s]
        /\ activeStreams' \in Nat /\ activeStreams' <= activeStreams
        /\ released[r] => activeStreams' = activeStreams
        /\ activeStreams' >= activeStreams - 1
    BY <1>0, <2>1, ReleaseCounts
  <2>6. StreamTypeOK' /\ ReleasedOnce'
    BY <1>0, <2>1, <2>4, <2>5 DEF StreamTypeOK, ReleasedOnce
  <2>7. r \in Open <=> ~released[r]
    BY <1>0 DEF Open, ReleasedOnce
  <2>8. Cardinality(Open') <= activeStreams'
    BY <1>a, <1>b, <2>5, <2>7, <2>a
  <2>9. activeStreams' + Cardinality(Uncounted') <= MaxConcurrentStreams - 1 + crowd'
    BY <1>a, <1>b, <2>1, <2>5, <2>a
  <2> QED
    BY <1>c, <2>6, <2>8, <2>9 DEF StreamInv
<1>5. CASE UNCHANGED streamVars
  BY <1>0, <1>5
     DEF streamVars, StreamInv, StreamTypeOK, ReleasedOnce, CountCoversOpen, OvershootBounded,
         Open, Uncounted
<1> QED
  BY <1>1, <1>2, <1>3, <1>4, <1>5 DEF StreamNext

LEMMA LiveMovesStreams == LiveNext => [StreamNext]_streamVars
<1>1. CASE Connect
  BY <1>1, MeAssumption DEF Connect, StreamNext
<1>2. CASE Disconnect
  BY <1>2, MeAssumption DEF Disconnect, StreamNext
<1>3. CASE OtherStreams
  BY <1>3, MeAssumption DEF OtherStreams, StreamNext
<1>4. CASE \E t \in Tables : Change(t)
  BY <1>4 DEF Change
<1>5. CASE StopListening \/ Listen \/ Flush \/ Ready \/ Invalidate \/ Tick
  BY <1>5 DEF StopListening, Listen, Flush, Ready, Invalidate, Tick
<1>6. CASE PanelNext
  BY <1>6 DEF PanelNext, OpenPanel, ClosePanel, Read, Answer, Fail
<1> QED
  BY <1>1, <1>2, <1>3, <1>4, <1>5, <1>6 DEF LiveNext

LEMMA StreamsOfLive == LiveSpec => []StreamInv
<1>1. LiveInit => StreamInv
  BY StreamInvInit DEF LiveInit
<1>2. StreamInv /\ [LiveNext]_liveVars => StreamInv'
  BY LiveMovesStreams, StreamInvStep DEF liveVars, streamVars
<1> QED
  BY <1>1, <1>2, PTL DEF LiveSpec

\* For any number of streams and any cap, the count never runs below the streams
\* that are open, whichever callbacks of a request release it (stream/route.ts).
THEOREM CountIsNoLess == LiveSpec => []CountCoversOpen
<1>1. StreamInv => CountCoversOpen
  BY DEF StreamInv
<1> QED
  BY <1>1, StreamsOfLive, PTL

\* For any number of streams and any cap, the count goes past the cap only by requests
\* that overlapped between its test and their count.
THEOREM OvershootIsBounded == LiveSpec => []OvershootBounded
<1>1. StreamInv => OvershootBounded
  BY DEF StreamInv
<1> QED
  BY <1>1, StreamsOfLive, PTL

-----------------------------------------------------------------------------
(* What the panels show.                                                    *)

Versions == [Tables -> Nat]

PanelTypeOK ==
    /\ version \in Versions
    /\ shown \in [Panels -> Versions]
    /\ asked \in [Panels -> SUBSET ({Unread} \cup Versions)]
    /\ visible \subseteq Panels

\* A panel waits for one answer at most; it is not older than what the panel shows.
AnswersInOrder ==
    \A p \in Panels :
        /\ \A r, s \in asked[p] : r = s
        /\ Fresh!NotAfter(shown[p], version)
        /\ \A s \in asked[p] \ {Unread} :
              Fresh!NotAfter(shown[p], s) /\ Fresh!NotAfter(s, version)

PanelInv == PanelTypeOK /\ AnswersInOrder

LEMMA SameIsNotAfter == ASSUME NEW v \in Versions PROVE Fresh!NotAfter(v, v)
BY DEF Versions, Fresh!NotAfter

LEMMA PanelInvInit == LiveInit => PanelInv
<1> SUFFICES ASSUME LiveInit PROVE PanelInv
  OBVIOUS
<1>1. /\ version = [t \in Tables |-> 0] /\ shown = [p \in Panels |-> version]
      /\ asked = [p \in Panels |-> IF p = "overview" THEN {Unread} ELSE {}]
      /\ visible = {"overview"} \cap Panels
  BY DEF LiveInit
<1>2. version \in Versions
  BY <1>1 DEF Versions
<1>3. PanelTypeOK
  BY <1>1, <1>2 DEF PanelTypeOK
<1>4. AnswersInOrder
  BY <1>1, <1>2, SameIsNotAfter DEF AnswersInOrder
<1> QED
  BY <1>3, <1>4 DEF PanelInv

\* New requests take the place of those under way.
LEMMA RefetchKeeps ==
    ASSUME PanelInv, NEW S, Refetch(S), version' = version
    PROVE  PanelInv' /\ shown' = shown /\ visible' = visible
<1>1. /\ asked' = [p \in Panels |-> IF p \in S \cap visible THEN {Unread} ELSE asked[p]]
      /\ shown' = shown /\ visible' = visible /\ version' = version
  BY DEF Refetch
<1>2. \A p \in Panels : asked'[p] = {Unread} \/ asked'[p] = asked[p]
  BY <1>1
<1>3. PanelTypeOK'
  BY <1>1 DEF PanelInv, PanelTypeOK, Versions, Unread
<1>4. AnswersInOrder'
  BY <1>1, <1>2 DEF PanelInv, AnswersInOrder, Unread, Fresh!NotAfter
<1> QED
  BY <1>1, <1>3, <1>4 DEF PanelInv

LEMMA PanelInvSame ==
    ASSUME PanelInv, UNCHANGED <<version, panelVars>> PROVE PanelInv'
BY DEF panelVars, PanelInv, PanelTypeOK, AnswersInOrder, Versions, Unread, Fresh!NotAfter

\* The steps that change no version and show nothing new keep what the panels wait for.
LEMMA QuietKeeps ==
    ASSUME PanelInv, NEW p \in Panels, version' = version, shown' = shown,
           visible' \subseteq Panels,
           asked' = [asked EXCEPT ![p] = {Unread}] \/ asked' = [asked EXCEPT ![p] = {}]
    PROVE  PanelInv'
<1>1. \A q \in Panels : asked'[q] = asked[q] \/ asked'[q] = {Unread} \/ asked'[q] = {}
  BY DEF PanelInv, PanelTypeOK
<1>2. PanelTypeOK'
  BY DEF PanelInv, PanelTypeOK, Versions, Unread
<1>3. AnswersInOrder'
  BY <1>1 DEF PanelInv, AnswersInOrder, Unread, Fresh!NotAfter
<1> QED
  BY <1>2, <1>3 DEF PanelInv

LEMMA ChangeKeeps ==
    ASSUME PanelInv, NEW t \in Tables, Change(t) PROVE PanelInv'
<1>1. /\ version' = [version EXCEPT ![t] = @ + 1]
      /\ asked' = asked /\ shown' = shown /\ visible' = visible
  BY DEF Change, panelVars
<1>2. version' \in Versions
  BY <1>1 DEF PanelInv, PanelTypeOK, Versions
<1>3. \A s \in Versions : Fresh!NotAfter(s, version) => Fresh!NotAfter(s, version')
  BY <1>1, <1>2 DEF PanelInv, PanelTypeOK, Versions, Fresh!NotAfter
<1>4. PanelTypeOK'
  BY <1>1, <1>2 DEF PanelInv, PanelTypeOK, Versions, Unread
<1>5. AnswersInOrder'
  <2> SUFFICES ASSUME NEW p \in Panels
               PROVE  /\ \A r, s \in asked'[p] : r = s
                      /\ Fresh!NotAfter(shown'[p], version')
                      /\ \A s \in asked'[p] \ {Unread} :
                            Fresh!NotAfter(shown'[p], s) /\ Fresh!NotAfter(s, version')
    BY DEF AnswersInOrder, Unread, Fresh!NotAfter
  <2>1. shown[p] \in Versions /\ \A s \in asked[p] \ {Unread} : s \in Versions
    BY DEF PanelInv, PanelTypeOK
  <2> QED
    BY <1>1, <1>3, <2>1 DEF PanelInv, AnswersInOrder
<1> QED
  BY <1>4, <1>5 DEF PanelInv

LEMMA ReadKeeps ==
    ASSUME PanelInv, NEW p \in Panels, Read(p) PROVE PanelInv' /\ asked'[p] = {version}
<1>1. /\ Unread \in asked[p]
      /\ asked' = [asked EXCEPT ![p] = (@ \ {Unread}) \cup {version}]
      /\ version' = version /\ shown' = shown /\ visible' = visible
  BY DEF Read, feedVars
<1>2. asked[p] = {Unread}
  BY <1>1 DEF PanelInv, AnswersInOrder
<1>3. /\ asked'[p] = {version}
      /\ \A q \in Panels : q # p => asked'[q] = asked[q]
  BY <1>1, <1>2 DEF PanelInv, PanelTypeOK
<1>4. PanelTypeOK'
  BY <1>1 DEF PanelInv, PanelTypeOK, Versions, Unread
<1>5. Fresh!NotAfter(version, version)
  BY SameIsNotAfter DEF PanelInv, PanelTypeOK
<1>6. AnswersInOrder'
  BY <1>1, <1>3, <1>5 DEF PanelInv, AnswersInOrder, Unread, Fresh!NotAfter
<1> QED
  BY <1>3, <1>4, <1>6 DEF PanelInv

LEMMA AnswerKeeps ==
    ASSUME PanelInv, NEW p \in Panels, Answer(p)
    PROVE  /\ PanelInv' /\ version' = version
           /\ shown' = [shown EXCEPT ![p] = shown'[p]]
           /\ asked[p] = {shown'[p]} /\ asked'[p] = {}
           /\ shown'[p] \in Versions
           /\ Fresh!NotAfter(shown[p], shown'[p]) /\ Fresh!NotAfter(shown'[p], version)
           /\ \A q \in Panels : q # p => shown'[q] = shown[q] /\ asked'[q] = asked[q]
<1>1. PICK s \in asked[p] \ {Unread} :
          shown' = [shown EXCEPT ![p] = s] /\ asked' = [asked EXCEPT ![p] = @ \ {s}]
  BY DEF Answer
<1>2. version' = version /\ visible' = visible
  BY DEF Answer, feedVars
<1>3. s \in Versions
  BY <1>1 DEF PanelInv, PanelTypeOK
<1>4. /\ shown'[p] = s /\ asked'[p] = asked[p] \ {s}
      /\ \A q \in Panels : q # p => shown'[q] = shown[q] /\ asked'[q] = asked[q]
  BY <1>1 DEF PanelInv, PanelTypeOK
<1>5. asked[p] = {s} /\ asked'[p] = {}
  BY <1>1, <1>4 DEF PanelInv, AnswersInOrder
<1>6. Fresh!NotAfter(shown[p], s) /\ Fresh!NotAfter(s, version)
  BY <1>1 DEF PanelInv, AnswersInOrder
<1>7. PanelTypeOK'
  BY <1>1, <1>2, <1>3 DEF PanelInv, PanelTypeOK, Versions, Unread
<1>8. AnswersInOrder'
  BY <1>2, <1>4, <1>5, <1>6 DEF PanelInv, AnswersInOrder, Unread, Fresh!NotAfter
<1> QED
  BY <1>1, <1>2, <1>3, <1>4, <1>5, <1>6, <1>7, <1>8 DEF PanelInv

\* Every step of the console is one of FreshView, or changes nothing of it.
LEMMA PanelInvStep ==
    PanelInv /\ [LiveNext]_liveVars => PanelInv' /\ [Fresh!Next]_Fresh!freshVars
<1> SUFFICES ASSUME PanelInv, [LiveNext]_liveVars
             PROVE  PanelInv' /\ [Fresh!Next]_Fresh!freshVars
  OBVIOUS
<1>a. version' = version /\ shown' = shown => [Fresh!Next]_Fresh!freshVars
  BY DEF Fresh!freshVars
<1>1. ASSUME NEW t \in Tables, Change(t) PROVE PanelInv' /\ [Fresh!Next]_Fresh!freshVars
  <2>1. Fresh!Change
    BY <1>1 DEF Change, panelVars, Fresh!Change
  <2> QED
    BY <1>1, <2>1, ChangeKeeps DEF Fresh!Next
<1>2. CASE StopListening \/ Listen \/ Flush \/ Connect \/ Disconnect \/ OtherStreams
  <2>1. UNCHANGED <<version, panelVars>>
    BY <1>2 DEF StopListening, Listen, Flush, Connect, Disconnect, OtherStreams, feedVars
  <2> QED
    BY <1>a, <2>1, PanelInvSame DEF panelVars
<1>3. CASE Ready \/ Invalidate \/ Tick
  <2>1. version' = version /\ (UNCHANGED panelVars \/ \E S : Refetch(S))
    BY <1>3 DEF Ready, Invalidate, Tick, BumpAll, feedVars
  <2>2. CASE UNCHANGED panelVars
    BY <1>a, <2>1, <2>2, PanelInvSame DEF panelVars
  <2>3. ASSUME NEW S, Refetch(S) PROVE PanelInv' /\ [Fresh!Next]_Fresh!freshVars
    BY <1>a, <2>1, <2>3, RefetchKeeps
  <2> QED
    BY <2>1, <2>2, <2>3
<1>4. ASSUME NEW p \in Panels, OpenPanel(p) \/ ClosePanel(p) \/ Fail(p)
      PROVE  PanelInv' /\ [Fresh!Next]_Fresh!freshVars
  <2>1. /\ version' = version /\ shown' = shown
        /\ asked' = [asked EXCEPT ![p] = {Unread}] \/ asked' = [asked EXCEPT ![p] = {}]
    BY <1>4 DEF OpenPanel, ClosePanel, Fail, feedVars
  <2>2. visible' \subseteq Panels
    BY <1>4 DEF OpenPanel, ClosePanel, Fail, PanelInv, PanelTypeOK
  <2> QED
    BY <1>a, <2>1, <2>2, QuietKeeps
<1>5. ASSUME NEW p \in Panels, Read(p) PROVE PanelInv' /\ [Fresh!Next]_Fresh!freshVars
  <2>1. version' = version /\ shown' = shown
    BY <1>5 DEF Read, feedVars
  <2> QED
    BY <1>5, <1>a, <2>1, ReadKeeps
<1>6. ASSUME NEW p \in Panels, Answer(p) PROVE PanelInv' /\ [Fresh!Next]_Fresh!freshVars
  <2>1. Fresh!Show(p)
    BY <1>6, AnswerKeeps DEF Fresh!Show, Fresh!Snapshots, Versions
  <2> QED
    BY <1>6, <2>1, AnswerKeeps DEF Fresh!Next
<1>7. CASE UNCHANGED liveVars
  BY <1>7, <1>a, PanelInvSame DEF liveVars, feedVars, panelVars
<1> QED
  BY <1>1, <1>2, <1>3, <1>4, <1>5, <1>6, <1>7 DEF LiveNext, PanelNext

\* For any tables, panels and bounds: the console implements FreshView.  Every
\* panel shows a state the database has been in, and never goes back to an
\* earlier one, whatever the stream loses and whatever requests are cancelled
\* (useAdminLive.ts, and the effects that cancel what they asked before).
THEOREM ConsoleShowsFreshViews == LiveSpec => ShowsFreshViews
<1>1. LiveInit => Fresh!Init
  BY DEF LiveInit, Fresh!Init
<1> QED
  BY <1>1, PanelInvInit, PanelInvStep, PTL DEF LiveSpec, ShowsFreshViews, Fresh!Spec

-----------------------------------------------------------------------------
(* Nothing is stale without a cause.                                        *)

FeedTypeOK ==
    /\ pending \subseteq Tables
    /\ queue \in Seq(SUBSET Tables)
    /\ missed \in [Panels -> SUBSET Tables]
    /\ phase \in [Streams -> Phases]

\* Without a stream nothing is queued.
QueueOfStream == phase[Me] # "open" => queue = <<>>

FeedInv == PanelInv /\ FeedTypeOK /\ QueueOfStream /\ StaleOnItsWay

\* The panel that listens for a table asks anew when it is told of it.
LEMMA ReadersAreTold ==
    ASSUME NEW p \in Panels, NEW t \in ListensFor(p)
    PROVE  t \in Tables /\ Bumps(t) \cap Deps(p) # {}
<1> USE DEF ListensFor, TimerOnly, Reads, Bumps, Deps, Catalogue
<1>1. p \in {"overview", "attention", "audit", "podcasts", "episodes", "jobs",
             "history", "content", "episode", "job", "podcast menu"}
  BY PanelsAssumption
<1>2. t \in Tables
  OBVIOUS
<1>3. CASE p \in {"overview", "attention", "audit"}
  BY <1>3
<1>4. CASE p \in {"podcasts", "podcast menu"}
  BY <1>4
<1>5. CASE p \in {"episodes", "episode"}
  BY <1>5
<1>6. CASE p \in {"jobs", "history", "job"}
  BY <1>6
<1>7. CASE p = "content"
  BY <1>7
<1> QED
  BY <1>1, <1>2, <1>3, <1>4, <1>5, <1>6, <1>7

TablesOf(q) == UNION {q[i] : i \in 1..Len(q)}

LEMMA TablesOfAppend ==
    ASSUME NEW q \in Seq(SUBSET Tables), NEW S \in SUBSET Tables
    PROVE  TablesOf(Append(q, S)) = TablesOf(q) \cup S
<1>1. /\ Len(Append(q, S)) = Len(q) + 1 /\ Append(q, S)[Len(q) + 1] = S /\ Len(q) \in Nat
      /\ \A i \in 1..Len(q) : Append(q, S)[i] = q[i]
  OBVIOUS
<1>2. 1..Len(q) + 1 = (1..Len(q)) \cup {Len(q) + 1}
  BY <1>1
<1> QED
  BY <1>1, <1>2 DEF TablesOf

LEMMA TablesOfTail ==
    ASSUME NEW q \in Seq(SUBSET Tables), q # <<>>
    PROVE  /\ TablesOf(q) = Head(q) \cup TablesOf(Tail(q))
           /\ Head(q) \in SUBSET Tables /\ Tail(q) \in Seq(SUBSET Tables)
<1>1. /\ Head(q) = q[1] /\ Len(q) \in Nat \ {0} /\ Len(Tail(q)) = Len(q) - 1
      /\ \A i \in 1..Len(q) - 1 : Tail(q)[i] = q[i + 1]
      /\ Head(q) \in SUBSET Tables /\ Tail(q) \in Seq(SUBSET Tables)
  OBVIOUS
<1>2. ASSUME NEW t \in TablesOf(q) PROVE t \in Head(q) \cup TablesOf(Tail(q))
  <2>1. PICK i \in 1..Len(q) : t \in q[i]
    BY <1>2 DEF TablesOf
  <2>2. CASE i = 1
    BY <1>1, <2>1, <2>2
  <2>3. CASE i # 1
    <3>1. i - 1 \in 1..Len(q) - 1 /\ Tail(q)[i - 1] = q[i]
      BY <1>1, <2>1, <2>3
    <3> QED
      BY <1>1, <2>1, <3>1 DEF TablesOf
  <2> QED
    BY <2>2, <2>3
<1>3. ASSUME NEW t \in Head(q) \cup TablesOf(Tail(q)) PROVE t \in TablesOf(q)
  <2>1. CASE t \in Head(q)
    BY <1>1, <2>1 DEF TablesOf
  <2>2. CASE t \in TablesOf(Tail(q))
    <3>1. PICK i \in 1..Len(q) - 1 : t \in Tail(q)[i]
      BY <1>1, <2>2 DEF TablesOf
    <3>2. i + 1 \in 1..Len(q) /\ t \in q[i + 1]
      BY <1>1, <3>1
    <3> QED
      BY <3>2 DEF TablesOf
  <2> QED
    BY <1>3, <2>1, <2>2
<1> QED
  BY <1>1, <1>2, <1>3

\* A panel that is told of no change it reads, or asks anew.
LEMMA NewsOrAsked ==
    ASSUME FeedInv, NEW p \in visible', NEW t \in ListensFor(p) \ missed'[p],
           version' = version,
           \/ asked'[p] = {Unread}
           \/ /\ p \in visible /\ t \notin missed[p] /\ asked'[p] = asked[p]
              /\ shown'[p] = shown[p]
              /\ t \in pending \cup QueuedTables => t \in pending' \cup QueuedTables'
    PROVE  \/ shown'[p][t] = version'[t]
           \/ t \in pending' \cup QueuedTables'
           \/ Unread \in asked'[p]
           \/ \E s \in asked'[p] \ {Unread} : s[t] = version'[t]
BY DEF FeedInv, StaleOnItsWay

LEMMA FeedInvInit == LiveInit => FeedInv
<1> SUFFICES ASSUME LiveInit PROVE FeedInv
  OBVIOUS
<1>1. PanelInv
  BY PanelInvInit
<1>2. FeedTypeOK /\ QueueOfStream
  BY DEF LiveInit, StreamInit, FeedTypeOK, QueueOfStream, Phases
<1>3. StaleOnItsWay
  <2>1. \A p \in Panels : shown[p] = version
    BY DEF LiveInit
  <2>2. visible \subseteq Panels
    BY DEF LiveInit
  <2> QED
    BY <2>1, <2>2 DEF StaleOnItsWay
<1> QED
  BY <1>1, <1>2, <1>3 DEF FeedInv

\* The tables the panels miss are tables.
LEMMA MissKeeps ==
    ASSUME FeedTypeOK, NEW S \in SUBSET Tables, Miss(S)
    PROVE  /\ missed' \in [Panels -> SUBSET Tables]
           /\ \A p \in Panels : missed'[p] = missed[p] \cup (S \cap ListensFor(p))
BY DEF FeedTypeOK, Miss, ListensFor, Reads

\* Every step of a stream but those that open and end it leaves it as open as it was.
LEMMA OthersLeaveMine ==
    ASSUME FeedTypeOK, OtherStreams
    PROVE  /\ phase' \in [Streams -> Phases]
           /\ phase[Me] = "open" => phase'[Me] = "open"
<1>1. ASSUME NEW r \in Streams, NEW q \in Phases, MoveTo(r, q)
      PROVE  /\ phase' \in [Streams -> Phases]
             /\ r # Me => phase'[Me] = phase[Me]
  BY <1>1, MeAssumption DEF FeedTypeOK, MoveTo
<1>2. ASSUME NEW r \in Streams,
             Ask(r) \/ Deny(r) \/ Serve(r) \/ End(r) \/ EndAgain(r) \/ EndEarly(r)
      PROVE  \E q \in Phases : MoveTo(r, q)
  BY <1>2 DEF Ask, Deny, Serve, End, EndAgain, EndEarly, Phases
<1>3. CASE Ask(Me) \/ Deny(Me) \/ EndAgain(Me) \/ EndEarly(Me)
  <2>1. phase[Me] # "open"
    BY <1>3 DEF Ask, Deny, EndAgain, EndEarly
  <2> QED
    BY <1>1, <1>2, <1>3, <2>1, MeAssumption
<1>4. ASSUME NEW r \in Streams \ {Me},
             Ask(r) \/ Deny(r) \/ Serve(r) \/ End(r) \/ EndAgain(r) \/ EndEarly(r)
      PROVE  phase' \in [Streams -> Phases] /\ phase'[Me] = phase[Me]
  BY <1>1, <1>2, <1>4
<1> QED
  BY <1>3, <1>4 DEF OtherStreams

LEMMA FeedInvStep == FeedInv /\ [LiveNext]_liveVars => FeedInv'
<1> SUFFICES ASSUME FeedInv, [LiveNext]_liveVars PROVE FeedInv'
  OBVIOUS
<1>0. PanelInv /\ FeedTypeOK /\ QueueOfStream /\ StaleOnItsWay
  BY DEF FeedInv
<1>a. PanelInv'
  BY <1>0, PanelInvStep
<1>b. /\ visible \subseteq Panels /\ visible' \subseteq Panels
      /\ \A p \in Panels : ListensFor(p) \subseteq Tables
  BY <1>0, <1>a DEF PanelInv, PanelTypeOK, ListensFor, Reads
<1>c. ASSUME \A p \in visible' : \A t \in ListensFor(p) \ missed'[p] :
                \/ shown'[p][t] = version'[t]
                \/ t \in pending' \cup QueuedTables'
                \/ Unread \in asked'[p]
                \/ \E s \in asked'[p] \ {Unread} : s[t] = version'[t]
      PROVE  StaleOnItsWay'
  BY <1>c DEF StaleOnItsWay, ListensFor, Reads, Unread
<1>1. ASSUME NEW t0 \in Tables, Change(t0) PROVE FeedInv'
  <2>1. /\ version' = [version EXCEPT ![t0] = @ + 1]
        /\ phase' = phase /\ queue' = queue
        /\ asked' = asked /\ shown' = shown /\ visible' = visible
    BY <1>1 DEF Change, streamVars, panelVars
  <2>2. /\ pending' \subseteq Tables /\ missed' \in [Panels -> SUBSET Tables]
        /\ pending \subseteq pending' /\ \A p \in Panels : missed[p] \subseteq missed'[p]
        /\ \A p \in Panels : t0 \in ListensFor(p) => t0 \in pending' \cup missed'[p]
    <3>1. CASE listening
      BY <1>0, <1>1, <3>1 DEF Change, FeedTypeOK
    <3>2. CASE ~listening
      BY <1>0, <1>1, <3>2, MissKeeps DEF Change, FeedTypeOK
    <3> QED
      BY <3>1, <3>2
  <2>3. \A t \in Tables : t # t0 => version'[t] = version[t]
    BY <1>0, <2>1 DEF PanelInv, PanelTypeOK, Versions
  <2>4. StaleOnItsWay'
    <3> SUFFICES ASSUME NEW p \in visible', NEW t \in ListensFor(p) \ missed'[p]
                 PROVE  \/ shown'[p][t] = version'[t]
                        \/ t \in pending' \cup QueuedTables'
                        \/ Unread \in asked'[p]
                        \/ \E s \in asked'[p] \ {Unread} : s[t] = version'[t]
      BY <1>c
    <3>1. CASE t = t0
      BY <1>b, <2>2, <3>1
    <3>2. CASE t # t0
      <4>1. t \in Tables /\ version'[t] = version[t] /\ t \in ListensFor(p) \ missed[p] /\ p \in visible
        BY <1>b, <2>1, <2>2, <2>3, <3>2
      <4>2. QueuedTables' = QueuedTables
        BY <2>1 DEF QueuedTables
      <4> QED
        BY <1>0, <2>1, <2>2, <4>1, <4>2 DEF StaleOnItsWay
    <3> QED
      BY <3>1, <3>2
  <2> QED
    BY <1>0, <1>a, <2>1, <2>2, <2>4 DEF FeedInv, FeedTypeOK, QueueOfStream
<1>2. ASSUME \/ StopListening \/ Listen \/ Flush \/ Connect \/ Disconnect \/ OtherStreams
      PROVE  FeedInv'
  <2>1. version' = version /\ asked' = asked /\ shown' = shown /\ visible' = visible
    BY <1>2
       DEF StopListening, Listen, Flush, Connect, Disconnect, OtherStreams, feedVars, panelVars
  <2>2. ASSUME FeedTypeOK', QueueOfStream',
               \A p \in Panels : /\ missed[p] \subseteq missed'[p]
                                 /\ \A t \in ListensFor(p) \ missed'[p] :
                                       t \in pending \cup QueuedTables
                                           => t \in pending' \cup QueuedTables'
        PROVE  FeedInv'
    <3>1. StaleOnItsWay'
      <4> SUFFICES ASSUME NEW p \in visible', NEW t \in ListensFor(p) \ missed'[p]
                   PROVE  \/ shown'[p][t] = version'[t]
                          \/ t \in pending' \cup QueuedTables'
                          \/ Unread \in asked'[p]
                          \/ \E s \in asked'[p] \ {Unread} : s[t] = version'[t]
        BY <1>c
      <4> QED
        BY <1>b, <2>1, <2>2, NewsOrAsked
    <3> QED
      BY <1>a, <2>2, <3>1 DEF FeedInv
  <2>3. CASE StopListening
    <3>1. /\ queue' = queue /\ phase' = phase
          /\ \/ pending' = {} /\ Miss(pending)
             \/ pending' = pending /\ missed' = missed
      BY <2>3 DEF StopListening, streamVars
    <3>2. QueuedTables' = QueuedTables
      BY <3>1 DEF QueuedTables
    <3>3. CASE pending' = {} /\ Miss(pending)
      BY <1>0, <2>2, <3>1, <3>2, <3>3, MissKeeps DEF FeedTypeOK, QueueOfStream
    <3>4. CASE pending' = pending /\ missed' = missed
      BY <1>0, <2>2, <3>1, <3>2, <3>4 DEF FeedTypeOK, QueueOfStream
    <3> QED
      BY <3>1, <3>3, <3>4
  <2>4. CASE Listen
    BY <1>0, <2>2, <2>4 DEF Listen, streamVars, FeedTypeOK, QueueOfStream, QueuedTables
  <2>5. CASE Flush
    <3>1. pending' = {} /\ phase' = phase
      BY <2>5 DEF Flush, streamVars
    <3>2. CASE phase[Me] # "open"
      <4>1. queue' = queue /\ Miss(pending)
        BY <2>5, <3>2 DEF Flush
      <4>2. QueuedTables' = QueuedTables
        BY <4>1 DEF QueuedTables
      <4> QED
        BY <1>0, <2>2, <3>1, <4>1, <4>2, MissKeeps DEF FeedTypeOK, QueueOfStream
    <3>3. CASE phase[Me] = "open" /\ Len(queue) < QueueSize
      <4>1. queue' = Append(queue, pending) /\ missed' = missed
        BY <2>5, <3>3 DEF Flush
      <4>2. QueuedTables' = QueuedTables \cup pending
        BY <1>0, <4>1, TablesOfAppend DEF QueuedTables, TablesOf, FeedTypeOK
      <4>3. FeedTypeOK' /\ QueueOfStream'
        BY <1>0, <3>1, <3>3, <4>1 DEF FeedTypeOK, QueueOfStream
      <4> QED
        BY <2>2, <4>1, <4>2, <4>3
    <3>4. CASE phase[Me] = "open" /\ ~(Len(queue) < QueueSize)
      <4>1. queue' = Append(Tail(queue), pending) /\ Miss(Head(queue))
        BY <2>5, <3>4 DEF Flush
      <4>2. queue # <<>>
        BY <3>4, SizesAssumption
      <4>3. /\ QueuedTables = Head(queue) \cup TablesOf(Tail(queue))
            /\ Head(queue) \in SUBSET Tables /\ Tail(queue) \in Seq(SUBSET Tables)
        BY <1>0, <4>2, TablesOfTail DEF QueuedTables, TablesOf, FeedTypeOK
      <4>4. QueuedTables' = TablesOf(Tail(queue)) \cup pending
        BY <1>0, <4>1, <4>3, TablesOfAppend DEF QueuedTables, TablesOf, FeedTypeOK
      <4>5. /\ missed' \in [Panels -> SUBSET Tables]
            /\ \A p \in Panels : missed'[p] = missed[p] \cup (Head(queue) \cap ListensFor(p))
        BY <1>0, <4>1, <4>3, MissKeeps
      <4>6. FeedTypeOK' /\ QueueOfStream'
        BY <1>0, <3>1, <3>4, <4>1, <4>3, <4>5 DEF FeedTypeOK, QueueOfStream
      <4> QED
        BY <2>2, <4>3, <4>4, <4>5, <4>6
    <3> QED
      BY <3>2, <3>3, <3>4
  <2>6. CASE Connect
    <3>1. /\ phase[Me] = "checked" /\ phase' = [phase EXCEPT ![Me] = "open"] /\ queue' = <<>>
          /\ pending' = pending /\ missed' = missed
      BY <2>6 DEF Connect, Serve, MoveTo
    <3>2. queue = <<>>
      BY <1>0, <3>1 DEF QueueOfStream
    <3>3. FeedTypeOK' /\ QueueOfStream'
      BY <1>0, <3>1 DEF FeedTypeOK, QueueOfStream, Phases
    <3> QED
      BY <2>2, <3>1, <3>2, <3>3 DEF QueuedTables
  <2>7. CASE Disconnect
    <3>1. /\ phase' = [phase EXCEPT ![Me] = "closing"] /\ queue' = <<>>
          /\ pending' = pending /\ Miss(QueuedTables)
      BY <2>7 DEF Disconnect, End, MoveTo
    <3>2. QueuedTables \in SUBSET Tables
      BY <1>0 DEF QueuedTables, FeedTypeOK
    <3>3. /\ missed' \in [Panels -> SUBSET Tables]
          /\ \A p \in Panels : missed'[p] = missed[p] \cup (QueuedTables \cap ListensFor(p))
      BY <1>0, <3>1, <3>2, MissKeeps
    <3>4. FeedTypeOK' /\ QueueOfStream'
      <4>1. phase' \in [Streams -> Phases]
        BY <1>0, <3>1 DEF FeedTypeOK, Phases
      <4>2. queue' \in Seq(SUBSET Tables)
        BY <3>1
      <4> QED
        BY <1>0, <3>1, <3>3, <4>1, <4>2 DEF FeedTypeOK, QueueOfStream
    <3> QED
      BY <2>2, <3>1, <3>3, <3>4
  <2>8. CASE OtherStreams
    <3>1. pending' = pending /\ queue' = queue /\ missed' = missed
      BY <2>8 DEF OtherStreams, feedVars
    <3>2. phase' \in [Streams -> Phases] /\ (phase[Me] = "open" => phase'[Me] = "open")
      BY <1>0, <2>8, OthersLeaveMine
    <3>3. FeedTypeOK' /\ QueueOfStream'
      BY <1>0, <3>1, <3>2 DEF FeedTypeOK, QueueOfStream
    <3> QED
      BY <2>2, <3>1, <3>3 DEF QueuedTables
  <2> QED
    BY <1>2, <2>3, <2>4, <2>5, <2>6, <2>7, <2>8
<1>3. CASE Tick \/ (Ready /\ disconnected)
  <2>1. /\ BumpAll /\ missed' = [p \in Panels |-> {}]
        /\ pending' = pending /\ queue' = queue /\ phase' = phase
    BY <1>3 DEF Tick, Ready, Forgive, feedVars, streamVars
  <2>2. visible' = visible /\ \A p \in visible : asked'[p] = {Unread}
    BY <1>b, <2>1 DEF BumpAll, Refetch
  <2>3. StaleOnItsWay'
    BY <1>c, <2>2
  <2> QED
    BY <1>0, <1>a, <2>1, <2>3 DEF FeedInv, FeedTypeOK, QueueOfStream
<1>4. CASE Ready /\ ~disconnected
  <2>1. /\ version' = version /\ asked' = asked /\ shown' = shown /\ visible' = visible
        /\ pending' = pending /\ queue' = queue /\ missed' = missed /\ phase' = phase
    BY <1>4 DEF Ready, feedVars, streamVars, panelVars
  <2>2. QueuedTables' = QueuedTables
    BY <2>1 DEF QueuedTables
  <2>3. StaleOnItsWay'
    BY <1>0, <1>c, <2>1, <2>2 DEF StaleOnItsWay
  <2> QED
    BY <1>0, <1>a, <2>1, <2>3 DEF FeedInv, FeedTypeOK, QueueOfStream
<1>5. CASE Invalidate
  <2>1. /\ queue # <<>> /\ queue' = Tail(queue) /\ Refetch(Told(Head(queue)))
        /\ phase' = phase /\ phase[Me] = "open" /\ version' = version
        /\ pending' = pending /\ missed' = missed
    BY <1>5 DEF Invalidate, streamVars
  <2>2. /\ asked' = [p \in Panels |-> IF p \in Told(Head(queue)) \cap visible THEN {Unread}
                                                                           ELSE asked[p]]
        /\ visible' = visible /\ shown' = shown
    BY <2>1 DEF Refetch
  <2>3. /\ QueuedTables = Head(queue) \cup TablesOf(Tail(queue))
        /\ Head(queue) \in SUBSET Tables /\ Tail(queue) \in Seq(SUBSET Tables)
    BY <1>0, <2>1, TablesOfTail DEF QueuedTables, TablesOf, FeedTypeOK
  <2>4. QueuedTables' = TablesOf(Tail(queue))
    BY <2>1 DEF QueuedTables, TablesOf
  <2>5. StaleOnItsWay'
    <3> SUFFICES ASSUME NEW p \in visible', NEW t \in ListensFor(p) \ missed'[p]
                 PROVE  \/ shown'[p][t] = version'[t]
                        \/ t \in pending' \cup QueuedTables'
                        \/ Unread \in asked'[p]
                        \/ \E s \in asked'[p] \ {Unread} : s[t] = version'[t]
      BY <1>c
    <3>1. p \in visible /\ p \in Panels /\ t \notin missed[p]
      BY <1>b, <2>1, <2>2
    <3>2. CASE p \in Told(Head(queue))
      BY <2>2, <3>1, <3>2
    <3>3. CASE p \notin Told(Head(queue))
      <4>1. t \notin Head(queue)
        BY <3>1, <3>3, ReadersAreTold DEF Told
      <4>2. asked'[p] = asked[p]
        BY <2>2, <3>1, <3>3
      <4> QED
        BY <2>1, <2>2, <2>3, <2>4, <3>1, <4>1, <4>2, NewsOrAsked
    <3> QED
      BY <3>2, <3>3
  <2>6. FeedTypeOK' /\ QueueOfStream'
    BY <1>0, <2>1, <2>3 DEF FeedTypeOK, QueueOfStream
  <2> QED
    BY <1>a, <2>5, <2>6 DEF FeedInv
<1>6. ASSUME NEW p0 \in Panels, OpenPanel(p0) \/ ClosePanel(p0) \/ Read(p0) \/ Answer(p0) \/ Fail(p0)
      PROVE  FeedInv'
  <2>1. /\ version' = version /\ pending' = pending /\ queue' = queue /\ phase' = phase
        /\ missed' \in [Panels -> SUBSET Tables]
        /\ \A p \in Panels : p # p0 => missed'[p] = missed[p]
    BY <1>0, <1>b, <1>6
       DEF OpenPanel, ClosePanel, Read, Answer, Fail, feedVars, streamVars, FeedTypeOK
  <2>2. \A p \in Panels : p # p0 => /\ asked'[p] = asked[p] /\ shown'[p] = shown[p]
                                    /\ p \in visible' <=> p \in visible
    BY <1>0, <1>6 DEF OpenPanel, ClosePanel, Read, Answer, Fail, PanelInv, PanelTypeOK
  <2>3. QueuedTables' = QueuedTables
    BY <2>1 DEF QueuedTables
  <2>4. ASSUME p0 \in visible', NEW t \in ListensFor(p0) \ missed'[p0]
        PROVE  \/ shown'[p0][t] = version'[t]
               \/ t \in pending' \cup QueuedTables'
               \/ Unread \in asked'[p0]
               \/ \E s \in asked'[p0] \ {Unread} : s[t] = version'[t]
    <3>1. CASE OpenPanel(p0)
      BY <1>0, <3>1 DEF OpenPanel, PanelInv, PanelTypeOK
    <3>2. CASE ClosePanel(p0)
      BY <2>4, <3>2 DEF ClosePanel
    <3>3. CASE Read(p0)
      <4>1. asked'[p0] = {version}
        BY <1>0, <3>3, ReadKeeps
      <4>2. version # Unread
        <5>1. t \in Tables /\ version[t] \in Nat
          BY <1>0, <1>b DEF PanelInv, PanelTypeOK, Versions
        <5>2. Unread[t] = -1
          BY <5>1 DEF Unread
        <5> QED
          BY <5>1, <5>2
      <4> QED
        BY <2>1, <4>1, <4>2
    <3>4. CASE Answer(p0)
      <4>1. asked[p0] = {shown'[p0]} /\ missed' = missed /\ visible' = visible
        BY <1>0, <3>4, AnswerKeeps DEF Answer
      <4>2. PICK s \in asked[p0] \ {Unread} : shown' = [shown EXCEPT ![p0] = s]
        BY <3>4 DEF Answer
      <4>3. shown'[p0] # Unread
        BY <4>1, <4>2
      <4>4. t \in pending \cup QueuedTables \/ shown'[p0][t] = version[t] \/ shown[p0][t] = version[t]
        BY <1>0, <2>4, <4>1, <4>3 DEF StaleOnItsWay
      <4>5. shown[p0][t] = version[t] => shown'[p0][t] = version[t]
        <5>1. /\ Fresh!NotAfter(shown[p0], shown'[p0]) /\ Fresh!NotAfter(shown'[p0], version)
              /\ shown'[p0] \in Versions /\ shown[p0] \in Versions /\ version \in Versions
          BY <1>0, <3>4, AnswerKeeps DEF PanelInv, PanelTypeOK
        <5>2. t \in Tables
          BY <1>b
        <5> QED
          BY <5>1, <5>2 DEF Fresh!NotAfter, Versions
      <4> QED
        BY <2>1, <2>3, <4>4, <4>5
    <3>5. CASE Fail(p0)
      <4>1. missed'[p0] = ListensFor(p0)
        BY <1>0, <3>5 DEF Fail, FeedTypeOK
      <4> QED
        BY <4>1
    <3> QED
      BY <1>6, <3>1, <3>2, <3>3, <3>4, <3>5
  <2>5. StaleOnItsWay'
    <3> SUFFICES ASSUME NEW p \in visible', NEW t \in ListensFor(p) \ missed'[p]
                 PROVE  \/ shown'[p][t] = version'[t]
                        \/ t \in pending' \cup QueuedTables'
                        \/ Unread \in asked'[p]
                        \/ \E s \in asked'[p] \ {Unread} : s[t] = version'[t]
      BY <1>c
    <3>1. CASE p = p0
      BY <2>4, <3>1
    <3>2. CASE p # p0
      <4>1. p \in Panels /\ p \in visible /\ t \notin missed[p]
        BY <1>b, <2>1, <2>2, <3>2
      <4> QED
        BY <2>1, <2>2, <2>3, <3>2, <4>1, NewsOrAsked
    <3> QED
      BY <3>1, <3>2
  <2> QED
    BY <1>0, <1>a, <2>1, <2>5 DEF FeedInv, FeedTypeOK, QueueOfStream
<1>7. CASE UNCHANGED liveVars
  <2>1. /\ version' = version /\ asked' = asked /\ shown' = shown /\ visible' = visible
        /\ pending' = pending /\ queue' = queue /\ missed' = missed /\ phase' = phase
    BY <1>7 DEF liveVars, feedVars, streamVars, panelVars
  <2>2. QueuedTables' = QueuedTables
    BY <2>1 DEF QueuedTables
  <2>3. StaleOnItsWay'
    BY <1>0, <1>c, <2>1, <2>2 DEF StaleOnItsWay
  <2> QED
    BY <1>0, <1>a, <2>1, <2>3 DEF FeedInv, FeedTypeOK, QueueOfStream
<1> QED
  BY <1>1, <1>2, <1>3, <1>4, <1>5, <1>6, <1>7 DEF LiveNext, PanelNext

\* For any streams, tables, panels and sizes: what a panel lacks of a table it listens
\* for is on its way to it, unless it was lost in one of the ways the feed loses changes
\* and the timer has not come since (admin_events.py, useAdminLive.ts).
THEOREM StaleIsOnItsWay == LiveSpec => []StaleOnItsWay
<1>1. FeedInv => StaleOnItsWay
  BY DEF FeedInv
<1> QED
  BY <1>1, FeedInvInit, FeedInvStep, PTL DEF LiveSpec
=============================================================================
