----------------------------- MODULE AdminStream -----------------------------
(***************************************************************************)
(* The event-stream route of the frontend server (app/api/admin/stream):   *)
(* a cap on concurrent streams that is tested before the session check and *)
(* the connection to the conductor, and counted after them, and a release  *)
(* that several callbacks of one request race to call.                     *)
(***************************************************************************)
EXTENDS Integers, FiniteSets

CONSTANTS
    Streams,                \* stream requests (one per console that connects)
    MaxConcurrentStreams    \* MAX_CONCURRENT_STREAMS

ASSUME StreamsAssumption == IsFiniteSet(Streams)
ASSUME CapAssumption == MaxConcurrentStreams \in Nat \ {0}

VARIABLES
    phase,          \* where each request is
    released,       \* `released` of each request
    activeStreams,
    crowd           \* history: the requests between the test of the cap and the count when
                    \* the last one passed the test, itself included

streamVars == <<phase, released, activeStreams, crowd>>

Phases ==
    {"none",        \* not connected; EventSource may (re)connect
     "checked",     \* past the cap test, at an await
     "open",        \* streaming
     "closing",     \* ended one way; the request's other callbacks may still run
     "refused"}     \* answered with an error: EventSource gives up for good

Open == {r \in Streams : phase[r] = "open"}
Uncounted == {r \in Streams : phase[r] = "checked"}

StreamInit ==
    /\ phase = [r \in Streams |-> "none"]
    /\ released = [r \in Streams |-> TRUE]
    /\ activeStreams = 0
    /\ crowd = 0

MoveTo(r, p) == phase' = [phase EXCEPT ![r] = p]

\* Mutant of Ask: the cap is not tested.
AskMutant(r) ==
    /\ phase[r] = "none"
    /\ MoveTo(r, "checked")
    /\ crowd' = Cardinality(Uncounted) + 1
    /\ UNCHANGED <<released, activeStreams>>

\* The tests before the first await: the rate limit, then the cap.
Ask(r) ==
    /\ phase[r] = "none"
    /\ \/ /\ activeStreams < MaxConcurrentStreams
          /\ MoveTo(r, "checked")
          /\ crowd' = Cardinality(Uncounted) + 1
       \/ MoveTo(r, "refused") /\ UNCHANGED crowd
    /\ UNCHANGED <<released, activeStreams>>

\* No session, or no stream from the conductor.
Deny(r) ==
    /\ phase[r] = "checked"
    /\ MoveTo(r, "refused")
    /\ UNCHANGED <<released, activeStreams, crowd>>

Serve(r) ==
    /\ phase[r] = "checked"
    /\ MoveTo(r, "open")
    /\ released' = [released EXCEPT ![r] = FALSE]
    /\ activeStreams' = activeStreams + 1
    /\ UNCHANGED crowd

\* Mutant of Release: every callback counts the stream down.
ReleaseMutant(r) ==
    /\ released' = [released EXCEPT ![r] = TRUE]
    /\ activeStreams' = IF activeStreams > 0 THEN activeStreams - 1 ELSE 0

Release(r) ==
    IF released[r]
    THEN UNCHANGED <<released, activeStreams>>
    ELSE /\ released' = [released EXCEPT ![r] = TRUE]
         /\ activeStreams' = IF activeStreams > 0 THEN activeStreams - 1 ELSE 0

\* The client leaves (abort) or the conductor ends the stream (pull).
End(r) ==
    /\ phase[r] = "open"
    /\ MoveTo(r, "closing")
    /\ Release(r)
    /\ UNCHANGED crowd

\* ... and then the stream's cancel() or the late abort releases once more.
EndAgain(r) ==
    /\ phase[r] = "closing"
    /\ MoveTo(r, "none")
    /\ Release(r)
    /\ UNCHANGED crowd

\* The client left before the abort listener was registered: the request is
\* counted all the same, and released only if the server cancels the stream it
\* can no longer send.
EndEarly(r) ==
    /\ phase[r] = "checked"
    /\ MoveTo(r, "none")
    /\ activeStreams' \in {activeStreams, activeStreams + 1}
    /\ UNCHANGED <<released, crowd>>

StreamNext ==
    \E r \in Streams : Ask(r) \/ Deny(r) \/ Serve(r) \/ End(r) \/ EndAgain(r) \/ EndEarly(r)

StreamTypeOK ==
    /\ phase \in [Streams -> Phases]
    /\ released \in [Streams -> BOOLEAN]
    /\ activeStreams \in Nat
    /\ crowd \in Nat

\* The counter never runs below the streams that are open, whichever of a
\* request's callbacks release it and in whatever order: the cap cannot be
\* worn down by streams that end twice.
CountCoversOpen == Cardinality(Open) <= activeStreams

\* The cap is exceeded only by requests that overlap between its test and the late
\* count: never by one that asks when nobody else is in between, however many streams
\* have ended, ended twice or been counted for a client that had left.
OvershootBounded ==
    activeStreams + Cardinality(Uncounted) <= MaxConcurrentStreams - 1 + crowd
=============================================================================
