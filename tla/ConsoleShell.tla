----------------------------- MODULE ConsoleShell -----------------------------
(***************************************************************************)
(* What every view of the console goes through to act: run(), which sends  *)
(* one request per key at a time; the confirmation dialog, which one       *)
(* request may close while another is being read; and the drawer of an     *)
(* episode, whose content arrives later than its opening.  Requests are    *)
(* answered in any order, or fail.                                         *)
(***************************************************************************)
EXTENDS FiniteSets

CONSTANTS
    Episodes,
    None,
    Ops,            \* the buttons used in this instance
    Requests        \* identities of requests; their number bounds those in flight

ASSUME NoneAssumption == None \notin Episodes

VARIABLES
    exists,         \* the episodes that are there
    pending,        \* pendingRef: the keys of run()
    calls,          \* requests in flight
    dialog,         \* the open confirmation, or None
    typed,          \* whether its word has been typed
    busy,
    drawer,         \* drawerEpisodeId
    detail,         \* the episode whose details have arrived
    failed,         \* the drawer's `error`
    asking          \* the episodes whose details are on their way

callVars == <<pending, calls>>
dialogVars == <<dialog, typed, busy>>
drawerVars == <<drawer, detail, failed, asking>>
shellVars == <<exists, callVars, dialogVars, drawerVars>>

Records == Episodes \cup {None}

\* What the drawer's body shows, and its buttons act on: a spinner until details have
\* arrived, the error of the last request, or the details.
Shown == IF failed THEN None ELSE detail

\* The title above it is that of the details that arrived last, error or not; without
\* any it is that of the row clicked, or of nothing, both of them None here.
Header == detail

\* Deletions ask first; the purge of the job history wants a word typed, too.
NeedsDialog(op) == op \in {"delete", "purge"}
NeedsText(op) == op = "purge"
RecordsOf(op) == IF op = "purge" THEN {None} ELSE Episodes

-----------------------------------------------------------------------------
(* run                                                                     *)

Key(c) == <<c.op, c.rec>>

\* Mutant of Run: asks the rendered set, which a second press finds unchanged.
RunMutant(c) ==
    LET free == Requests \ {d.n : d \in calls}
    IN  /\ free # {}
        /\ pending' = pending \cup {Key(c)}
        /\ calls' = calls \cup {[op |-> c.op, rec |-> c.rec, from |-> c.from, n |-> CHOOSE n \in free : TRUE]}

\* Starts a request unless one with its key is in flight.
Run(c) ==
    IF Key(c) \in pending
    THEN UNCHANGED callVars
    ELSE LET free == Requests \ {d.n : d \in calls}
         IN  /\ free # {}
             /\ pending' = pending \cup {Key(c)}
             /\ calls' = calls \cup {[op |-> c.op, rec |-> c.rec, from |-> c.from, n |-> CHOOSE n \in free : TRUE]}

-----------------------------------------------------------------------------
ShellInit ==
    /\ exists = Episodes
    /\ pending = {} /\ calls = {}
    /\ dialog = None /\ typed = FALSE /\ busy = FALSE
    /\ drawer = None /\ detail = None /\ failed = FALSE /\ asking = {}

\* Mutant of OpenDialog: the word typed for the last one is still there.
OpenDialogMutant(d) == dialog' = d /\ busy' = FALSE /\ UNCHANGED typed

\* A dialog that changes its request starts with no word typed and not busy.
OpenDialog(d) == dialog' = d /\ typed' = FALSE /\ busy' = FALSE

\* A button of a row, or of the drawer for the episode it shows.  Rows lie
\* behind the drawer, and everything behind a dialog.
Press(op, r, from) ==
    /\ dialog = None
    /\ op \in Ops /\ r \in RecordsOf(op)
    /\ from = "row" => drawer = None
    /\ from = "drawer" => drawer # None /\ r = Shown /\ r # None
    /\ IF NeedsDialog(op)
       THEN OpenDialog([op |-> op, rec |-> r, from |-> from]) /\ UNCHANGED callVars
       ELSE Run([op |-> op, rec |-> r, from |-> "button"]) /\ UNCHANGED dialogVars
    /\ UNCHANGED <<exists, drawerVars>>

TypeWord ==
    /\ dialog # None /\ NeedsText(dialog.op) /\ ~typed
    /\ typed' = TRUE
    /\ UNCHANGED <<exists, callVars, dialog, busy, drawerVars>>

\* A request that run() drops resolves at once, and the dialog closes.
Confirm ==
    /\ dialog # None /\ ~busy
    /\ NeedsText(dialog.op) => typed
    /\ Run(dialog)
    /\ IF Key(dialog) \in pending
       THEN OpenDialog(None)
       ELSE busy' = TRUE /\ UNCHANGED <<dialog, typed>>
    /\ UNCHANGED <<exists, drawerVars>>

\* An effect clears what a closed drawer showed.
CloseDrawerNow == drawer' = None /\ detail' = None /\ failed' = FALSE /\ UNCHANGED asking

\* Escape reaches the dialog and the drawer; it does not wait for a request.
Escape ==
    /\ dialog # None \/ drawer # None
    /\ OpenDialog(None)
    /\ CloseDrawerNow
    /\ UNCHANGED <<exists, callVars>>

\* The dialog's close button and backdrop.
CloseDialog ==
    /\ dialog # None
    /\ OpenDialog(None)
    /\ UNCHANGED <<exists, callVars, drawerVars>>

-----------------------------------------------------------------------------
(* The drawer.                                                             *)

ShowEpisode(e) == drawer' = e /\ asking' = asking \cup {e} /\ UNCHANGED <<detail, failed>>

OpenFromRow(e) ==
    /\ dialog = None /\ drawer = None
    /\ ShowEpisode(e)
    /\ UNCHANGED <<exists, callVars, dialogVars>>

\* The command palette opens over everything; the details of the episode shown
\* so far stay until those of the new one arrive.
PickFromPalette(e) ==
    /\ drawer # e
    /\ ShowEpisode(e)
    /\ UNCHANGED <<exists, callVars, dialogVars>>

\* Mutant of Wanted: answers are not cancelled.
WantedMutant(e) == drawer # None

\* The answer of an effect that was cleaned up is dropped.
Wanted(e) == e = drawer

DrawerAnswer(e) ==
    /\ e \in asking /\ asking' = asking \ {e}
    /\ IF ~Wanted(e) THEN UNCHANGED <<detail, failed>>
       ELSE IF e \in exists THEN detail' = e /\ failed' = FALSE
       ELSE failed' = TRUE /\ UNCHANGED detail
    /\ UNCHANGED <<exists, callVars, dialogVars, drawer>>

DrawerFails(e) ==
    /\ e \in asking /\ asking' = asking \ {e}
    /\ failed' = (Wanted(e) \/ failed)
    /\ UNCHANGED <<exists, callVars, dialogVars, drawer, detail>>

\* refreshKey: a bump asks again.
DrawerRefresh ==
    /\ drawer # None
    /\ asking' = asking \cup {drawer}
    /\ UNCHANGED <<exists, callVars, dialogVars, drawer, detail, failed>>

CloseDrawer ==
    /\ dialog = None /\ drawer # None
    /\ CloseDrawerNow
    /\ UNCHANGED <<exists, callVars, dialogVars>>

-----------------------------------------------------------------------------
(* Answers.                                                                *)

\* Mutant of Finish: a request for a row that is gone is sent again.
FinishMutant(c) ==
    IF c.rec \in exists \cup {None}
    THEN calls' = calls \ {c} /\ pending' = pending \ {Key(c)}
    ELSE UNCHANGED callVars

\* `finally`: whether it failed or not, its key is free again.
Finish(c) ==
    /\ calls' = calls \ {c}
    /\ pending' = pending \ {Key(c)}

\* A dialog's request, answered either way, closes the dialog that is open by
\* then.
AfterAnswer(c) ==
    IF c.from = "button" THEN UNCHANGED dialogVars ELSE OpenDialog(None)

\* A deletion asked for in the drawer closes the drawer that is open by then.
Succeed(c) ==
    /\ c.op = "delete" => c.rec \in exists
    /\ Finish(c) /\ AfterAnswer(c)
    /\ exists' = IF c.op = "delete" THEN exists \ {c.rec} ELSE exists
    /\ IF c.op = "delete" /\ c.from = "drawer" THEN CloseDrawerNow ELSE UNCHANGED drawerVars

Refuse(c) ==
    /\ Finish(c) /\ AfterAnswer(c)
    /\ UNCHANGED <<exists, drawerVars>>

-----------------------------------------------------------------------------
ShellNext ==
    \/ \E op \in Ops, r \in Records, from \in {"row", "drawer"} : Press(op, r, from)
    \/ TypeWord
    \/ Confirm
    \/ Escape
    \/ CloseDialog
    \/ \E e \in Episodes : OpenFromRow(e)
    \/ \E e \in Episodes : PickFromPalette(e)
    \/ \E e \in Episodes : DrawerAnswer(e)
    \/ \E e \in Episodes : DrawerFails(e)
    \/ DrawerRefresh
    \/ CloseDrawer
    \/ \E c \in calls : Succeed(c)
    \/ \E c \in calls : Refuse(c)

ShellSpec == ShellInit /\ [][ShellNext]_shellVars

\* Every request is answered or fails.
ShellFairness ==
    /\ \A n \in Requests : WF_shellVars(\E c \in calls : c.n = n /\ (Succeed(c) \/ Refuse(c)))
    /\ \A e \in Episodes : WF_shellVars(DrawerAnswer(e) \/ DrawerFails(e))

FairShellSpec == ShellSpec /\ ShellFairness

-----------------------------------------------------------------------------
(* Properties.                                                             *)

Keys == {k \in Ops \X Records : k[2] \in RecordsOf(k[1])}

\* However fast a button is pressed, and from however many places, a key has one
\* request in flight, and exactly the keys in flight show as busy.
OneRequestPerKey ==
    /\ \A c, d \in calls : Key(c) = Key(d) => c = d
    /\ pending = {Key(c) : c \in calls}

\* A word typed, or a request under way, belongs to the dialog that is open:
\* none is left of a dialog that was closed, by the user or by the answer to
\* another, for the next one to be confirmed with.
DialogOwnsItsState ==
    /\ typed => dialog # None /\ NeedsText(dialog.op)
    /\ busy => dialog # None /\ Key(dialog) \in pending

\* Every button comes back: no key stays pending for ever although its request
\* may fail, its dialog be closed and its drawer be gone.
ButtonsComeBack == \A k \in Keys : k \in pending ~> k \notin pending

\* The body of the drawer, with its buttons, never ends up showing another episode than
\* the one it was last opened for; its title does, but only above the error with which
\* the details of that one failed.
DrawerSettles ==
    \A e \in Episodes :
        <>[](drawer = e) => <>[](Shown \in {e, None} /\ (Header \in {e, None} \/ failed))
=============================================================================
