---------------------------- MODULE RecordActions ----------------------------
(***************************************************************************)
(* An administrator acts on a record from a view of it: a row, a drawer, a *)
(* group of the inbox, the overview, the audit log.  The view offers what  *)
(* the status it shows calls for; the conductor tests the status the       *)
(* record has when the request arrives.  In between the pipeline and other *)
(* consoles go on.                                                         *)
(***************************************************************************)
EXTENDS FiniteSets

VARIABLES
    record,     \* the row: its kind, its status, and the obstacles in its way
    view,       \* the status the console shows, and the blacklist flag
    sent,       \* the request in flight: the operation, the status and flag shown when
                \* it was sent, what is wrong with its input; or NotSent
    verdict     \* what the console was told last

actionVars == <<record, view, sent, verdict>>

\* "gone" is a row deleted, or purged from the job history.
EpisodeStatuses ==
    {"discovered", "downloading", "processed", "failed", "orphaned", "blacklisted", "gone"}
JobStatuses == {"pending", "claimed", "completed", "failed", "gone"}
PreviewStatuses == JobStatuses \cup {"applied"}
AuditStatuses == {"undoable", "undone"}

StatusesOf(kind) ==
    CASE kind = "episode" -> EpisodeStatuses
      [] kind = "job"     -> JobStatuses
      [] kind = "preview" -> PreviewStatuses
      [] kind = "audit"   -> AuditStatuses

\* An episode without a title can never be downloaded; a job is blacklisted with its
\* episode; "busy" is another live job of the target, or a change of the source since.
ObstaclesOf(kind) ==
    CASE kind = "episode" -> {"untitled", "blacklisted", "busy"}
      [] kind = "job"     -> {"blacklisted", "busy"}
      [] OTHER            -> {"busy"}

\* The text typed for an update or a merge: no title; no duplicate of the same source, or
\* one with a transcript of its own.
InputsOf(op) == IF op \in {"update", "merge"} THEN {{}, {"unfit"}} ELSE {{}}

NotSent == [op |-> "none", st |-> "none", bl |-> FALSE, input |-> {}]

-----------------------------------------------------------------------------
(* What the views offer.                                                    *)

\* Mutant of ByStatus: a stuck download is offered to be transcribed again.
ByStatusMutant(s) ==
    CASE s = "discovered" -> {"process"}
      [] s = "failed"     -> {"retry"}
      [] s \in {"processed", "downloading"} -> {"retranscribe"}
      [] OTHER            -> {}

\* Only `failed` and `downloading` may be retried, only `processed` redone.
ByStatus(s) ==
    CASE s = "discovered" -> {"process"}
      [] s \in {"failed", "downloading"} -> {"retry"}
      [] s = "processed"  -> {"retranscribe"}
      [] OTHER            -> {}

\* The blacklist button toggles.
Toggle(bl) == IF bl THEN "unblacklist" ELSE "blacklist"

\* A row of the episode list, and the episode drawer.
RowOffers(s, bl) == ByStatus(s) \cup {Toggle(bl), "delete"}
DrawerOffers(s, bl) == ByStatus(s) \cup {Toggle(bl), "update", "merge", "delete"}

\* The attention inbox: failed episodes by cause, and the orphaned.
AttentionOffers(s) ==
    CASE s = "failed"   -> {"retry", "blacklist"}
      [] s = "orphaned" -> {"blacklist"}
      [] OTHER          -> {}

\* The active list holds live jobs, the history finished ones.
JobRowOffers(s) ==
    CASE s = "pending" -> {"cancel", "prioritize"}
      [] s = "claimed" -> {"cancel"}
      [] s = "gone"    -> {}
      [] OTHER         -> {"retry"}

JobDrawerOffers(s) ==
    (IF s = "pending" THEN {"prioritize"} ELSE {})
    \cup (IF s \in {"pending", "claimed"} THEN {"cancel"} ELSE {})
    \cup (IF s \in {"completed", "failed"} THEN {"retry"} ELSE {})

\* The overview's active jobs and recent failures.
OverviewOffers(s) ==
    CASE s = "pending" -> {"prioritize", "cancel"}
      [] s = "claimed" -> {"cancel"}
      [] s = "failed"  -> {"retry"}
      [] OTHER         -> {}

\* A completed preview of a source rebind is offered for application once.
PreviewOffers(s) == IF s = "completed" THEN {"apply"} ELSE {}

AuditOffers(s) == IF s = "undoable" THEN {"undo"} ELSE {}

Offers(kind, s, bl) ==
    CASE kind = "episode" /\ s # "gone" ->
             RowOffers(s, bl) \cup DrawerOffers(s, bl) \cup AttentionOffers(s)
      [] kind = "episode" /\ s = "gone" -> {}
      [] kind = "job"     -> JobRowOffers(s) \cup JobDrawerOffers(s) \cup OverviewOffers(s)
      [] kind = "preview" -> PreviewOffers(s)
      [] kind = "audit"   -> AuditOffers(s)

-----------------------------------------------------------------------------
(* What the conductor accepts: by the status, and unless an obstacle is in    *)
(* the way.                                                                  *)

AcceptsEpisode(op, s) ==
    CASE op = "process"      -> s = "discovered"
      [] op = "retry"        -> s \in {"failed", "downloading"}
      [] op = "retranscribe" -> s \notin {"downloading", "gone"}
      [] OTHER               -> s # "gone"

AcceptsJob(op, s) ==
    CASE op = "cancel"     -> s \in {"pending", "claimed"}
      [] op = "prioritize" -> s = "pending"
      [] op = "retry"      -> s \in {"completed", "failed"}

Accepts(kind, op, s) ==
    CASE kind = "episode" -> AcceptsEpisode(op, s)
      [] kind = "job"     -> AcceptsJob(op, s)
      [] kind = "preview" -> s = "completed"
      [] kind = "audit"   -> s = "undoable"

\* Blacklisting and its removal, deleting, cancelling and prioritizing have none.
Obstacles(kind, op) ==
    CASE op = "process" -> {"untitled", "blacklisted", "busy"}
      [] op \in {"retry", "retranscribe"} /\ kind = "episode" -> {"untitled"}
      [] op = "retry" /\ kind # "episode" -> {"blacklisted", "busy"}
      [] op \in {"update", "merge"} -> {"unfit"}
      [] op \in {"apply", "undo"}   -> {"busy"}
      [] OTHER -> {}

InTheWay == (record.obstacles \cup sent.input) \cap Obstacles(record.kind, sent.op)

\* The status a request leaves: a blacklisted episode is reset and reported as queued,
\* but no job is created for it.
After(kind, op, s, bl) ==
    CASE op = "process"                          -> "downloading"
      [] op \in {"retry", "retranscribe"} /\ kind = "episode" ->
             IF bl THEN "discovered" ELSE "downloading"
      [] op = "retry" /\ kind # "episode"        -> "pending"
      [] op = "blacklist" /\ s = "downloading"   -> "blacklisted"
      [] op = "unblacklist" /\ s = "blacklisted" -> "discovered"
      [] op = "delete"                           -> "gone"
      [] op = "cancel"                           -> "failed"
      [] op = "apply"                            -> "applied"
      [] op = "undo"                             -> "undone"
      [] OTHER                                   -> s

\* A merge gives an untitled episode the title of the duplicate, if that has one.
ObstaclesAfter(kind, op, O) ==
    CASE op = "blacklist"   -> {(O \ {"busy"}) \cup {"blacklisted"}}
      [] op = "unblacklist" -> {O \ {"blacklisted"}}
      [] op \in {"process", "retry", "retranscribe"} /\ kind = "episode" ->
             {IF "blacklisted" \in O THEN O \ {"busy"} ELSE O \cup {"busy"}}
      [] op = "update"      -> {O \ {"untitled"}}
      [] op = "merge"       -> {O, O \ {"untitled"}}
      [] OTHER              -> {O}

-----------------------------------------------------------------------------
(* The pipeline, the worker and the other consoles.                          *)

EpisodeMoves(s) ==
    CASE s = "downloading" -> {"processed", "failed", "discovered", "blacklisted", "gone"}
      [] s = "discovered"  -> {"downloading", "orphaned", "blacklisted", "gone"}
      [] s = "orphaned"    -> {"discovered", "processed", "gone"}
      [] s = "gone"        -> {}
      [] OTHER             -> {"downloading", "discovered", "orphaned", "gone"}

\* A job; `done` is what becomes of it after it is completed or failed.
JobMoves(s, done) ==
    CASE s = "pending" -> {"claimed", "failed"}
      [] s = "claimed" -> {"pending", "completed", "failed"}
      [] s \in {"completed", "failed"} -> done
      [] OTHER         -> {}

Moves(kind, s) ==
    CASE kind = "episode" -> EpisodeMoves(s)
      [] kind = "job"     -> JobMoves(s, {"pending", "gone"})
      [] kind = "preview" -> JobMoves(s, {"pending", "gone"} \cup IF s = "completed" THEN {"applied"} ELSE {})
      [] kind = "audit"   -> IF s = "undoable" THEN {"undone"} ELSE {}

View == [st |-> record.st, bl |-> "blacklisted" \in record.obstacles]

ActionInit ==
    /\ record \in {[kind |-> k, st |-> s, obstacles |-> {}] :
                      k \in {"episode", "job", "preview", "audit"}, s \in {"discovered", "pending", "undoable"}}
    /\ record.st \in StatusesOf(record.kind)
    /\ view = View
    /\ sent = NotSent /\ verdict = "none"

Move ==
    /\ \E s \in Moves(record.kind, record.st) : record' = [record EXCEPT !.st = s]
    /\ UNCHANGED <<view, sent, verdict>>

\* A blacklist set or cleared elsewhere; a title given or lost; a live job, or a change
\* of the source, that comes or goes.
Hold ==
    /\ record.st # "gone"
    /\ \E o \in ObstaclesOf(record.kind) :
         record' = [record EXCEPT !.obstacles = IF o \in @ THEN @ \ {o} ELSE @ \cup {o}]
    /\ UNCHANGED <<view, sent, verdict>>

\* The panel's answer arrives.
Show ==
    /\ view' = View
    /\ UNCHANGED <<record, sent, verdict>>

Act(op) ==
    /\ sent = NotSent
    /\ op \in Offers(record.kind, view.st, view.bl)
    /\ \E input \in InputsOf(op) :
         sent' = [op |-> op, st |-> view.st, bl |-> view.bl, input |-> input]
    /\ UNCHANGED <<record, view, verdict>>

Arrive ==
    /\ sent # NotSent /\ sent' = NotSent
    /\ IF Accepts(record.kind, sent.op, record.st) /\ InTheWay = {}
       THEN /\ \E O \in ObstaclesAfter(record.kind, sent.op, record.obstacles) :
                 record' = [kind |-> record.kind, obstacles |-> O,
                            st |-> After(record.kind, sent.op, record.st,
                                         "blacklisted" \in record.obstacles)]
            /\ verdict' = "done"
       ELSE verdict' = "refused" /\ UNCHANGED record
    /\ UNCHANGED view

ActionNext ==
    \/ Move
    \/ Hold
    \/ Show
    \/ \E op \in Offers(record.kind, view.st, view.bl) : Act(op)
    \/ Arrive

ActionSpec == ActionInit /\ [][ActionNext]_actionVars

-----------------------------------------------------------------------------
(* Properties.                                                              *)

\* A button that a view offers is refused only if the status of the record changed
\* after it was shown, or for what no view looks at before it offers the button
\* (Obstacles): a missing title for process, retry and retranscribe of an episode; a
\* blacklist or a live job for process and the retry of a job; what was typed for update
\* and merge; a change of the source for apply, or of the job's target for undo.
RefusedOnlyIfStale == [][
    verdict' = "refused" /\ sent # sent' /\ sent # NotSent =>
        sent.st # record.st \/ InTheWay # {}
    ]_actionVars
=============================================================================
