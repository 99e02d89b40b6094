------------------------------- MODULE SavedClips -------------------------------
(***************************************************************************)
(* The saved clips of a browser: one list in localStorage, newest first    *)
(* and capped, that every operation of every tab reads, changes and writes *)
(* back whole; the legacy cookie it is migrated from; and what the pages   *)
(* of the tabs show as saved, which nothing renews.                        *)
(***************************************************************************)
EXTENDS Naturals, Sequences

CONSTANTS
    Views,          \* the pages open in the tabs
    Clips,
    Cap,            \* 100: clips kept
    NoList          \* nothing under the key, no cookie

ASSUME ClipsAssumption == Cap \in Nat \ {0}
ASSUME NoListAssumption == NoList \notin Seq([clip : Clips, note : {"", "note"}])

VARIABLES
    list,           \* palpal_saved_chunks in localStorage
    legacy,         \* the list in the legacy cookie
    marked,         \* the clips the page of each tab shows as saved
    editing         \* the note each tab has open, as it was when its clip was mounted

clipVars == <<list, legacy, marked, editing>>

Notes == {"", "note"}
NoEdit == [clip |-> NoList, note |-> ""]

\* getSavedChunks: the list, else the one of the cookie.
Saved == IF list # NoList THEN list ELSE IF legacy # NoList THEN legacy ELSE <<>>

\* Any read expires the cookie, whether its list could be moved or not.
Moved == IF list = NoList THEN NoList ELSE legacy

\* One read, change and write back; localStorage may refuse to write.
Write(L, ok) ==
    /\ list' = IF ok THEN L ELSE list
    /\ legacy' = Moved

IdsOf(L) == {L[i].clip : i \in DOMAIN L}

\* The list filtered, clip by clip.
Without(L, c) ==
    LET kept[n \in 0..Len(L)] ==
            IF n = 0 THEN <<>>
            ELSE IF L[n].clip = c THEN kept[n - 1]
            ELSE Append(kept[n - 1], L[n])
    IN  kept[Len(L)]

ClipsInit ==
    /\ list = NoList
    /\ legacy \in {NoList} \cup {<<[clip |-> c, note |-> ""]>> : c \in Clips}
    /\ marked = [t \in Views |-> {}]
    /\ editing = [t \in Views |-> NoEdit]

\* A page with the clips S on it is mounted and marks those saved.
MountClips(t, S, ok) ==
    /\ Write(IF list = NoList THEN legacy ELSE list, ok)
    /\ marked' = [marked EXCEPT ![t] = S \cap IdsOf(Saved)]
    /\ editing' = [editing EXCEPT ![t] = NoEdit]

\* Mutant of Stored: a clip saved already is not taken out first.
StoredMutant(L, c) ==
    LET all == <<[clip |-> c, note |-> ""]>> \o L
    IN  IF Len(all) > Cap THEN SubSeq(all, 1, Cap) ELSE all

\* saveChunk: the clip goes to the front, without the note it may have had.
Stored(L, c) ==
    LET all == <<[clip |-> c, note |-> ""]>> \o Without(L, c)
    IN  IF Len(all) > Cap THEN SubSeq(all, 1, Cap) ELSE all

\* The button of a result does what its mark says, whatever other tabs did.
SaveToggle(t, c, ok) ==
    /\ Write(IF c \in marked[t] THEN Without(Saved, c) ELSE Stored(Saved, c), ok)
    /\ marked' = [marked EXCEPT ![t] = IF c \in @ THEN @ \ {c} ELSE @ \cup {c}]
    /\ editing' = [editing EXCEPT ![t] = IF @.clip = c THEN NoEdit ELSE @]

\* Only clips marked as saved show their note.
EditNote(t, c, n) ==
    /\ c \in marked[t]
    /\ editing' = [editing EXCEPT ![t] = [clip |-> c, note |-> n]]
    /\ UNCHANGED <<list, legacy, marked>>

\* updateChunkNotes; a clip unsaved elsewhere has no note to change.
SaveNote(t, ok) ==
    LET e == editing[t]
    IN  /\ e # NoEdit
        /\ Write([i \in DOMAIN Saved |-> IF Saved[i].clip = e.clip THEN e ELSE Saved[i]], ok)
        /\ editing' = [editing EXCEPT ![t] = NoEdit]
        /\ UNCHANGED marked

CancelNote(t) ==
    /\ editing[t] # NoEdit
    /\ editing' = [editing EXCEPT ![t] = NoEdit]
    /\ UNCHANGED <<list, legacy, marked>>

\* Clearing all removes the key, and no cookie; the page has read it before.
ClearClips(t) ==
    /\ marked[t] # {}
    /\ list' = NoList /\ marked' = [marked EXCEPT ![t] = {}]
    /\ editing' = [editing EXCEPT ![t] = NoEdit]
    /\ UNCHANGED legacy

ClipsNext ==
    \/ \E t \in Views, S \in SUBSET Clips, ok \in BOOLEAN : MountClips(t, S, ok)
    \/ \E t \in Views, c \in Clips, ok \in BOOLEAN : SaveToggle(t, c, ok)
    \/ \E t \in Views, c \in Clips, n \in Notes : EditNote(t, c, n)
    \/ \E t \in Views, ok \in BOOLEAN : SaveNote(t, ok)
    \/ \E t \in Views : CancelNote(t)
    \/ \E t \in Views : ClearClips(t)

ClipsSpec == ClipsInit /\ [][ClipsNext]_clipVars

-----------------------------------------------------------------------------
(* Properties.                                                              *)

\* A saved clip is dropped alone, by unsaving it; with all the others, by
\* clearing them; or as the oldest of a full list, by saving one that was not
\* in it.  Nothing else loses a clip, not a tab that shows an old list, nor a
\* write that fails, except for a cookie whose list could not be moved.
ClipsKept == [][
    \A c \in IdsOf(Saved) \ IdsOf(Saved') :
        \/ Saved' = Without(Saved, c)
        \/ Saved' = <<>>
        \/ /\ Len(Saved) = Cap /\ Saved[Cap].clip = c
           /\ Len(Saved') = Cap /\ Saved'[1].clip \notin IdsOf(Saved)
        \/ list = NoList /\ list' = NoList /\ legacy' # legacy
    ]_clipVars
=============================================================================
