----------------------------- MODULE ConsoleForms -----------------------------
(***************************************************************************)
(* The forms of the console that edit stored rows: the podcast header, the *)
(* settings and the search placeholders.  Each keeps drafts beside a copy  *)
(* of the row that the live feed renews at any moment, and each has its    *)
(* own rule for what a renewal does to the drafts and for what is written. *)
(***************************************************************************)
EXTENDS Naturals, FiniteSets

CONSTANTS
    Rows,           \* podcasts; the settings and the placeholders are one row each
    Fields,
    Values,
    Nobody,         \* no row
    MaxSaves        \* bound: requests in flight

ASSUME NobodyAssumption == Nobody \notin Rows
ASSUME RowsAssumption == Rows # {} /\ Values # {}

VARIABLES
    form,           \* which form is open
    stored,         \* the rows
    cached,         \* the console's copy
    selected,       \* selectedId
    draft,          \* what the inputs show
    dirty,          \* the inputs with a Save button
    owner,          \* the row the drafts were loaded from
    saves           \* requests in flight

formVars == <<form, stored, cached, selected, draft, dirty, owner, saves>>

Forms == {"podcast", "settings", "placeholders"}

-----------------------------------------------------------------------------
(* Effects: what a render does to the drafts, given what it saw before.      *)

\* Mutant of Reset: the podcast effect does not depend on the id.
ResetMutant(sel, was, rows) ==
    sel # Nobody /\
    CASE form = "podcast"      -> was = Nobody \/ cached[was] # rows[sel]
      [] form = "settings"     -> cached[sel] # rows[sel]
      [] form = "placeholders" -> dirty = {}

\* The podcast form starts over with another podcast or other values; the
\* settings do with other values; the placeholders unless edited.
Reset(sel, was, rows) ==
    sel # Nobody /\
    CASE form = "podcast"      -> sel # was \/ cached[sel] # rows[sel]
      [] form = "settings"     -> cached[sel] # rows[sel]
      [] form = "placeholders" -> dirty = {}

\* The render after `selected` and `cached` have become sel and rows.
Render(sel, rows) ==
    IF Reset(sel, selected, rows)
    THEN draft' = rows[sel] /\ dirty' = {} /\ owner' = sel
    ELSE UNCHANGED <<draft, dirty, owner>>

\* Mutant of Body: what is typed elsewhere in the form goes with it.
BodyMutant(f) ==
    CASE form = "podcast" -> [g \in Fields |-> draft[g]]
      [] OTHER            -> [g \in {f} |-> draft[f]]

\* The podcast form PUTs the row as cached with its field replaced; settings and
\* placeholders send what they change.
Body(f) ==
    CASE form = "podcast" -> [cached[selected] EXCEPT ![f] = draft[f]]
      [] OTHER            -> [g \in {f} |-> draft[f]]

-----------------------------------------------------------------------------
FormsInit ==
    /\ form \in Forms
    /\ stored = [r \in Rows |-> [f \in Fields |-> CHOOSE v \in Values : TRUE]]
    /\ cached = stored
    /\ selected = (CHOOSE r \in Rows : TRUE)
    /\ owner = selected
    /\ draft = stored[selected]
    /\ dirty = {} /\ saves = {}

\* Another console saves a field.
Elsewhere(r, f, v) ==
    /\ stored' = [stored EXCEPT ![r][f] = v]
    /\ UNCHANGED <<form, cached, selected, draft, dirty, owner, saves>>

Refetch ==
    /\ cached' = stored
    /\ Render(selected, stored)
    /\ UNCHANGED <<form, stored, selected, saves>>

\* Picks a podcast; its deletion leaves none selected until another is picked.
Select(r) ==
    /\ form = "podcast" /\ r # selected
    /\ selected' = r
    /\ Render(r, cached)
    /\ UNCHANGED <<form, stored, cached, saves>>

\* A podcast's input is dirty while it differs from the row; placeholders are
\* once touched; every setting has its Save button always.
DirtyAfter(f, v) ==
    CASE form = "podcast" /\ v = cached[selected][f] -> dirty \ {f}
      [] form = "settings" -> {}
      [] OTHER             -> dirty \cup {f}

TypeIn(f, v) ==
    /\ selected # Nobody /\ v # draft[f]
    /\ draft' = [draft EXCEPT ![f] = v]
    /\ dirty' = DirtyAfter(f, v)
    /\ UNCHANGED <<form, stored, cached, selected, owner, saves>>

Discard(f) ==
    /\ form = "podcast" /\ selected # Nobody /\ f \in dirty
    /\ draft' = [draft EXCEPT ![f] = cached[selected][f]]
    /\ dirty' = dirty \ {f}
    /\ UNCHANGED <<form, stored, cached, selected, owner, saves>>

\* One request per key, which names the row and the field.
Save(f) ==
    /\ selected # Nobody
    /\ form # "settings" => f \in dirty
    /\ \A c \in saves : c.row # selected \/ c.field # f
    /\ Cardinality(saves) < MaxSaves
    /\ saves' = saves \cup {[row |-> selected, field |-> f, body |-> Body(f), seen |-> cached[selected], landed |-> FALSE]}
    /\ UNCHANGED <<form, stored, cached, selected, draft, dirty, owner>>

\* The conductor writes what the request holds.
Land(c) ==
    /\ ~c.landed
    /\ stored' = [stored EXCEPT ![c.row] = [g \in Fields |-> IF g \in DOMAIN c.body THEN c.body[g] ELSE @[g]]]
    /\ saves' = (saves \ {c}) \cup {[c EXCEPT !.landed = TRUE]}
    /\ UNCHANGED <<form, cached, selected, draft, dirty, owner>>

\* run() swallows the error: the podcast form is clean either way, whichever
\* podcast it shows by then; the placeholders only after a success, and then
\* they show the cached list until it is fetched anew.
Answered(c) ==
    /\ saves' = saves \ {c}
    /\ dirty' = CASE form = "podcast" -> dirty \ {c.field}
                  [] form = "placeholders" /\ c.landed -> {}
                  [] OTHER -> dirty
    /\ draft' = IF form = "placeholders" /\ c.landed THEN cached[selected] ELSE draft
    /\ UNCHANGED <<form, stored, cached, selected, owner>>

-----------------------------------------------------------------------------
FormsNext ==
    \/ \E r \in Rows, f \in Fields, v \in Values : Elsewhere(r, f, v)
    \/ Refetch
    \/ \E r \in Rows \cup {Nobody} : Select(r)
    \/ \E f \in Fields, v \in Values : TypeIn(f, v)
    \/ \E f \in Fields : Discard(f)
    \/ \E f \in Fields : Save(f)
    \/ \E c \in saves : Land(c)
    \/ \E c \in saves : Answered(c)

FormsSpec == FormsInit /\ [][FormsNext]_formVars

-----------------------------------------------------------------------------
(* Properties.                                                              *)

\* What was typed for one podcast is never shown, or saved, as another's:
\* whatever is selected, deleted and selected again, the drafts come from the
\* row on the screen.
DraftOfSelected == selected # Nobody => owner = selected

\* Nobody's change is lost to a save sent from a view that was up to date: it
\* changes its own field, although the podcast form writes the whole row.
OnlyItsField == [][
    \A c \in saves : ~c.landed /\ c.seen = stored[c.row] /\ (\E d \in saves' : d = [c EXCEPT !.landed = TRUE]) =>
        \A f \in Fields \ {c.field} : stored'[c.row][f] = stored[c.row][f]
    ]_formVars
=============================================================================
