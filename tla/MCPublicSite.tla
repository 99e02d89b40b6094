----------------------------- MODULE MCPublicSite -----------------------------
(* The parts of the public site share no state: in a behaviour of this       *)
(* instance one of them moves and the others rest where they start.          *)
EXTENDS SearchChoices, SearchPage, ContextPanel, WatchedList, SavedClips, TLC

VARIABLE part

\* Podcasts are interchangeable: this instance enables all of them.
Ids == Permutations(Podcasts)

siteVars == <<part, choiceVars, pageVars, contextVars, watchedVars, clipVars>>

SiteInit ==
    /\ part \in {"choices", "search", "context", "watched", "clips"}
    /\ ChoicesInit /\ PageInit /\ ContextInit /\ WatchedInit /\ ClipsInit
    /\ part = "choices" /\ ~writable => cookie = Unset      \* it is never migrated then
    /\ part # "choices" => stored = Unset /\ cookie = Unset /\ params = NoQuery /\ writable
    /\ part # "context" => view = "card" /\ before = 0 /\ after = 0
    /\ part # "watched" => key = {}
    /\ part # "clips" => legacy = NoList

Rest(vs) == UNCHANGED <<part, vs>>

SiteNext ==
    \/ part = "choices" /\ ChoicesNext /\ Rest(<<pageVars, contextVars, watchedVars, clipVars>>)
    \/ part = "search"  /\ PageNext    /\ Rest(<<choiceVars, contextVars, watchedVars, clipVars>>)
    \/ part = "context" /\ ContextNext /\ Rest(<<choiceVars, pageVars, watchedVars, clipVars>>)
    \/ part = "watched" /\ WatchedNext /\ Rest(<<choiceVars, pageVars, contextVars, clipVars>>)
    \/ part = "clips"   /\ ClipsNext   /\ Rest(<<choiceVars, pageVars, contextVars, watchedVars>>)

SiteSpec == SiteInit /\ [][SiteNext]_siteVars
=============================================================================
