----------------------------- MODULE MCAdminViews -----------------------------
(* The actions on records, the forms, the rebind of a source, the analytics  *)
(* view and the analytics share no state: in a behaviour of this instance    *)
(* one of them moves and the others rest where they start.                   *)
EXTENDS RecordActions, ConsoleForms, SourceRebind, AnalyticsPanel, SearchAnalytics, TLC

VARIABLE part

\* Jobs are interchangeable.
Ids == Permutations(Jobs)

viewsVars == <<part, actionVars, formVars, rebindVars, panelVars, analyticsVars>>

ViewsInit ==
    /\ part \in {"actions", "forms", "rebind", "panel", "analytics"}
    /\ ActionInit /\ FormsInit /\ RebindInit /\ PanelInit /\ AnalyticsInit
    /\ part # "actions" => record.kind = "episode"
    /\ part # "forms" => form = "podcast"

Rest(vs) == UNCHANGED <<part, vs>>

ViewsNext ==
    \/ part = "actions"   /\ ActionNext /\ Rest(<<formVars, rebindVars, panelVars, analyticsVars>>)
    \/ part = "forms"     /\ FormsNext  /\ Rest(<<actionVars, rebindVars, panelVars, analyticsVars>>)
    \/ part = "rebind"    /\ RebindNext /\ Rest(<<actionVars, formVars, panelVars, analyticsVars>>)
    \/ part = "panel"     /\ PanelNext  /\ Rest(<<actionVars, formVars, rebindVars, analyticsVars>>)
    \/ part = "analytics" /\ AnalyticsNext /\ Rest(<<actionVars, formVars, rebindVars, panelVars>>)

ViewsSpec == ViewsInit /\ [][ViewsNext]_viewsVars
=============================================================================
