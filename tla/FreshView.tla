------------------------------ MODULE FreshView ------------------------------
(***************************************************************************)
(* What the administrator's console promises of what it shows: every panel *)
(* shows a state the database has been in, and only ever moves forward.    *)
(***************************************************************************)
EXTENDS Integers

CONSTANTS Tables, Panels

VARIABLES
    version,    \* table |-> number of changes made to it
    shown       \* panel |-> the versions it shows

freshVars == <<version, shown>>

Snapshots == [Tables -> Nat]

NotAfter(s, t) == \A x \in Tables : s[x] <= t[x]

Init ==
    /\ version = [t \in Tables |-> 0]
    /\ shown = [p \in Panels |-> version]

Change == \E t \in Tables :
    /\ version' = [version EXCEPT ![t] = @ + 1]
    /\ UNCHANGED shown

Show(p) ==
    /\ shown' = [shown EXCEPT ![p] = shown'[p]]
    /\ shown'[p] \in Snapshots
    /\ NotAfter(shown[p], shown'[p]) /\ NotAfter(shown'[p], version)
    /\ UNCHANGED version

Next == Change \/ \E p \in Panels : Show(p)

Spec == Init /\ [][Next]_freshVars
=============================================================================
