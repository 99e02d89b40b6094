------------------------------ MODULE Console_proofs ------------------------------
(***************************************************************************)
(* Theorems about run() and the confirmation dialog of the console, for    *)
(* any episodes, buttons and number of requests in flight.                 *)
(***************************************************************************)
EXTENDS ConsoleShell, TLAPS

\* A dialog is about a request that needs one, and no button that needs none
\* shares its key with it.
DialogsApart ==
    /\ dialog # None => NeedsDialog(dialog.op) /\ dialog.from # "button"
    /\ \A c \in calls : c.from = "button" => ~NeedsDialog(c.op)

ShellInv == OneRequestPerKey /\ DialogsApart /\ DialogOwnsItsState

LEMMA ShellInvInit == ShellInit => ShellInv
BY DEF ShellInit, ShellInv, OneRequestPerKey, DialogsApart, DialogOwnsItsState

\* A request that starts is the only one with its key; one that does not leaves
\* everything alone.
LEMMA RunKeepsKeys ==
    ASSUME OneRequestPerKey, NEW c, Run(c)
    PROVE  /\ OneRequestPerKey' /\ Key(c) \in pending'
           /\ \A k \in pending : k \in pending'
           /\ \A d \in calls' : d \in calls \/ (d.from = c.from /\ d.op = c.op)
<1>1. CASE Key(c) \in pending
  <2>1. pending' = pending /\ calls' = calls
    BY <1>1 DEF Run, callVars
  <2>2. OneRequestPerKey'
    BY <2>1 DEF OneRequestPerKey, Key
  <2> QED
    BY <1>1, <2>1, <2>2
<1>2. CASE Key(c) \notin pending
  <2> DEFINE q == [op |-> c.op, rec |-> c.rec, from |-> c.from,
                   n |-> CHOOSE n \in Requests \ {d.n : d \in calls} : TRUE]
  <2>1. pending' = pending \cup {Key(c)} /\ calls' = calls \cup {q}
    BY <1>2 DEF Run
  <2>2. Key(q) = Key(c) /\ q.from = c.from /\ q.op = c.op
    BY DEF Key
  <2> HIDE DEF q
  <2>3. \A d \in calls : Key(d) # Key(q)
    BY <1>2, <2>2 DEF OneRequestPerKey
  <2>4. \A d, e \in calls' : Key(d) = Key(e) => d = e
    BY <2>1, <2>3 DEF OneRequestPerKey
  <2>5. pending' = {Key(d) : d \in calls'}
    BY <2>1, <2>2 DEF OneRequestPerKey
  <2>6. OneRequestPerKey'
    BY <2>4, <2>5 DEF OneRequestPerKey, Key
  <2>7. Key(c) \in pending' /\ \A k \in pending : k \in pending'
    BY <2>1
  <2>8. \A d \in calls' : d \in calls \/ (d.from = c.from /\ d.op = c.op)
    BY <2>1, <2>2
  <2> QED
    BY <2>6, <2>7, <2>8
<1> QED
  BY <1>1, <1>2

\* The answer to a request frees its key and no other.
LEMMA FinishKeepsKeys ==
    ASSUME OneRequestPerKey, NEW c \in calls, Finish(c)
    PROVE  /\ OneRequestPerKey' /\ calls' \subseteq calls
           /\ \A k \in pending : k # Key(c) => k \in pending'
<1>1. calls' = calls \ {c} /\ pending' = pending \ {Key(c)}
  BY DEF Finish
<1>2. pending' = {Key(d) : d \in calls'}
  BY <1>1 DEF OneRequestPerKey
<1>3. OneRequestPerKey'
  BY <1>1, <1>2 DEF OneRequestPerKey, Key
<1> QED
  BY <1>1, <1>3

LEMMA ShellInvStep == ShellInv /\ [ShellNext]_shellVars => ShellInv'
<1> SUFFICES ASSUME ShellInv, [ShellNext]_shellVars PROVE ShellInv'
  OBVIOUS
<1>0. OneRequestPerKey /\ DialogsApart /\ DialogOwnsItsState
  BY DEF ShellInv
<1>a. ASSUME UNCHANGED callVars PROVE OneRequestPerKey'
  BY <1>0, <1>a DEF callVars, OneRequestPerKey, Key
<1>b. ASSUME UNCHANGED callVars, OpenDialog(None) PROVE ShellInv'
  BY <1>0, <1>a, <1>b DEF callVars, OpenDialog, ShellInv, DialogsApart, DialogOwnsItsState
<1>c. ASSUME UNCHANGED <<callVars, dialogVars>> PROVE ShellInv'
  BY <1>0, <1>a, <1>c
     DEF callVars, dialogVars, ShellInv, DialogsApart, DialogOwnsItsState, Key
<1>1. ASSUME NEW op \in Ops, NEW r \in Records, NEW from \in {"row", "drawer"},
             Press(op, r, from)
      PROVE  ShellInv'
  <2>1. CASE NeedsDialog(op)
    <3>1. /\ UNCHANGED callVars /\ dialog' = [op |-> op, rec |-> r, from |-> from]
          /\ typed' = FALSE /\ busy' = FALSE
      BY <1>1, <2>1 DEF Press, OpenDialog
    <3>2. dialog'.op = op /\ dialog'.from = from
      BY <3>1
    <3>3. DialogsApart'
      BY <1>0, <2>1, <3>1, <3>2 DEF callVars, DialogsApart, NeedsDialog
    <3> QED
      BY <1>a, <3>1, <3>3 DEF ShellInv, DialogOwnsItsState
  <2>2. CASE ~NeedsDialog(op)
    <3> DEFINE c == [op |-> op, rec |-> r, from |-> "button"]
    <3>1. Run(c) /\ UNCHANGED dialogVars
      BY <1>1, <2>2 DEF Press
    <3>2. c.op = op
      OBVIOUS
    <3> HIDE DEF c
    <3>3. /\ OneRequestPerKey' /\ \A k \in pending : k \in pending'
          /\ \A d \in calls' : d \in calls \/ d.op = op
      BY <1>0, <3>1, <3>2, RunKeepsKeys
    <3>4. DialogsApart'
      BY <1>0, <2>2, <3>1, <3>3 DEF dialogVars, DialogsApart, NeedsDialog
    <3>5. DialogOwnsItsState'
      BY <1>0, <3>1, <3>3 DEF dialogVars, DialogOwnsItsState, Key
    <3> QED
      BY <3>3, <3>4, <3>5 DEF ShellInv
  <2> QED
    BY <2>1, <2>2
<1>2. CASE TypeWord
  BY <1>0, <1>2, <1>a
     DEF TypeWord, callVars, ShellInv, DialogsApart, DialogOwnsItsState, NeedsText, Key
<1>3. CASE Confirm
  <2>1. dialog # None /\ Run(dialog)
    BY <1>3 DEF Confirm
  <2>2. /\ OneRequestPerKey' /\ Key(dialog) \in pending'
        /\ \A d \in calls' : d \in calls \/ d.from = dialog.from
    BY <1>0, <2>1, RunKeepsKeys
  <2>3. CASE Key(dialog) \in pending
    BY <1>b, <1>3, <2>1, <2>3 DEF Confirm, Run
  <2>4. CASE Key(dialog) \notin pending
    <3>1. busy' = TRUE /\ dialog' = dialog /\ typed' = typed
      BY <1>3, <2>4 DEF Confirm
    <3>2. DialogsApart'
      BY <1>0, <2>1, <2>2, <3>1 DEF DialogsApart, NeedsDialog
    <3>3. DialogOwnsItsState'
      BY <1>0, <2>1, <2>2, <3>1 DEF DialogOwnsItsState, Key, NeedsText
    <3> QED
      BY <2>2, <3>2, <3>3 DEF ShellInv
  <2> QED
    BY <2>3, <2>4
<1>4. CASE Escape
  BY <1>4, <1>b DEF Escape
<1>5. CASE CloseDialog
  BY <1>5, <1>b DEF CloseDialog
<1>6. ASSUME NEW e \in Episodes, OpenFromRow(e) \/ PickFromPalette(e)
      PROVE  ShellInv'
  BY <1>6, <1>c DEF OpenFromRow, PickFromPalette
<1>7. ASSUME NEW e \in Episodes, DrawerAnswer(e) \/ DrawerFails(e)
      PROVE  ShellInv'
  BY <1>7, <1>c DEF DrawerAnswer, DrawerFails
<1>8. CASE DrawerRefresh \/ CloseDrawer
  BY <1>8, <1>c DEF DrawerRefresh, CloseDrawer
<1>9. ASSUME NEW c \in calls, Succeed(c) \/ Refuse(c) PROVE ShellInv'
  <2>1. Finish(c) /\ AfterAnswer(c)
    BY <1>9 DEF Succeed, Refuse
  <2>2. /\ OneRequestPerKey' /\ calls' \subseteq calls
        /\ \A k \in pending : k # Key(c) => k \in pending'
    BY <1>0, <2>1, FinishKeepsKeys
  <2>3. CASE c.from = "button"
    <3>1. UNCHANGED dialogVars
      BY <2>1, <2>3 DEF AfterAnswer
    <3>2. dialog # None => Key(dialog) # Key(c)
      <4>1. dialog # None => dialog.op # c.op
        BY <1>0, <2>3 DEF DialogsApart
      <4> QED
        BY <4>1 DEF Key
    <3>3. DialogsApart'
      BY <1>0, <2>2, <3>1 DEF dialogVars, DialogsApart, NeedsDialog
    <3>4. DialogOwnsItsState'
      BY <1>0, <2>2, <3>1, <3>2 DEF dialogVars, DialogOwnsItsState, Key
    <3> QED
      BY <2>2, <3>3, <3>4 DEF ShellInv
  <2>4. CASE c.from # "button"
    <3>1. dialog' = None /\ typed' = FALSE /\ busy' = FALSE
      BY <2>1, <2>4 DEF AfterAnswer, OpenDialog
    <3> QED
      BY <1>0, <2>2, <3>1 DEF ShellInv, DialogsApart, DialogOwnsItsState
  <2> QED
    BY <2>3, <2>4
<1>10. CASE UNCHANGED shellVars
  BY <1>10, <1>c DEF shellVars
<1> QED
  BY <1>1, <1>2, <1>3, <1>4, <1>5, <1>6, <1>7, <1>8, <1>9, <1>10 DEF ShellNext

\* For any episodes, buttons and answers, a key of run() never has two requests in
\* flight, and exactly the keys in flight show as busy (AdminConsole.tsx, run).
THEOREM OneRequestEach == ShellSpec => []OneRequestPerKey
<1>1. ShellInv => OneRequestPerKey
  BY DEF ShellInv
<1> QED
  BY <1>1, ShellInvInit, ShellInvStep, PTL DEF ShellSpec

\* No word typed, and no request under way, is left of a dialog for the next one
\* that opens (ConfirmDialog.tsx).
THEOREM DialogsOwnTheirState == ShellSpec => []DialogOwnsItsState
<1>1. ShellInv => DialogOwnsItsState
  BY DEF ShellInv
<1> QED
  BY <1>1, ShellInvInit, ShellInvStep, PTL DEF ShellSpec
=============================================================================
