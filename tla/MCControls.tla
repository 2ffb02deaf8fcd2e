----------------------------- MODULE MCControls -----------------------------
(* The controls of a form and the page that shows them, on small instances.  *)
(* A behaviour is one of plain controls, a CRUD grid, or a looper with a     *)
(* tree and a login; they share no state.                                    *)
EXTENDS Page, GridCrud, Loopers

CONSTANTS c1, c2, f1, f2

VARIABLE part

\* A textbox next to a control of each type; the second form is empty.
CtrlKinds == {c1 :> "text" @@ c2 :> k : k \in {"text", "combo", "table", "tabulator", "tab", "chart", "image", "looper", "grid", "topbar"}}
CtrlOwner == [c \in {c1, c2} |-> f1]
FormCells == f1 :> <<"left", "right">> @@ f2 :> <<>>

ctrlvars == <<part, pagevars, gridvars, loopvars>>

Init ==
    /\ part \in {"page", "grid", "looper", "tree", "login"}
    /\ PageInit /\ GridInit /\ LoopersInit
    /\ part # "page" => \A c \in Ctrl : kind[c] = "text"
    /\ part # "grid" => DOMAIN rows = {}

Forms == part = "page" /\ PageNext /\ UNCHANGED <<part, gridvars, loopvars>>
Grid == part = "grid" /\ GridNext /\ UNCHANGED <<part, pagevars, loopvars>>
Loop == part = "looper" /\ LooperNext /\ UNCHANGED <<part, pagevars, gridvars>>
Tree == part = "tree" /\ handleTreeDataRequest /\ UNCHANGED <<part, pagevars, gridvars>>
Login == part = "login" /\ handleLoginSubmit /\ UNCHANGED <<part, pagevars, gridvars>>

Next == Forms \/ Grid \/ Loop \/ Tree \/ Login

Spec == Init /\ [][Next]_ctrlvars
=============================================================================
