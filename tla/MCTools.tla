------------------------------ MODULE MCTools ------------------------------
(* The developer's tools on small instances: the form builder, the language  *)
(* server and the scenario runner.  A behaviour is one of the three; they    *)
(* share no state.                                                           *)
EXTENDS Builder, Lsp, Scenario

VARIABLE part

toolvars == <<part, bvars, lspvars, scnvars>>

\* An empty file; one without forms; forms with code between their statements;
\* interleaved forms, a handler inside an expression, no show.
Srcs == {
  << >>,
  <<CodeLine("a")>>,
  <<CodeLine("a"), NewStmt("main", "T"), CtrlStmt("main", "ok"), CodeLine("b"),
    OnStmt("main", "ok", "h1"), ShowStmt("main", "modal"),
    NewStmt("second", ""), CtrlStmt("second", "grid"), ShowStmt("second", ""), CodeLine("c")>>,
  <<NewStmt("main", "T"), NewStmt("second", "U"), CtrlStmt("second", "ok"), CtrlStmt("main", "ok"),
    CtrlStmt("main", "grid"), [OnStmt("main", "ok", "h1") EXCEPT !.bare = FALSE],
    CodeLine("b"), OnStmt("main", "grid", "h2")>> }

Gens == {<<[name |-> "main", title |-> "gen", ctrls |-> <<"ok">>, handlers |-> {"ok"},
            bodies |-> [k \in {"ok"} |-> OnStmt("main", "ok", "g1")]]>>}

Scripts == {
  <<"set_control", "click", "assert_global", "timer", "get_global">>,
  <<"click", "click", "click", "click", "assert_global">>,
  <<"click", "wait", "assert_value", "assert_global">>,
  <<"timer", "assert_msgbox">> }

Init ==
    /\ part \in {"builder", "lsp", "scenario"}
    /\ BuilderInit /\ LspInit /\ ScenarioInit
    /\ part # "builder" => file.src = << >>
    /\ part # "scenario" => Len(steps) = 2

Build == part = "builder" /\ BuilderNext /\ UNCHANGED <<part, lspvars, scnvars>>
Serve == part = "lsp" /\ LspNext /\ UNCHANGED <<part, bvars, scnvars>>
Play  == part = "scenario" /\ ScenarioNext /\ UNCHANGED <<part, bvars, lspvars>>

Next == Build \/ Serve \/ Play

Spec == Init /\ [][Next]_toolvars /\ LspFair /\ (part = "scenario" => ScenarioFair)
=============================================================================
