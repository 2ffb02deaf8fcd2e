------------------------------ MODULE Scenario ------------------------------
(***************************************************************************)
(* The scenario runner (internal/scenario/runner.go), which plays the      *)
(* browser to a session: it posts the steps of a scenario to the session's *)
(* inbox, while a second goroutine answers what the session asks on its    *)
(* outbox.  Of the session only the order matters here: its actor handles  *)
(* one inbox message at a time (SessionOps has the rest).                  *)
(***************************************************************************)
EXTENDS Integers, Sequences

CONSTANTS Scenarios,    \* sequences of steps
          InCap,        \* capacity of the session's inbox (64)
          OutCap        \* capacity of its outbox (64)

VARIABLES steps, at,    \* the scenario and the step that comes next
          runner,       \* "step", "query", "teardown" or "over"
          result,       \* "none", "ok", or what made the scenario fail
          inb, outb,    \* the session's channels
          actor,        \* "idle", or "erring": an error is to be sent
          reply,        \* the runner's query has been answered
          pump          \* the question processOutbox is answering, or none

scnvars == <<steps, at, runner, result, inb, outb, actor, reply, pump>>

Nothing == "nothing"
Over == runner = "over"

ScenarioInit ==
    /\ steps \in Scenarios /\ at = 1
    /\ runner = "step" /\ result = "none"
    /\ inb = << >> /\ outb = << >> /\ actor = "idle"
    /\ reply = FALSE /\ pump = Nothing

-----------------------------------------------------------------------------
(* The steps.                                                              *)

Step(kinds) == runner = "step" /\ at <= Len(steps) /\ steps[at] \in kinds

Done   == at' = at + 1 /\ runner' = "step" /\ UNCHANGED result
Fails(why) == result' = why /\ runner' = "teardown" /\ UNCHANGED at

\* PostEventAny, PostEvent and PostTimer wait for room in the inbox; the step's
\* context is not looked at.
stepClick ==
    /\ Step({"set_control", "click", "timer"})
    /\ Len(inb) < InCap
    /\ inb' = Append(inb, "event")
    /\ Done
    /\ UNCHANGED <<steps, outb, actor, reply, pump>>

\* The context ends when the wait does: either may be noticed first.
stepWait ==
    /\ Step({"wait"})
    /\ Done \/ Fails("context deadline exceeded")
    /\ UNCHANGED <<steps, inb, outb, actor, reply, pump>>

\* assert_value checks nothing; assert_outbox and assert_msgbox fail.
stepAssertValue ==
    /\ Step({"assert_value", "assert_outbox", "assert_msgbox"})
    /\ IF steps[at] = "assert_value" THEN Done ELSE Fails("not yet implemented")
    /\ UNCHANGED <<steps, inb, outb, actor, reply, pump>>

\* GetGlobal asks the actor through the inbox.
stepGetGlobal ==
    /\ Step({"get_global", "assert_global"})
    /\ Len(inb) < InCap
    /\ inb' = Append(inb, "query") /\ runner' = "query"
    /\ UNCHANGED <<steps, at, result, outb, actor, reply, pump>>

stepAssertGlobal ==
    /\ runner = "query" /\ reply
    /\ reply' = FALSE
    /\ \/ Done
       \/ steps[at] = "assert_global" /\ Fails("assertion")
    /\ UNCHANGED <<steps, inb, outb, actor, pump>>

\* Setup and teardown run nothing; the pump is stopped and the session closed.
Run ==
    /\ \/ runner = "step" /\ at > Len(steps) /\ result' = "ok"
       \/ runner = "teardown" /\ UNCHANGED result
    /\ runner' = "over"
    /\ UNCHANGED <<steps, at, inb, outb, actor, reply, pump>>

-----------------------------------------------------------------------------
(* The session, as the runner sees it.                                     *)

\* A handler runs; it may ask the browser something (dropped when the outbox is
\* full) or raise an error.
handleEvent ==
    /\ ~Over /\ actor = "idle" /\ inb # << >> /\ Head(inb) = "event"
    /\ inb' = Tail(inb)
    /\ \/ UNCHANGED <<outb, actor>>
       \/ outb' = (IF Len(outb) < OutCap THEN Append(outb, "msgbox") ELSE outb) /\ UNCHANGED actor
       \/ actor' = "erring" /\ UNCHANGED outb
    /\ UNCHANGED <<steps, at, runner, result, reply, pump>>

\* The error is sent with a plain channel send.
sendError ==
    /\ ~Over /\ actor = "erring" /\ Len(outb) < OutCap
    /\ outb' = Append(outb, "error") /\ actor' = "idle"
    /\ UNCHANGED <<steps, at, runner, result, inb, reply, pump>>

\* A query is answered, an answer resumes its coroutine.
handleOther ==
    /\ ~Over /\ actor = "idle" /\ inb # << >> /\ Head(inb) # "event"
    /\ inb' = Tail(inb)
    /\ reply' = (reply \/ Head(inb) = "query")
    /\ UNCHANGED <<steps, at, runner, result, outb, actor, pump>>

-----------------------------------------------------------------------------
(* processOutbox.                                                          *)

\* Mutant: an error message ends the loop.
processOutboxStops ==
    /\ ~Over /\ pump = Nothing /\ outb # << >>
    /\ outb' = Tail(outb)
    /\ pump' = IF Head(outb) = "msgbox" THEN "msgbox" ELSE "stopped"
    /\ UNCHANGED <<steps, at, runner, result, inb, actor, reply>>

processOutbox ==
    /\ ~Over /\ pump = Nothing /\ outb # << >>
    /\ outb' = Tail(outb)
    /\ pump' = IF Head(outb) = "msgbox" THEN "msgbox" ELSE Nothing
    /\ UNCHANGED <<steps, at, runner, result, inb, actor, reply>>

\* A question is answered into the inbox, when there is room.
handleOutbox ==
    /\ ~Over /\ pump = "msgbox" /\ Len(inb) < InCap
    /\ inb' = Append(inb, "answer") /\ pump' = Nothing
    /\ UNCHANGED <<steps, at, runner, result, outb, actor, reply>>

-----------------------------------------------------------------------------
RunnerStep == stepClick \/ stepWait \/ stepAssertValue \/ stepGetGlobal \/ stepAssertGlobal \/ Run
ActorStep  == handleEvent \/ sendError \/ handleOther
PumpStep   == processOutbox \/ handleOutbox

ScenarioNext == RunnerStep \/ ActorStep \/ PumpStep

\* The Go scheduler runs the three goroutines.
ScenarioFair == WF_scnvars(RunnerStep) /\ WF_scnvars(ActorStep) /\ WF_scnvars(PumpStep)

-----------------------------------------------------------------------------
\* A scenario of fewer steps than the inbox holds comes to an end, whatever the
\* session asks and however often its handlers fail.
ScenarioReturns == at > 1 ~> Over

\* "stepWait waits for a duration": a scenario whose steps are implemented and
\* whose assertions hold passes.
WaitsPass == result # "context deadline exceeded"
=============================================================================
