-------------------------------- MODULE AIChat --------------------------------
(***************************************************************************)
(* The turn lifecycle of the ai_chat control: handleAIChatControlSend,     *)
(* handleAIChatControlStop, the agent worker goroutine with ai.AgentRun,   *)
(* the tool calls it runs on the session actor, and what close_form and    *)
(* Session.Close do to turns in flight                                     *)
(* (internal/session/aichat_control.go, internal/ai/agent.go).             *)
(*                                                                         *)
(* The actor owns the control table (ai_busy, ai_transcript) and handles   *)
(* one inbox message at a time; a worker reaches that table only through   *)
(* Query.  The map aiTurns of cancel functions is shared under a mutex.    *)
(* Controls of one form are modelled; the model's replies, the tools and   *)
(* the network are nondeterministic.                                       *)
(***************************************************************************)
EXTENDS Naturals, Sequences, FiniteSets

CONSTANTS
    Ctrl,       \* the ai_chat controls of one form
    Turn,       \* the turns (worker goroutines) that can ever be started
    MaxTurns,   \* opts.max_turns: completions per turn (8 by default)
    MaxCalls,   \* bound: tool calls in one completion
    Suspends,   \* how a tool may suspend: "async" (k.db_select), "browser"
                \* (k.msgbox, k.sleep: resumed by another handler)
    InboxCap,   \* capacity of the session's inbox
    None

ASSUME ChatAssumption ==
    /\ IsFiniteSet(Turn)
    /\ None \notin Turn /\ None \notin Ctrl
    /\ MaxTurns \in Nat \ {0} /\ MaxCalls \in Nat \ {0} /\ InboxCap \in Nat \ {0}
    /\ Suspends \subseteq {"async", "browser"} /\ None \notin {"async", "browser"}

VARIABLES
    inbox,       \* Session.inbox
    busy,        \* ai_busy of each control
    transcript,  \* ai_transcript of each control: who said it, in which turn
    entry,       \* aiTurns: the turn whose cancel function is stored
    cancelled,   \* turns whose context is cancelled
    pc,          \* where each turn's worker is
    ctl,         \* the control of each turn
    rounds,      \* completions the turn has used up
    calls,       \* tool calls of the last completion still to execute
    text,        \* has the turn produced assistant text
    err,         \* has AgentRun returned an error
    reply,       \* what the worker's reply channel holds
    parked,      \* how the turn's suspended tool coroutine will be resumed
    seen,        \* which of the turn's final events have reached Lua
    actor,       \* is the actor goroutine still in its loop
    stage        \* Close: "open", "cancelling", "closing", "closed"

worker == <<pc, ctl, rounds, calls, text, err>>
vars == <<inbox, busy, transcript, entry, cancelled, worker, reply, parked,
          seen, actor, stage>>

Running == {"complete", "tool", "wait", "onTool", "query", "asked"}
Ending  == {"unmap", "outcome", "done"}

Live(t) == pc[t] \in Running \cup Ending

\* A turn is in flight until its final write is made.
InFlight(t) == pc[t] \in Running /\ ~(pc[t] = "asked" /\ reply[t])

Post(m) == Len(inbox) < InboxCap /\ inbox' = Append(inbox, m)

\* select { case s.inbox <- m: case <-s.done: }
PostOrDone(m) == Post(m) \/ (stage \in {"closing", "closed"} /\ UNCHANGED inbox)

Command(k, c) == [typ |-> k, ctrl |-> c, turn |-> None]
Request(k, t) == [typ |-> k, ctrl |-> ctl[t], turn |-> t]

Init ==
    /\ inbox = <<>> /\ busy = [c \in Ctrl |-> FALSE]
    /\ transcript = [c \in Ctrl |-> <<>>]
    /\ entry = [c \in Ctrl |-> None] /\ cancelled = {}
    /\ pc = [t \in Turn |-> "unused"] /\ ctl = [t \in Turn |-> None]
    /\ rounds = [t \in Turn |-> 0] /\ calls = [t \in Turn |-> 0]
    /\ text = [t \in Turn |-> FALSE] /\ err = [t \in Turn |-> FALSE]
    /\ reply = [t \in Turn |-> FALSE] /\ parked = [t \in Turn |-> None]
    /\ seen = [t \in Turn |-> {}]
    /\ actor = TRUE /\ stage = "open"

-----------------------------------------------------------------------------
(* The session actor.                                                      *)

Receive(k) ==
    /\ actor /\ inbox # <<>> /\ Head(inbox).typ = k
    /\ inbox' = Tail(inbox)

\* handleAIChatControlSend: a busy control ignores the message, on_send may
\* veto it; otherwise the turn's worker is started.
SendIgnored ==
    /\ Receive("send")
    /\ UNCHANGED <<busy, transcript, entry, cancelled, worker, reply, parked,
                   seen, actor, stage>>

SendAccepted(t) ==
    /\ Receive("send") /\ pc[t] = "unused"
    /\ LET c == Head(inbox).ctrl IN
         /\ ~busy[c]
         /\ transcript' = [transcript EXCEPT ![c] = Append(@, <<"user", t>>)]
         /\ busy' = [busy EXCEPT ![c] = TRUE]
         /\ entry' = [entry EXCEPT ![c] = t]
         /\ ctl' = [ctl EXCEPT ![t] = c]
    /\ pc' = [pc EXCEPT ![t] = "complete"]
    /\ UNCHANGED <<cancelled, rounds, calls, text, err, reply, parked, seen,
                   actor, stage>>

\* handleAIChatControlStop: cancel the stored turn and free the control.
HandleStop ==
    /\ Receive("stop")
    /\ LET c == Head(inbox).ctrl IN
         /\ cancelled' = cancelled \cup ({entry[c]} \ {None})
         /\ entry' = [entry EXCEPT ![c] = None]
         /\ busy' = [busy EXCEPT ![c] = FALSE]
    /\ UNCHANGED <<transcript, worker, reply, parked, seen, actor, stage>>

\* cancelAIChatTurns and cancelAllAITurns.
CancelEntries ==
    /\ cancelled' = cancelled \cup ({entry[c] : c \in Ctrl} \ {None})
    /\ entry' = [c \in Ctrl |-> None]

\* handleFormEvent("close_form").
HandleCloseForm ==
    /\ Receive("closeForm")
    /\ CancelEntries
    /\ UNCHANGED <<busy, transcript, worker, reply, parked, seen, actor, stage>>

\* handleAIToolCall: the tool is unknown, returns or fails, and the worker gets
\* a result ...
HandleToolCall ==
    /\ Receive("tool")
    /\ reply' = [reply EXCEPT ![Head(inbox).turn] = TRUE]
    /\ UNCHANGED <<busy, transcript, entry, cancelled, worker, parked, seen,
                   actor, stage>>

\* ... or it suspends, and its coroutine is kept in pendingToolCalls.
HandleToolYield(k) ==
    /\ Receive("tool")
    /\ parked' = [parked EXCEPT ![Head(inbox).turn] = k]
    /\ UNCHANGED <<busy, transcript, entry, cancelled, worker, reply, seen,
                   actor, stage>>

\* Mutant: the coroutine is resumed, its result goes nowhere.
ToolAsyncDoneForgets(t) ==
    /\ actor /\ parked[t] = "async"
    /\ parked' = [parked EXCEPT ![t] = None]
    /\ UNCHANGED <<inbox, busy, transcript, entry, cancelled, worker, reply,
                   seen, actor, stage>>

\* handleAsyncDone: the coroutine returns or fails, and the result is forwarded
\* to the worker.
ToolAsyncDone(t) ==
    /\ actor /\ parked[t] = "async"
    /\ reply' = [reply EXCEPT ![t] = TRUE]
    /\ parked' = [parked EXCEPT ![t] = None]
    /\ UNCHANGED <<inbox, busy, transcript, entry, cancelled, worker, seen,
                   actor, stage>>

\* resumeAsyncResp, resumeSleep: the coroutine is resumed and returns; nobody
\* looks it up in pendingToolCalls.
ToolResumed(t) ==
    /\ actor /\ parked[t] = "browser"
    /\ parked' = [parked EXCEPT ![t] = None]
    /\ UNCHANGED <<inbox, busy, transcript, entry, cancelled, worker, reply,
                   seen, actor, stage>>

\* A resumed tool suspends once more, in another kind of operation.
ToolYieldsAgain(t, k) ==
    /\ actor /\ parked[t] # None /\ parked[t] # k
    /\ parked' = [parked EXCEPT ![t] = k]
    /\ UNCHANGED <<inbox, busy, transcript, entry, cancelled, worker, reply,
                   seen, actor, stage>>

\* Mutant: the final state is written without clearing ai_busy.
HandleQueryKeepsBusy ==
    /\ Receive("query")
    /\ LET t == Head(inbox).turn IN
         /\ transcript' = IF text[t]
                            THEN [transcript EXCEPT ![ctl[t]] = Append(@, <<"assistant", t>>)]
                            ELSE transcript
         /\ reply' = [reply EXCEPT ![t] = TRUE]
    /\ UNCHANGED <<busy, entry, cancelled, worker, parked, seen, actor, stage>>

\* Mutant: the partial text of a stopped turn is not kept.
HandleQueryDropsPartial ==
    /\ Receive("query")
    /\ LET t == Head(inbox).turn IN
         /\ transcript' = IF text[t] /\ t \notin cancelled
                            THEN [transcript EXCEPT ![ctl[t]] = Append(@, <<"assistant", t>>)]
                            ELSE transcript
         /\ busy' = [busy EXCEPT ![ctl[t]] = FALSE]
         /\ reply' = [reply EXCEPT ![t] = TRUE]
    /\ UNCHANGED <<entry, cancelled, worker, parked, seen, actor, stage>>

\* The worker's Query: commit the assistant text and clear ai_busy.
HandleQuery ==
    /\ Receive("query")
    /\ LET t == Head(inbox).turn IN
         /\ transcript' = IF text[t]
                            THEN [transcript EXCEPT ![ctl[t]] = Append(@, <<"assistant", t>>)]
                            ELSE transcript
         /\ busy' = [busy EXCEPT ![ctl[t]] = FALSE]
         /\ reply' = [reply EXCEPT ![t] = TRUE]
    /\ UNCHANGED <<entry, cancelled, worker, parked, seen, actor, stage>>

\* postAIChatEvent: run the Lua handler of on_tool, on_reply, on_error, on_done.
EventTypes == {"on_tool", "on_reply", "on_error", "on_done"}

HandleChatEvent(k) ==
    /\ Receive(k)
    /\ seen' = [seen EXCEPT ![Head(inbox).turn] = @ \cup ({k} \ {"on_tool"})]
    /\ UNCHANGED <<busy, transcript, entry, cancelled, worker, reply, parked,
                   actor, stage>>

\* The loop's select takes ctx.Done().
ActorExit ==
    /\ actor /\ stage \in {"closing", "closed"}
    /\ actor' = FALSE
    /\ UNCHANGED <<inbox, busy, transcript, entry, cancelled, worker, reply,
                   parked, seen, stage>>

ActorStep ==
    \/ SendIgnored
    \/ \E t \in Turn : SendAccepted(t)
    \/ HandleStop \/ HandleCloseForm \/ HandleToolCall
    \/ \E k \in Suspends : HandleToolYield(k)
    \/ HandleQuery
    \/ \E k \in EventTypes : HandleChatEvent(k)
    \/ ActorExit

-----------------------------------------------------------------------------
(* The worker goroutine of a turn.                                         *)

\* One completion of AgentRun.  A cancelled context makes it fail; the model
\* may also fail, stay silent, answer in prose, garble a call, or call tools.
\* When AgentRun returns, its loop counter goes out of scope.
AgentReturns(t) ==
    /\ pc' = [pc EXCEPT ![t] = "query"]
    /\ rounds' = [rounds EXCEPT ![t] = 0]

Fail(t) ==
    /\ err' = [err EXCEPT ![t] = TRUE]
    /\ AgentReturns(t)
    /\ UNCHANGED <<calls, text>>

Answer(t, said) ==
    /\ text' = [text EXCEPT ![t] = text[t] \/ said]
    /\ AgentReturns(t)
    /\ UNCHANGED <<calls, err>>

Garble(t) ==
    /\ text' = [text EXCEPT ![t] = TRUE]
    /\ rounds' = [rounds EXCEPT ![t] = @ + 1]
    /\ UNCHANGED <<pc, calls, err>>

CallTools(t, n) ==
    /\ text' = [text EXCEPT ![t] = TRUE]
    /\ calls' = [calls EXCEPT ![t] = n]
    /\ pc' = [pc EXCEPT ![t] = "tool"]
    /\ UNCHANGED <<rounds, err>>

Complete(t) ==
    /\ pc[t] = "complete"
    /\ \/ Fail(t)
       \/ /\ rounds[t] < MaxTurns /\ t \notin cancelled
          /\ \/ \E said \in BOOLEAN : Answer(t, said)
             \/ Garble(t)
             \/ \E n \in 1..MaxCalls : CallTools(t, n)
    /\ UNCHANGED <<inbox, busy, transcript, entry, cancelled, ctl, reply, parked,
                   seen, actor, stage>>

\* executeAIToolControl: ask the actor ...
AskTool(t) ==
    /\ pc[t] = "tool"
    /\ \/ /\ Post(Request("tool", t))
          /\ pc' = [pc EXCEPT ![t] = "wait"]
       \/ /\ stage \in {"closing", "closed"} /\ UNCHANGED inbox
          /\ pc' = [pc EXCEPT ![t] = "onTool"]
    /\ UNCHANGED <<busy, transcript, entry, cancelled, ctl, rounds, calls, text,
                   err, reply, parked, seen, actor, stage>>

\* ... and wait for the reply or for done, whatever happens to the context.
ToolReplied(t) ==
    /\ pc[t] = "wait" /\ (reply[t] \/ stage \in {"closing", "closed"})
    /\ reply' = [reply EXCEPT ![t] = FALSE]
    /\ pc' = [pc EXCEPT ![t] = "onTool"]
    /\ UNCHANGED <<inbox, busy, transcript, entry, cancelled, ctl, rounds, calls,
                   text, err, parked, seen, actor, stage>>

\* The executor posts on_tool; the next call, or the next completion.
PostOnTool(t) ==
    /\ pc[t] = "onTool"
    /\ PostOrDone(Request("on_tool", t))
    /\ calls' = [calls EXCEPT ![t] = @ - 1]
    /\ IF calls[t] > 1
         THEN pc' = [pc EXCEPT ![t] = "tool"] /\ UNCHANGED rounds
         ELSE /\ pc' = [pc EXCEPT ![t] = "complete"]
              /\ rounds' = [rounds EXCEPT ![t] = @ + 1]
    /\ UNCHANGED <<busy, transcript, entry, cancelled, ctl, text, err, reply,
                   parked, seen, actor, stage>>

\* Query posts the final write to the actor and waits for it, or for done.
AskQuery(t) ==
    /\ pc[t] = "query"
    /\ \/ /\ Post(Request("query", t))
          /\ pc' = [pc EXCEPT ![t] = "asked"]
       \/ /\ stage \in {"closing", "closed"} /\ UNCHANGED inbox
          /\ pc' = [pc EXCEPT ![t] = "unmap"]
    /\ UNCHANGED <<busy, transcript, entry, cancelled, ctl, rounds, calls, text,
                   err, reply, parked, seen, actor, stage>>

QueryAnswered(t) ==
    /\ pc[t] = "asked" /\ (reply[t] \/ stage \in {"closing", "closed"})
    /\ reply' = [reply EXCEPT ![t] = FALSE]
    /\ pc' = [pc EXCEPT ![t] = "unmap"]
    /\ UNCHANGED <<inbox, busy, transcript, entry, cancelled, ctl, rounds, calls,
                   text, err, parked, seen, actor, stage>>

\* delete(s.aiTurns, key), whichever turn the entry is for.
Unmap(t) ==
    /\ pc[t] = "unmap"
    /\ entry' = [entry EXCEPT ![ctl[t]] = None]
    /\ pc' = [pc EXCEPT ![t] = "outcome"]
    /\ UNCHANGED <<inbox, busy, transcript, cancelled, ctl, rounds, calls, text,
                   err, reply, parked, seen, actor, stage>>

\* Mutant: on_done is posted first.
PostOutcomeLate(t) ==
    /\ pc[t] = "outcome"
    /\ PostOrDone(Request("on_done", t))
    /\ pc' = [pc EXCEPT ![t] = "done"]
    /\ UNCHANGED <<busy, transcript, entry, cancelled, ctl, rounds, calls, text,
                   err, reply, parked, seen, actor, stage>>

\* on_error, or on_reply when there is text ...
PostOutcome(t) ==
    /\ pc[t] = "outcome"
    /\ IF err[t] THEN PostOrDone(Request("on_error", t))
       ELSE IF text[t] THEN PostOrDone(Request("on_reply", t))
       ELSE UNCHANGED inbox
    /\ pc' = [pc EXCEPT ![t] = "done"]
    /\ UNCHANGED <<busy, transcript, entry, cancelled, ctl, rounds, calls, text,
                   err, reply, parked, seen, actor, stage>>

\* ... then on_done, and the goroutine ends with its locals.
PostDone(t) ==
    /\ pc[t] = "done"
    /\ PostOrDone(Request("on_done", t))
    /\ pc' = [pc EXCEPT ![t] = "exited"]
    /\ text' = [text EXCEPT ![t] = FALSE]
    /\ err' = [err EXCEPT ![t] = FALSE]
    /\ UNCHANGED <<busy, transcript, entry, cancelled, ctl, rounds, calls, reply,
                   parked, seen, actor, stage>>

WorkerStep(t) ==
    \/ Complete(t) \/ AskTool(t) \/ ToolReplied(t) \/ PostOnTool(t)
    \/ AskQuery(t) \/ QueryAnswered(t) \/ Unmap(t)
    \/ PostOutcome(t) \/ PostDone(t)

-----------------------------------------------------------------------------
(* The page, the script and whoever closes the session.                    *)

\* An ai_chat_send, ai_chat_stop or close_form event reaches the inbox (PostEvent
\* drops it once done is closed).  A send is posted only while a turn is left
\* for it.
Spare == Cardinality({t \in Turn : pc[t] = "unused"})
Sends == Cardinality({i \in DOMAIN inbox : inbox[i].typ = "send"})

PostCommand(k, c) ==
    /\ stage \in {"open", "cancelling"}
    /\ k = "send" => Spare > Sends
    /\ Post(Command(k, c))
    /\ UNCHANGED <<busy, transcript, entry, cancelled, worker, reply, parked,
                   seen, actor, stage>>

\* Close: cancelAllAITurns ...
CloseCancel ==
    /\ stage = "open"
    /\ CancelEntries
    /\ stage' = "cancelling"
    /\ UNCHANGED <<inbox, busy, transcript, worker, reply, parked, seen, actor>>

\* ... cancel() and close(done) ...
CloseDone ==
    /\ stage = "cancelling"
    /\ stage' = "closing"
    /\ UNCHANGED <<inbox, busy, transcript, entry, cancelled, worker, reply,
                   parked, seen, actor>>

\* ... and, after wg.Wait, close(inbox) and L.Close().
CloseEnd ==
    /\ stage = "closing" /\ ~actor /\ \A t \in Turn : ~Live(t)
    /\ stage' = "closed"
    /\ UNCHANGED <<inbox, busy, transcript, entry, cancelled, worker, reply,
                   parked, seen, actor>>

CloseStep == CloseCancel \/ CloseDone \/ CloseEnd

Next ==
    \/ ActorStep
    \/ \E t \in Turn : WorkerStep(t) \/ ToolAsyncDone(t) \/ ToolResumed(t)
    \/ \E t \in Turn, k \in Suspends : ToolYieldsAgain(t, k)
    \/ \E c \in Ctrl, k \in {"send", "stop", "closeForm"} : PostCommand(k, c)
    \/ CloseStep

Spec == Init /\ [][Next]_vars

\* Goroutines run, the LLM client times out after five minutes, a k.db_select
\* finishes, and Go queues the senders of a channel.  The page need not answer
\* a tool's msgbox, nobody need stop a turn or close the session, but a Close
\* once called goes on.
Fairness ==
    /\ WF_vars(ActorStep)
    /\ \A t \in Turn : SF_vars(WorkerStep(t)) /\ WF_vars(ToolAsyncDone(t))
    /\ WF_vars(CloseDone) /\ WF_vars(CloseEnd)

FairSpec == Spec /\ Fairness

-----------------------------------------------------------------------------
(* Properties.                                                             *)

MsgType ==
    [typ : {"send", "stop", "closeForm"}, ctrl : Ctrl, turn : {None}]
    \cup [typ : {"tool", "query"} \cup EventTypes, ctrl : Ctrl, turn : Turn]

\* Types, and the inbox stays within its capacity.
TypeOK ==
    /\ inbox \in Seq(MsgType) /\ Len(inbox) <= InboxCap
    /\ busy \in [Ctrl -> BOOLEAN]
    /\ transcript \in [Ctrl -> Seq({"user", "assistant"} \X Turn)]
    /\ entry \in [Ctrl -> Turn \cup {None}]
    /\ cancelled \subseteq Turn
    /\ pc \in [Turn -> {"unused", "exited"} \cup Running \cup Ending]
    /\ ctl \in [Turn -> Ctrl \cup {None}]
    /\ rounds \in [Turn -> 0..MaxTurns]
    /\ calls \in [Turn -> 0..MaxCalls]
    /\ text \in [Turn -> BOOLEAN] /\ err \in [Turn -> BOOLEAN]
    /\ reply \in [Turn -> BOOLEAN]
    /\ parked \in [Turn -> Suspends \cup {None}]
    /\ seen \in [Turn -> SUBSET EventTypes]
    /\ actor \in BOOLEAN
    /\ stage \in {"open", "cancelling", "closing", "closed"}

\* A control is never left busy by a turn that is over: while the session is
\* open a busy control has a turn that will still clear the flag.
BusyHasTurn ==
    stage = "open" =>
        \A c \in Ctrl : busy[c] =>
            \E t \in Turn : ctl[t] = c /\ InFlight(t)

Pending(t, kinds) == \E i \in DOMAIN inbox : inbox[i].turn = t /\ inbox[i].typ \in kinds

\* The events of a turn reach Lua in the documented order: on_done is the last
\* event of a started turn, on_reply and on_error come after every on_tool, and
\* while the session is open no turn ends without its on_done.
EventOrder ==
    \A t \in Turn :
        /\ "on_done" \in seen[t] => pc[t] = "exited" /\ ~Pending(t, EventTypes)
        /\ seen[t] \cap {"on_reply", "on_error"} # {} => ~Pending(t, {"on_tool"})
        /\ stage = "open" /\ pc[t] = "exited" =>
               "on_done" \in seen[t] \/ Pending(t, {"on_done"})

\* When on_reply runs in an open session, the text it reports is committed to
\* the transcript it is passed.
ReplyCommitted ==
    (stage = "open" /\ inbox # <<>> /\ Head(inbox).typ = "on_reply") =>
        LET m == Head(inbox) IN
          \E i \in DOMAIN transcript[m.ctrl] :
              transcript[m.ctrl][i] = <<"assistant", m.turn>>

\* Every started turn comes to an end, whatever the model answers.
TurnEnds == \A t \in Turn : pc[t] \in Running ~> pc[t] = "exited"

\* "One turn per control": at most one turn that is not cancelled is running.
OneTurnPerControl ==
    \A c \in Ctrl :
        Cardinality({t \in Turn : ctl[t] = c /\ InFlight(t) /\ t \notin cancelled}) <= 1

\* "k.ai_chat.stop cancels the in-flight turn": the cancel function of a running
\* turn is in the map where a stop looks for it.
Stoppable ==
    stage = "open" =>
        \A t \in Turn : InFlight(t) => t \in cancelled \/ entry[ctl[t]] = t

\* "Cancel all in-flight AI chat turns so worker goroutines release their reply
\* channels and exit before we wait on the actor": when Close starts to wait,
\* every turn in flight is cancelled.
CloseCancelsAll ==
    stage = "closing" =>
        \A t \in Turn : InFlight(t) => t \in cancelled

\* "A tool that never returns keeps its turn open until k.ai_chat.stop": a
\* cancelled turn ends.
StoppedTurnEnds == \A t \in Turn : t \in cancelled ~> pc[t] = "exited"
=============================================================================
