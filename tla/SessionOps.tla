------------------------------ MODULE SessionOps ------------------------------
(***************************************************************************)
(* The per-tab session actor of internal/session/session.go: how the Lua   *)
(* coroutines of one session are suspended and resumed.                    *)
(*                                                                         *)
(* A binding that blocks (k.sql, k.sleep, k.msgbox, k.exec, k.grid.* ...)   *)
(* registers an operation under a fresh id, arranges for somebody to post  *)
(* the id to the inbox, and yields.  The goroutine that drains the inbox   *)
(* looks the id up, deletes it and resumes the coroutine.                  *)
(*                                                                         *)
(* Two deployments share that code.  session.New (Transport = FALSE, the   *)
(* scenario runner and the tests) runs main() and then the inbox loop on   *)
(* one goroutine that Close waits for.  NewWithTransport (Transport =      *)
(* TRUE, the web server) runs main() and the inbox reader on goroutines    *)
(* of their own, neither of which is in the WaitGroup.                     *)
(***************************************************************************)
EXTENDS Naturals, Integers, Sequences, FiniteSets

CONSTANTS
    Coro,       \* Lua coroutines: main()'s and one per handler invocation
    Main,       \* the coroutine App.Run drives
    Kinds,      \* the kinds of blocking operation the script uses
    MaxOps,     \* bound: operations one coroutine requests in its life
    InboxCap,   \* capacity of the inbox channel (64 in the code)
    OutboxCap,  \* capacity of the outbox channel (64 in the code)
    Transport   \* which of the two deployments

(***************************************************************************)
(* "async":   RunAsync, a worker goroutine posts the result                *)
(* "sleep":   ScheduleSleep, a goroutine sleeps and posts                  *)
(* "browser": msgbox, popup, clipboard, file picker, get_data, selection,  *)
(*            chart image: a request on the outbox, answered by the page   *)
(* "exec":    k.exec, the request is posted to the session's own inbox     *)
(* "grid":    k.grid.get_row/insert_row/..., posted to the own inbox       *)
(* "gridSel": k.grid.get_selected                                          *)
(***************************************************************************)
AllKinds == {"async", "sleep", "browser", "exec", "grid", "gridSel"}

ASSUME OpsAssumption ==
    /\ Main \in Coro
    /\ Kinds \subseteq AllKinds
    /\ MaxOps \in Nat
    /\ InboxCap \in Nat \ {0}
    /\ OutboxCap \in Nat \ {0}
    /\ Transport \in BOOLEAN

VARIABLES
    inbox,    \* Session.inbox
    outbox,   \* Session.outbox
    recv,     \* messages of the page not yet read (the transport's recvCh)
    shown,    \* requests on screen at the page: it may answer each repeatedly
    ops,      \* keys of asyncOps, gridAsyncOps and sleepOps
    op,       \* op[c]: the last operation coroutine c requested
    co,       \* state of each coroutine
    pc,       \* program counters of the session's goroutines
    cur,      \* cur[g]: the coroutine g is running
    origin,   \* origin[g]: what made g resume it
    caller,   \* caller[g]: the k.exec operation to resume when cur[g] stops
    posting,  \* posting[g]: the message g is posting to the session's inbox
    sends,    \* sends[g]: blocking outbox sends g still has to make
    workers,  \* operations with a live worker or sleeper goroutine
    wg,       \* counter of the session's WaitGroup
    stage     \* Close: "open", "closing" (done closed), "closed"

vars == <<inbox, outbox, recv, shown, ops, op, co, pc, cur, origin, caller,
          posting, sends, workers, wg, stage>>

\* The goroutine running main(), the one draining the inbox, and, with a
\* transport, the one that waits for ctx.Done() and is the only one counted
\* in the WaitGroup.
Goroutine == {"main", "loop"}
Thread == Goroutine \cup {"watch"}
OpId == [co : Coro, n : 1..MaxOps, kind : Kinds]
NoOp(c) == [co |-> c, n |-> 0, kind |-> "none"]

Event(c) == [typ |-> "event", co |-> c]
Msg(t, id) == [typ |-> t, id |-> id]
Note == [typ |-> "note"]

\* The goroutines that are started: main() runs first; NewWithTransport starts
\* one more, which Close waits for.
Started ==
    [t \in Thread |-> CASE t = "main" -> "run"
                       [] t = "watch" /\ ~Transport -> "end"
                       [] OTHER -> "idle"]

Init ==
    /\ inbox = <<>> /\ outbox = <<>> /\ recv = {} /\ shown = {}
    /\ ops = {} /\ op = [c \in Coro |-> NoOp(c)]
    /\ co = [c \in Coro |-> IF c = Main THEN "running" ELSE "none"]
    /\ pc = Started
    /\ cur = [g \in Goroutine |-> Main]
    /\ origin = [g \in Goroutine |-> "main"]
    /\ caller = [g \in Goroutine |-> <<>>]
    /\ posting = [g \in Goroutine |-> <<>>]
    /\ sends = [g \in Goroutine |-> 0]
    /\ workers = {} /\ wg = 1 /\ stage = "open"

-----------------------------------------------------------------------------
(* A running coroutine.                                                    *)

\* SendOutbox never blocks: a message for a full outbox is dropped.
SendOutbox(m) ==
    outbox' = IF Len(outbox) < OutboxCap THEN Append(outbox, m) ELSE outbox

\* The next operation of the coroutine g runs.
Fresh(g, k) == [co |-> cur[g], n |-> op[cur[g]].n + 1, kind |-> k]

Register(g, k) ==
    /\ pc[g] = "run" /\ k \in Kinds /\ op[cur[g]].n < MaxOps
    /\ op' = [op EXCEPT ![cur[g]] = Fresh(g, k)]
    /\ ops' = ops \cup {Fresh(g, k)}

\* Mutant: the goroutine is started without wg.Add(1).
RequestAsyncUncounted(g, k) ==
    /\ k \in {"async", "sleep"}
    /\ Register(g, k)
    /\ workers' = workers \cup {Fresh(g, k)}
    /\ pc' = [pc EXCEPT ![g] = "yield"]
    /\ UNCHANGED <<inbox, outbox, recv, shown, co, cur, origin, caller,
                   posting, sends, wg, stage>>

\* RunAsync and ScheduleSleep: store the coroutine, wg.Add(1), start the
\* goroutine; the binding yields afterwards.
RequestAsync(g, k) ==
    /\ k \in {"async", "sleep"}
    /\ Register(g, k)
    /\ workers' = workers \cup {Fresh(g, k)}
    /\ wg' = wg + 1
    /\ pc' = [pc EXCEPT ![g] = "yield"]
    /\ UNCHANGED <<inbox, outbox, recv, shown, co, cur, origin, caller,
                   posting, sends, stage>>

\* ShowPopup, RequestClipboardGet, RequestTabulatorGetData, ...: store the
\* coroutine under the id of the question and send the question to the page.
AskPage(g) ==
    /\ Register(g, "browser")
    /\ SendOutbox(Msg("ask", Fresh(g, "browser")))

\* ShowMsgbox and its kin: the binding yields once the question is sent.
RequestBrowser(g) ==
    /\ AskPage(g)
    /\ pc' = [pc EXCEPT ![g] = "yield"]
    /\ UNCHANGED <<inbox, recv, shown, co, cur, origin, caller, posting, sends,
                   workers, wg, stage>>

\* RequestExec and RequestGrid*: store the coroutine and post the request to
\* the session's own inbox, on the goroutine that is running Lua.
RequestSelf(g, k) ==
    /\ k \in {"exec", "grid", "gridSel"}
    /\ Register(g, k)
    /\ posting' = [posting EXCEPT ![g] = <<Msg(k, Fresh(g, k))>>]
    /\ pc' = [pc EXCEPT ![g] = "post"]
    /\ UNCHANGED <<inbox, outbox, recv, shown, co, cur, origin, caller, sends,
                   workers, wg, stage>>

\* select { case s.inbox <- m: case <-s.done: }, on a goroutine of the session.
PostSelf(g) ==
    /\ pc[g] = "post"
    /\ \/ /\ Len(inbox) < InboxCap
          /\ inbox' = Append(inbox, Head(posting[g]))
       \/ /\ stage # "open"
          /\ UNCHANGED inbox
    /\ posting' = [posting EXCEPT ![g] = <<>>]
    /\ pc' = [pc EXCEPT ![g] =
                 IF Head(posting[g]).typ = "gridResp" THEN "idle" ELSE "yield"]
    /\ UNCHANGED <<outbox, recv, shown, ops, op, co, cur, origin, caller, sends,
                   workers, wg, stage>>

\* Mutant: the operation stays registered after its coroutine is resumed.
ResumeKeepsOp(g, id, from, cs) ==
    /\ co' = [cs EXCEPT ![id.co] = "running"]
    /\ cur' = [cur EXCEPT ![g] = id.co]
    /\ origin' = [origin EXCEPT ![g] = from]
    /\ pc' = [pc EXCEPT ![g] = "run"]
    /\ caller' = [caller EXCEPT ![g] = <<>>]
    /\ UNCHANGED <<ops, sends>>

\* L.Resume(op.co) for a registered operation, given the coroutine states cs.
\* Resuming a coroutine that has not yielded yet is an error of the Lua VM.
Resume(g, id, from, cs) ==
    /\ ops' = ops \ {id}
    /\ caller' = [caller EXCEPT ![g] = <<>>]
    /\ IF cs[id.co] = "waiting"
         THEN /\ co' = [cs EXCEPT ![id.co] = "running"]
              /\ cur' = [cur EXCEPT ![g] = id.co]
              /\ origin' = [origin EXCEPT ![g] = from]
              /\ pc' = [pc EXCEPT ![g] = "run"]
              /\ UNCHANGED sends
         ELSE /\ co' = cs
              /\ pc' = [pc EXCEPT ![g] = IF from = "async" THEN "send" ELSE "idle"]
              /\ sends' = [sends EXCEPT ![g] = IF from = "async" THEN 1 ELSE 0]
              /\ UNCHANGED <<cur, origin>>

\* Where a goroutine goes when the coroutine it ran has stopped: handleExec
\* resumes the caller of k.exec, main()'s goroutine ends, the loop goes on.
\* n is the number of blocking sends to make first.
Stop(g, cs, n) ==
    IF caller[g] # <<>>
      THEN Resume(g, Head(caller[g]), "resp", cs)
      ELSE /\ co' = cs
           /\ sends' = [sends EXCEPT ![g] = n]
           /\ pc' = [pc EXCEPT ![g] = CASE n > 0 -> "send"
                                        [] n = 0 /\ g = "main" -> "end"
                                        [] OTHER -> "idle"]
           /\ UNCHANGED <<ops, cur, origin, caller>>

\* The binding returns L.Yield: Resume returns ResumeYield to the Go caller.
Yield(g) ==
    /\ pc[g] = "yield"
    /\ Stop(g, [co EXCEPT ![cur[g]] = "waiting"], 0)
    /\ UNCHANGED <<inbox, outbox, recv, shown, op, posting, workers, wg, stage>>

\* The coroutine returns.  session.New's actor announces the end of main()
\* with a blocking send of "quit".
Finish(g) ==
    /\ pc[g] = "run"
    /\ Stop(g, [co EXCEPT ![cur[g]] = "ended"],
            IF g = "main" /\ ~Transport THEN 1 ELSE 0)
    /\ UNCHANGED <<inbox, outbox, recv, shown, op, posting, workers, wg, stage>>

\* The coroutine raises an error.  runFormHandler and handleAsyncDone report
\* it with a blocking send, the other resumers only through the error hook.
ErrorSends(g) ==
    CASE origin[g] \in {"event", "async"} -> 1
      [] origin[g] = "main" /\ ~Transport -> 2
      [] OTHER -> 0

Raise(g) ==
    /\ pc[g] = "run"
    /\ Stop(g, [co EXCEPT ![cur[g]] = "failed"],
            IF caller[g] = <<>> THEN ErrorSends(g) ELSE 0)
    /\ IF origin[g] = "main" /\ Transport THEN SendOutbox(Note) ELSE UNCHANGED outbox
    /\ UNCHANGED <<inbox, recv, shown, op, posting, workers, wg, stage>>

\* s.outbox <- msg: blocks while the outbox is full, whatever Close does.
BlockingSend(g) ==
    /\ pc[g] = "send" /\ Len(outbox) < OutboxCap
    /\ outbox' = Append(outbox, Note)
    /\ sends' = [sends EXCEPT ![g] = @ - 1]
    /\ pc' = [pc EXCEPT ![g] = CASE sends[g] > 1 -> "send"
                                 [] sends[g] = 1 /\ g = "main" ->
                                      IF co[Main] = "failed" THEN "dead" ELSE "end"
                                 [] OTHER -> "idle"]
    /\ UNCHANGED <<inbox, recv, shown, ops, op, co, cur, origin, caller, posting,
                   workers, wg, stage>>

-----------------------------------------------------------------------------
(* The inbox loop.                                                         *)

\* session.New: the loop is what the actor does once App.Run has returned.
LoopIdle ==
    /\ pc["loop"] = "idle"
    /\ Transport \/ pc["main"] = "end"

Receive(t) ==
    /\ LoopIdle /\ inbox # <<>> /\ Head(inbox).typ = t
    /\ inbox' = Tail(inbox)

\* Run coroutine c from its start on the inbox goroutine.
Start(c, from) ==
    /\ co' = [co EXCEPT ![c] = "running"]
    /\ cur' = [cur EXCEPT !["loop"] = c]
    /\ origin' = [origin EXCEPT !["loop"] = from]
    /\ pc' = [pc EXCEPT !["loop"] = "run"]

\* handleWSEvent, handleFormEvent: run the handler in a fresh coroutine.
HandleEvent ==
    /\ Receive("event")
    /\ Start(Head(inbox).co, "event")
    /\ UNCHANGED <<outbox, recv, shown, ops, op, caller, posting, sends, workers,
                   wg, stage>>

\* handleAsyncDone, resumeSleep, resumeAsyncResp and the other resume*Resp:
\* look the operation up, delete it and resume its coroutine; an unknown id
\* is only logged.
ResumeOp(id, from) ==
    IF id \in ops
      THEN Resume("loop", id, from, co)
      ELSE UNCHANGED <<ops, co, cur, origin, caller, pc, sends>>

\* The answers of the page: msgbox, popup, clipboard, file picker, table data
\* and selection, chart image.  What they say is handed to the coroutine.
ResumeResp(id) == ResumeOp(id, "resp")

HandleDone ==
    /\ Receive("done")
    /\ LET id == Head(inbox).id IN
         ResumeOp(id, IF id.kind = "async" THEN "async" ELSE "resp")
    /\ UNCHANGED <<outbox, recv, shown, op, posting, workers, wg, stage>>

\* handleTransportInbox: an answer of the page, read from the transport.
HandleRecv(id) ==
    /\ Transport /\ LoopIdle /\ id \in recv
    /\ recv' = recv \ {id}
    /\ ResumeResp(id)
    /\ UNCHANGED <<inbox, outbox, shown, op, posting, workers, wg, stage>>

\* handleExec: run the function in a fresh coroutine and, as soon as it
\* returns, fails or yields, resume the caller.
HandleExec(f) ==
    /\ Receive("exec") /\ co[f] = "none"
    /\ Start(f, "exec")
    /\ caller' = [caller EXCEPT !["loop"] = <<Head(inbox).id>>]
    /\ UNCHANGED <<outbox, recv, shown, ops, op, posting, sends, workers, wg,
                   stage>>

\* Mutant: handleExec returns without resuming the caller.
HandleExecForgets ==
    /\ Receive("exec")
    /\ UNCHANGED <<outbox, recv, shown, ops, op, co, pc, cur, origin, caller,
                   posting, sends, workers, wg, stage>>

\* handleExec with a function that suspends nowhere.
HandleExecInline ==
    /\ Receive("exec")
    /\ ResumeOp(Head(inbox).id, "resp")
    /\ UNCHANGED <<outbox, recv, shown, op, posting, workers, wg, stage>>

\* PostGrid*Resp: the operation is deleted and the response posted to the own
\* inbox; without the operation nothing is posted.
PostGridResp(id) ==
    /\ ops' = ops \ {id}
    /\ IF id \in ops
         THEN /\ posting' = [posting EXCEPT !["loop"] = <<Msg("gridResp", id)>>]
              /\ pc' = [pc EXCEPT !["loop"] = "post"]
         ELSE UNCHANGED <<posting, pc>>

\* handleGridGetRow, handleGridDeleteRow, ... end in PostGrid*Resp.
HandleGrid ==
    /\ Receive("grid")
    /\ PostGridResp(Head(inbox).id)
    /\ UNCHANGED <<outbox, recv, shown, op, co, cur, origin, caller, sends,
                   workers, wg, stage>>

\* handleGridGetSelected: asks the page for its selection, without the id.
HandleGridSel ==
    /\ Receive("gridSel")
    /\ SendOutbox(Note)
    /\ UNCHANGED <<recv, shown, ops, op, co, pc, cur, origin, caller, posting,
                   sends, workers, wg, stage>>

\* handleGrid*Resp calls PostGrid*Resp again, which finds no operation under
\* the id and returns.
HandleGridResp ==
    /\ Receive("gridResp")
    /\ PostGridResp(Head(inbox).id)
    /\ UNCHANGED <<outbox, recv, shown, op, co, cur, origin, caller, sends,
                   workers, wg, stage>>

\* The loop's select takes ctx.Done().
LoopExit ==
    /\ LoopIdle /\ stage # "open"
    /\ pc' = [pc EXCEPT !["loop"] = "end"]
    /\ wg' = IF Transport THEN wg ELSE wg - 1
    /\ UNCHANGED <<inbox, outbox, recv, shown, ops, op, co, cur, origin, caller,
                   posting, sends, workers, stage>>

\* session.New: run returns right after main() failed, without a loop.
MainFailed ==
    /\ pc["main"] = "dead" /\ pc["loop"] = "idle"
    /\ pc' = [pc EXCEPT !["loop"] = "end"]
    /\ wg' = wg - 1
    /\ UNCHANGED <<inbox, outbox, recv, shown, ops, op, co, cur, origin, caller,
                   posting, sends, workers, stage>>

-----------------------------------------------------------------------------
(* The other goroutines.                                                   *)

\* PostEvent, PostTimer, PostFormEvent, from goroutines outside the session.
PostEvent(c) ==
    /\ co[c] = "none" /\ stage # "closed" /\ Len(inbox) < InboxCap
    /\ inbox' = Append(inbox, Event(c))
    /\ co' = [co EXCEPT ![c] = "queued"]
    /\ UNCHANGED <<outbox, recv, shown, ops, op, pc, cur, origin, caller,
                   posting, sends, workers, wg, stage>>

\* Mutant: the completion is dropped when the actor is behind.
WorkerDoneDrops(id) ==
    /\ id \in workers
    /\ inbox' = IF inbox = <<>> THEN <<Msg("done", id)>> ELSE inbox
    /\ workers' = workers \ {id}
    /\ wg' = wg - 1
    /\ UNCHANGED <<outbox, recv, shown, ops, op, co, pc, cur, origin, caller,
                   posting, sends, stage>>

\* Mutant: the completion is posted without watching done.
WorkerDoneDeaf(id) ==
    /\ id \in workers /\ Len(inbox) < InboxCap
    /\ inbox' = Append(inbox, Msg("done", id))
    /\ workers' = workers \ {id}
    /\ wg' = wg - 1
    /\ UNCHANGED <<outbox, recv, shown, ops, op, co, pc, cur, origin, caller,
                   posting, sends, stage>>

\* The end of a RunAsync worker or a ScheduleSleep goroutine: post the
\* completion, or drop it once done is closed.
WorkerDone(id) ==
    /\ id \in workers
    /\ \/ /\ Len(inbox) < InboxCap
          /\ inbox' = Append(inbox, Msg("done", id))
       \/ /\ stage # "open"
          /\ UNCHANGED inbox
    /\ workers' = workers \ {id}
    /\ wg' = wg - 1
    /\ UNCHANGED <<outbox, recv, shown, ops, op, co, pc, cur, origin, caller,
                   posting, sends, stage>>

\* The reader of the outbox: runWithTransport's pump, which stops once done
\* is closed; for session.New the caller's own loop.
Pump ==
    /\ outbox # <<>> /\ stage = "open"
    /\ outbox' = Tail(outbox)
    /\ shown' = IF Head(outbox).typ = "ask" THEN shown \cup {Head(outbox).id}
                                            ELSE shown
    /\ UNCHANGED <<inbox, recv, ops, op, co, pc, cur, origin, caller, posting,
                   sends, workers, wg, stage>>

\* HandleMsgboxChoice, PostClipboardResp, PostFilePickerResp, ...: the answer
\* waits for room in the inbox (or is dropped once the session is done).
PostResp(id) ==
    /\ Len(inbox) < InboxCap
    /\ inbox' = Append(inbox, Msg("done", id))

\* The page answers a request it shows, possibly more than once.
Answer(id) ==
    /\ id \in shown /\ stage # "closed"
    /\ IF Transport THEN recv' = recv \cup {id} /\ UNCHANGED inbox
                    ELSE PostResp(id) /\ UNCHANGED recv
    /\ UNCHANGED <<outbox, shown, ops, op, co, pc, cur, origin, caller, posting,
                   sends, workers, wg, stage>>

\* Close: cancel() and close(done) ...
CloseBegin ==
    /\ stage = "open"
    /\ stage' = "closing"
    /\ UNCHANGED <<inbox, outbox, recv, shown, ops, op, co, pc, cur, origin,
                   caller, posting, sends, workers, wg>>

\* ... runWithTransport's own goroutine returns on ctx.Done() ...
WatchExit ==
    /\ pc["watch"] = "idle" /\ stage # "open"
    /\ pc' = [pc EXCEPT !["watch"] = "end"]
    /\ wg' = wg - 1
    /\ UNCHANGED <<inbox, outbox, recv, shown, ops, op, co, cur, origin,
                   caller, posting, sends, workers, stage>>

\* ... and after wg.Wait(): close(inbox), L.Close().
CloseEnd ==
    /\ stage = "closing" /\ wg = 0
    /\ stage' = "closed"
    /\ UNCHANGED <<inbox, outbox, recv, shown, ops, op, co, pc, cur, origin,
                   caller, posting, sends, workers, wg>>

RunStep(g) ==
    \/ \E k \in Kinds : RequestAsync(g, k) \/ RequestSelf(g, k)
    \/ RequestBrowser(g) \/ PostSelf(g) \/ Yield(g)
    \/ Finish(g) \/ Raise(g) \/ BlockingSend(g)

LoopStep ==
    \/ HandleEvent \/ HandleDone \/ HandleExecInline
    \/ HandleGrid \/ HandleGridSel \/ HandleGridResp
    \/ \E f \in Coro : HandleExec(f)
    \/ \E id \in OpId : HandleRecv(id)
    \/ LoopExit \/ MainFailed

Next ==
    \/ \E g \in Goroutine : RunStep(g)
    \/ LoopStep
    \/ \E c \in Coro : PostEvent(c)
    \/ \E id \in OpId : WorkerDone(id) \/ Answer(id)
    \/ Pump
    \/ CloseBegin \/ WatchExit \/ CloseEnd

Spec == Init /\ [][Next]_vars

\* Goroutines keep running and channel operations that stay possible happen;
\* Go queues the senders of a channel, so a worker that finds room again and
\* again gets its turn.  The page need not answer, nobody need call Close, and
\* the pump of a transport stops for good at its first failed Send.
Fairness ==
    /\ \A g \in Goroutine : WF_vars(RunStep(g))
    /\ WF_vars(LoopStep) /\ WF_vars(Pump /\ ~Transport)
    /\ \A c \in Coro, n \in 1..MaxOps, k \in Kinds \cap {"async", "sleep"} :
           SF_vars(WorkerDone([co |-> c, n |-> n, kind |-> k]))
    /\ WF_vars(WatchExit) /\ WF_vars(CloseEnd)

FairSpec == Spec /\ Fairness

-----------------------------------------------------------------------------
(* Properties.                                                             *)

MsgType == [typ : {"event"}, co : Coro]
           \cup [typ : {"done", "exec", "grid", "gridSel", "gridResp"}, id : OpId]

\* Types, and the capacities the channels are made with.
TypeOK ==
    /\ inbox \in Seq(MsgType) /\ Len(inbox) <= InboxCap
    /\ outbox \in Seq([typ : {"note"}] \cup [typ : {"ask"}, id : OpId])
    /\ Len(outbox) <= OutboxCap
    /\ recv \subseteq OpId /\ shown \subseteq OpId
    /\ ops \subseteq OpId /\ workers \subseteq OpId
    /\ op \in [Coro -> OpId \cup {NoOp(c) : c \in Coro}]
    /\ co \in [Coro -> {"none", "queued", "running", "waiting", "ended", "failed"}]
    /\ pc \in [Thread -> {"run", "post", "yield", "send", "idle", "end", "dead"}]
    /\ cur \in [Goroutine -> Coro]
    /\ origin \in [Goroutine -> {"main", "event", "async", "resp", "exec"}]
    /\ caller \in [Goroutine -> {<<>>} \cup {<<id>> : id \in OpId}]
    /\ posting \in [Goroutine -> {<<>>} \cup {<<m>> : m \in MsgType}]
    /\ sends \in [Goroutine -> 0..2]
    /\ wg \in Nat
    /\ stage \in {"open", "closing", "closed"}

\* A registered operation belongs to a coroutine that is suspended on exactly
\* that operation, or is just about to yield on it: however often the page
\* answers and in whatever order completions arrive, no message can resume a
\* coroutine at a later suspension point than the one it was sent for.
OpsMatch ==
    \A id \in ops :
        /\ op[id.co] = id
        /\ \/ co[id.co] = "waiting"
           \/ /\ co[id.co] = "running"
              /\ \E g \in Goroutine : cur[g] = id.co /\ pc[g] \in {"post", "yield"}

\* Something is still going to wake the coroutine suspended on id: a live
\* worker, a message on its way to or in the inbox, an unanswered request.
Wakeup(id) ==
    \/ id \in workers
    \/ \E i \in DOMAIN inbox : inbox[i].typ # "event" /\ inbox[i].id = id
    \/ \E i \in DOMAIN outbox : outbox[i] = Msg("ask", id)
    \/ id \in recv \cup shown
    \/ \E g \in Goroutine : caller[g] = <<id>>

\* No lost wakeup: until the session closes, a suspended coroutine's operation
\* is registered and somebody still holds its id.
NoLostWakeup ==
    stage = "open" =>
        \A c \in Coro : co[c] = "waiting" => op[c] \in ops /\ Wakeup(op[c])

\* A goroutine inside the session's Lua state.
InLua(g) == pc[g] \in {"run", "post", "yield"}

\* Close closes the inbox and the LState when nobody can touch them any more:
\* no goroutine is inside Lua, and no worker is left that would post.
NoUseAfterClose ==
    stage = "closed" => workers = {} /\ \A g \in Goroutine : ~InLua(g)

\* Every suspended coroutine is eventually resumed, unless the session closes.
EventuallyResumed ==
    \A c \in Coro : co[c] = "waiting" ~> (co[c] # "waiting" \/ stage # "open")

\* Close returns.
CloseReturns == stage = "closing" ~> stage = "closed"
=============================================================================
