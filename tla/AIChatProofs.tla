---------------------------- MODULE AIChatProofs ----------------------------
(***************************************************************************)
(* Proofs about AIChat, for every set of controls, every number of turns,  *)
(* completions and tool calls, and every capacity of the inbox.            *)
(***************************************************************************)
EXTENDS AIChat, TLAPS

-----------------------------------------------------------------------------
(* Types.  A turn that was started has a control, the messages of a turn   *)
(* name it, and a worker between two completions has calls and completions *)
(* left.                                                                   *)

Queued == {inbox[i] : i \in DOMAIN inbox}

TurnInv ==
    /\ \A t \in Turn : pc[t] # "unused" => ctl[t] \in Ctrl
    /\ \A t \in Turn : pc[t] \in {"tool", "wait", "onTool"} =>
           calls[t] > 0 /\ rounds[t] < MaxTurns
    /\ \A m \in Queued : m.turn # None => pc[m.turn] # "unused" /\ ctl[m.turn] = m.ctrl

TypeInv == TypeOK /\ TurnInv

(* TypeOK in four parts: the inbox, the control table, the workers, the rest. *)
InboxOK == inbox \in Seq(MsgType) /\ Len(inbox) <= InboxCap

TableOK ==
    /\ busy \in [Ctrl -> BOOLEAN]
    /\ transcript \in [Ctrl -> Seq({"user", "assistant"} \X Turn)]
    /\ entry \in [Ctrl -> Turn \cup {None}]
    /\ cancelled \subseteq Turn

WorkerOK ==
    /\ pc \in [Turn -> {"unused", "exited"} \cup Running \cup Ending]
    /\ ctl \in [Turn -> Ctrl \cup {None}]
    /\ rounds \in [Turn -> 0..MaxTurns]
    /\ calls \in [Turn -> 0..MaxCalls]
    /\ text \in [Turn -> BOOLEAN] /\ err \in [Turn -> BOOLEAN]

ReplyOK ==
    /\ reply \in [Turn -> BOOLEAN]
    /\ parked \in [Turn -> Suspends \cup {None}]
    /\ seen \in [Turn -> SUBSET EventTypes]
    /\ actor \in BOOLEAN
    /\ stage \in {"open", "cancelling", "closing", "closed"}

LEMMA TypeParts == TypeOK <=> InboxOK /\ TableOK /\ WorkerOK /\ ReplyOK
  BY DEF TypeOK, InboxOK, TableOK, WorkerOK, ReplyOK

LEMMA PrimedParts == TypeOK' <=> InboxOK' /\ TableOK' /\ WorkerOK' /\ ReplyOK'
  BY TypeParts, PTL

LEMMA MsgTypes ==
    ASSUME NEW m \in MsgType
    PROVE  /\ m.ctrl \in Ctrl /\ m = [typ |-> m.typ, ctrl |-> m.ctrl, turn |-> m.turn]
           /\ m.turn # None => m.turn \in Turn
           /\ m.turn = None <=> m.typ \in {"send", "stop", "closeForm"}
<1> USE ChatAssumption DEF MsgType, EventTypes
<1>1. CASE m \in [typ : {"send", "stop", "closeForm"}, ctrl : Ctrl, turn : {None}]
  BY <1>1
<1>2. CASE m \in [typ : {"tool", "query"} \cup EventTypes, ctrl : Ctrl, turn : Turn]
  BY <1>2
<1> QED BY <1>1, <1>2

LEMMA RequestType ==
    ASSUME WorkerOK, TurnInv, NEW t \in Turn, pc[t] # "unused",
           NEW k \in {"tool", "query"} \cup EventTypes
    PROVE  /\ Request(k, t) \in MsgType /\ Request(k, t).typ = k
           /\ Request(k, t).turn = t /\ Request(k, t).ctrl = ctl[t]
  BY DEF Request, MsgType, TurnInv

(* Receiving takes the head of the inbox, posting adds at its end. *)
LEMMA QueueTail ==
    ASSUME InboxOK, NEW k, Receive(k)
    PROVE  /\ InboxOK' /\ Head(inbox) \in Queued /\ Head(inbox) \in MsgType /\ Head(inbox).typ = k
           /\ Queued' \subseteq Queued
           /\ \A m \in Queued : m \in Queued' \/ m = Head(inbox)
<1>1. /\ inbox # <<>> /\ inbox' = Tail(inbox) /\ Head(inbox).typ = k
  BY DEF Receive
<1>2. /\ Head(inbox) = inbox[1] /\ 1 \in DOMAIN inbox /\ Head(inbox) \in MsgType /\ InboxOK'
      /\ \A i \in DOMAIN inbox' : i + 1 \in DOMAIN inbox /\ inbox'[i] = inbox[i + 1]
      /\ \A i \in DOMAIN inbox : i # 1 => i - 1 \in DOMAIN inbox' /\ (i - 1) + 1 = i
  BY <1>1, ChatAssumption DEF InboxOK
<1>3. Head(inbox) \in Queued /\ Queued' \subseteq Queued
  BY <1>2 DEF Queued
<1>4. ASSUME NEW m \in Queued, m # Head(inbox) PROVE m \in Queued'
  <2>1. PICK i \in DOMAIN inbox : inbox[i] = m
    BY DEF Queued
  <2>2. i - 1 \in DOMAIN inbox' /\ inbox'[i - 1] = m
    BY <1>2, <1>4, <2>1
  <2> QED BY <2>2 DEF Queued
<1> QED BY <1>1, <1>2, <1>3, <1>4

LEMMA QueueAppend ==
    ASSUME InboxOK, NEW m \in MsgType, Post(m)
    PROVE  InboxOK' /\ Queued' = Queued \cup {m}
<1>1. Len(inbox) < InboxCap /\ inbox' = Append(inbox, m)
  BY DEF Post
<1>2. /\ InboxOK' /\ DOMAIN inbox' = DOMAIN inbox \cup {Len(inbox) + 1}
      /\ inbox'[Len(inbox) + 1] = m /\ \A i \in DOMAIN inbox : inbox'[i] = inbox[i]
  BY <1>1, ChatAssumption DEF InboxOK
<1> QED BY <1>2 DEF Queued

LEMMA QueuedType == ASSUME InboxOK PROVE Queued \subseteq MsgType
  BY DEF Queued, InboxOK

LEMMA TypeInit == Init => TypeInv
<1> SUFFICES ASSUME Init PROVE TypeInv
  OBVIOUS
<1> USE ChatAssumption DEF Init
<1>1. InboxOK /\ Queued = {}
  BY DEF InboxOK, Queued
<1>2. TableOK
  BY DEF TableOK
<1>3. WorkerOK
  BY DEF WorkerOK
<1>4. ReplyOK
  BY DEF ReplyOK
<1>5. TurnInv
  BY <1>1 DEF TurnInv
<1> QED BY <1>1, <1>2, <1>3, <1>4, <1>5, TypeParts DEF TypeInv

LEMMA TypeStep == TypeInv /\ [Next]_vars => TypeInv'
<1> SUFFICES ASSUME TypeInv, [Next]_vars PROVE TypeInv'
  OBVIOUS
<1> DEFINE PartsOK == InboxOK' /\ TableOK' /\ WorkerOK' /\ ReplyOK' /\ TurnInv'
<1>0. ASSUME PartsOK PROVE TypeInv'
  BY <1>0, PrimedParts DEF TypeInv
<1> USE TypeParts, ChatAssumption DEF TypeInv
<1>1. ASSUME InboxOK', Queued' \subseteq Queued, UNCHANGED worker PROVE WorkerOK' /\ TurnInv'
  BY <1>1 DEF worker, WorkerOK, TurnInv
<1>q. ASSUME UNCHANGED inbox PROVE InboxOK' /\ Queued' = Queued
  BY <1>q DEF InboxOK, Queued
<1> DEFINE m == Head(inbox)
<1>2. ASSUME ActorStep PROVE PartsOK
  <2>1. CASE SendIgnored
    BY <1>1, <2>1, QueueTail DEF SendIgnored, TableOK, ReplyOK
  <2>2. ASSUME NEW t \in Turn, SendAccepted(t) PROVE PartsOK
    <3>1. Receive("send") /\ pc[t] = "unused" /\ m.ctrl \in Ctrl /\ InboxOK' /\ Queued' \subseteq Queued
      BY <2>2, QueueTail, MsgTypes DEF SendAccepted
    <3>2. TableOK'
      <4>1. Append(transcript[m.ctrl], <<"user", t>>) \in Seq({"user", "assistant"} \X Turn)
        BY <3>1 DEF TableOK
      <4>2. transcript' \in [Ctrl -> Seq({"user", "assistant"} \X Turn)]
        BY <2>2, <3>1, <4>1 DEF SendAccepted, TableOK
      <4>3. busy' \in [Ctrl -> BOOLEAN] /\ entry' \in [Ctrl -> Turn \cup {None}] /\ cancelled' \subseteq Turn
        BY <2>2, <3>1 DEF SendAccepted, TableOK
      <4> QED BY <4>2, <4>3 DEF TableOK
    <3>3. WorkerOK'
      BY <2>2, <3>1 DEF SendAccepted, WorkerOK, Running
    <3>4. TurnInv'
      <4>1. /\ pc'[t] = "complete" /\ ctl'[t] \in Ctrl
            /\ \A u \in Turn : u # t => pc'[u] = pc[u] /\ ctl'[u] = ctl[u]
            /\ UNCHANGED <<calls, rounds>>
        BY <2>2, <3>1 DEF SendAccepted, WorkerOK
      <4>2. \A x \in Queued' : x.turn # None => x.turn \in Turn /\ x.turn # t
        BY <3>1, MsgTypes, QueuedType DEF TurnInv
      <4> QED BY <3>1, <4>1, <4>2 DEF TurnInv
    <3> QED BY <2>2, <3>1, <3>2, <3>3, <3>4 DEF SendAccepted, ReplyOK
  <2>3. CASE HandleStop
    <3>1. m.ctrl \in Ctrl /\ InboxOK' /\ Queued' \subseteq Queued
      BY <2>3, QueueTail, MsgTypes DEF HandleStop
    <3>2. TableOK'
      BY <2>3, <3>1 DEF HandleStop, TableOK
    <3> QED BY <1>1, <2>3, <3>1, <3>2 DEF HandleStop, ReplyOK
  <2>4. CASE HandleCloseForm
    <3>1. InboxOK' /\ Queued' \subseteq Queued
      BY <2>4, QueueTail DEF HandleCloseForm
    <3>2. TableOK'
      BY <2>4 DEF HandleCloseForm, CancelEntries, TableOK
    <3> QED BY <1>1, <2>4, <3>1, <3>2 DEF HandleCloseForm, ReplyOK
  <2>5. CASE HandleToolCall
    <3>1. InboxOK' /\ Queued' \subseteq Queued
      BY <2>5, QueueTail DEF HandleToolCall
    <3> QED BY <1>1, <2>5, <3>1 DEF HandleToolCall, ReplyOK, TableOK
  <2>6. ASSUME NEW k \in Suspends, HandleToolYield(k) PROVE PartsOK
    <3>1. InboxOK' /\ Queued' \subseteq Queued
      BY <2>6, QueueTail DEF HandleToolYield
    <3> QED BY <1>1, <2>6, <3>1 DEF HandleToolYield, ReplyOK, TableOK
  <2>7. CASE HandleQuery
    <3>1. /\ m \in Queued /\ m \in MsgType /\ m.typ = "query" /\ InboxOK' /\ Queued' \subseteq Queued
      BY <2>7, QueueTail DEF HandleQuery
    <3>2. m.turn \in Turn /\ ctl[m.turn] \in Ctrl
      BY <3>1, MsgTypes DEF TurnInv
    <3>3. TableOK'
      <4>1. busy' \in [Ctrl -> BOOLEAN] /\ UNCHANGED <<entry, cancelled>>
        BY <2>7, <3>2 DEF HandleQuery, TableOK
      <4>2. transcript' \in [Ctrl -> Seq({"user", "assistant"} \X Turn)]
        <5>1. Append(transcript[ctl[m.turn]], <<"assistant", m.turn>>) \in Seq({"user", "assistant"} \X Turn)
          BY <3>2 DEF TableOK
        <5> QED BY <2>7, <3>2, <5>1 DEF HandleQuery, TableOK
      <4> QED BY <4>1, <4>2 DEF TableOK
    <3> QED BY <1>1, <2>7, <3>1, <3>3 DEF HandleQuery, ReplyOK
  <2>8. ASSUME NEW k \in EventTypes, HandleChatEvent(k) PROVE PartsOK
    <3>1. InboxOK' /\ Queued' \subseteq Queued
      BY <2>8, QueueTail DEF HandleChatEvent
    <3> QED BY <1>1, <2>8, <3>1 DEF HandleChatEvent, ReplyOK, TableOK
  <2>9. CASE ActorExit
    BY <1>1, <1>q, <2>9 DEF ActorExit, ReplyOK, TableOK
  <2> QED BY <1>2, <2>1, <2>2, <2>3, <2>4, <2>5, <2>6, <2>7, <2>8, <2>9 DEF ActorStep
<1>3. ASSUME NEW t \in Turn, WorkerStep(t) PROVE PartsOK
  <2>0. pc[t] # "unused" /\ UNCHANGED <<busy, transcript, cancelled, ctl, parked, seen, actor, stage>>
    BY <1>3 DEF WorkerStep, Complete, Fail, Answer, Garble, CallTools, AgentReturns, AskTool,
                ToolReplied, PostOnTool, AskQuery, QueryAnswered, Unmap, PostOutcome, PostDone
  <2>1. InboxOK' /\ \A x \in Queued' : \/ x \in Queued
                                       \/ x.turn = t /\ x.ctrl = ctl[t]
    <3>1. ASSUME NEW k \in {"tool", "query"} \cup EventTypes, Post(Request(k, t))
          PROVE  InboxOK' /\ \A x \in Queued' : \/ x \in Queued
                                                \/ x.turn = t /\ x.ctrl = ctl[t]
      <4>1. /\ Request(k, t) \in MsgType
            /\ Request(k, t).turn = t /\ Request(k, t).ctrl = ctl[t]
        BY <2>0, RequestType
      <4>2. InboxOK' /\ Queued' = Queued \cup {Request(k, t)}
        BY <3>1, <4>1, QueueAppend
      <4> QED BY <4>1, <4>2
    <3>2. \/ UNCHANGED inbox
          \/ \E k \in {"tool", "query"} \cup EventTypes : Post(Request(k, t))
      BY <1>3 DEF WorkerStep, Complete, AskTool, ToolReplied, PostOnTool, AskQuery,
                  QueryAnswered, Unmap, PostOutcome, PostDone, PostOrDone, EventTypes
    <3> QED BY <1>q, <3>1, <3>2
  <2>2. TableOK'
    <3>1. CASE UNCHANGED entry
      BY <2>0, <3>1 DEF TableOK
    <3>2. CASE Unmap(t)
      BY <2>0, <3>2 DEF TableOK, Unmap
    <3> QED BY <1>3, <3>1, <3>2 DEF WorkerStep, Complete, AskTool, ToolReplied, PostOnTool,
                  AskQuery, QueryAnswered, PostOutcome, PostDone
  <2>3. ReplyOK'
    BY <1>3, <2>0 DEF ReplyOK, WorkerStep, Complete, AskTool, ToolReplied, PostOnTool,
                  AskQuery, QueryAnswered, Unmap, PostOutcome, PostDone
  <2>4. /\ /\ WorkerOK' /\ pc'[t] # "unused"
           /\ \A u \in Turn : u # t =>
                  pc'[u] = pc[u] /\ calls'[u] = calls[u] /\ rounds'[u] = rounds[u]
        /\ pc'[t] \in {"tool", "wait", "onTool"} => calls'[t] > 0 /\ rounds'[t] < MaxTurns
    <3> USE <2>0 DEF WorkerOK, Running, Ending
    <3>1. CASE Complete(t)
      <4>1. CASE Fail(t)
        BY <3>1, <4>1 DEF Complete, Fail, AgentReturns
      <4>2. ASSUME NEW said \in BOOLEAN, Answer(t, said) PROVE <2>4!1 /\ <2>4!2
        BY <3>1, <4>2 DEF Complete, Answer, AgentReturns
      <4>3. CASE rounds[t] < MaxTurns /\ Garble(t)
        BY <3>1, <4>3 DEF Complete, Garble
      <4>4. ASSUME rounds[t] < MaxTurns, NEW n \in 1..MaxCalls, CallTools(t, n) PROVE <2>4!1 /\ <2>4!2
        BY <3>1, <4>4 DEF Complete, CallTools
      <4> QED BY <3>1, <4>1, <4>2, <4>3, <4>4 DEF Complete
    <3>2. CASE AskTool(t)
      BY <3>2 DEF AskTool, TurnInv
    <3>3. CASE ToolReplied(t)
      BY <3>3 DEF ToolReplied, TurnInv
    <3>4. CASE PostOnTool(t)
      <4>1. calls[t] \in 1..MaxCalls /\ rounds[t] \in 0..(MaxTurns - 1)
        BY <3>4 DEF PostOnTool, TurnInv
      <4> QED BY <3>4, <4>1 DEF PostOnTool
    <3>5. CASE AskQuery(t)
      BY <3>5 DEF AskQuery
    <3>6. CASE QueryAnswered(t)
      BY <3>6 DEF QueryAnswered
    <3>7. CASE Unmap(t)
      BY <3>7 DEF Unmap
    <3>8. CASE PostOutcome(t)
      BY <3>8 DEF PostOutcome
    <3>9. CASE PostDone(t)
      BY <3>9 DEF PostDone
    <3> QED BY <1>3, <3>1, <3>2, <3>3, <3>4, <3>5, <3>6, <3>7, <3>8, <3>9 DEF WorkerStep
  <2>5. TurnInv'
    <3>1. \A x \in Queued : x.turn # None => x.turn \in Turn
      BY MsgTypes, QueuedType
    <3> QED BY <2>0, <2>1, <2>4, <3>1 DEF TurnInv
  <2> QED BY <2>1, <2>2, <2>3, <2>4, <2>5
<1>4. ASSUME NEW t \in Turn, ToolAsyncDone(t) \/ ToolResumed(t) \/ \E k \in Suspends : ToolYieldsAgain(t, k)
      PROVE  PartsOK
  <2>1. UNCHANGED <<inbox, worker, busy, transcript, entry, cancelled, seen, actor, stage>>
    BY <1>4 DEF ToolAsyncDone, ToolResumed, ToolYieldsAgain
  <2>2. reply' \in [Turn -> BOOLEAN] /\ parked' \in [Turn -> Suspends \cup {None}]
    BY <1>4 DEF ToolAsyncDone, ToolResumed, ToolYieldsAgain, ReplyOK
  <2> QED BY <1>1, <1>q, <2>1, <2>2 DEF TableOK, ReplyOK
<1>5. ASSUME NEW c \in Ctrl, NEW k \in {"send", "stop", "closeForm"}, PostCommand(k, c) PROVE PartsOK
  <2>1. Command(k, c) \in MsgType /\ Command(k, c).turn = None
    BY DEF Command, MsgType
  <2>2. InboxOK' /\ Queued' = Queued \cup {Command(k, c)}
    BY <1>5, <2>1, QueueAppend DEF PostCommand
  <2>3. WorkerOK' /\ TurnInv'
    BY <1>5, <2>1, <2>2 DEF PostCommand, worker, WorkerOK, TurnInv
  <2> QED BY <1>5, <2>2, <2>3 DEF PostCommand, TableOK, ReplyOK
<1>6. ASSUME CloseStep \/ UNCHANGED vars PROVE PartsOK
  <2>1. UNCHANGED <<inbox, worker, busy, transcript, reply, parked, seen, actor>>
    BY <1>6 DEF CloseStep, CloseCancel, CloseDone, CloseEnd, vars
  <2>2. TableOK'
    BY <1>6 DEF CloseStep, CloseCancel, CloseDone, CloseEnd, vars, CancelEntries, TableOK
  <2>3. ReplyOK'
    BY <1>6, <2>1 DEF CloseStep, CloseCancel, CloseDone, CloseEnd, vars, ReplyOK
  <2> QED BY <1>1, <1>q, <2>1, <2>2, <2>3
<1> HIDE DEF TypeInv
<1> QED BY <1>0, <1>2, <1>3, <1>4, <1>5, <1>6 DEF Next

(* Every variable keeps its type: the inbox stays within its capacity, a turn uses at
   most MaxTurns completions, and every message of a turn names the turn's control. *)
THEOREM TypeCorrect == Spec => []TypeOK
<1>1. TypeInv => TypeOK
  BY DEF TypeInv
<1> QED BY <1>1, TypeInit, TypeStep, PTL DEF Spec

-----------------------------------------------------------------------------
(* Events.  What is queued or seen of a turn bounds where its worker is,   *)
(* and the inbox keeps the order in which one worker posts.                *)

Outcomes == {"on_reply", "on_error"}

OrderInv ==
    \A i, j \in DOMAIN inbox : i < j /\ inbox[i].turn = inbox[j].turn =>
        /\ inbox[i].typ = "on_done" => inbox[j].typ \notin EventTypes
        /\ inbox[i].typ \in Outcomes => inbox[j].typ # "on_tool"

PostedInv ==
    \A m \in Queued : /\ m.typ = "on_done" => pc[m.turn] = "exited"
                      /\ m.typ \in Outcomes => pc[m.turn] \in {"done", "exited"}

SeenInv ==
    \A t \in Turn :
        /\ "on_done" \in seen[t] => pc[t] = "exited"
        /\ seen[t] \cap Outcomes # {} => pc[t] \in {"done", "exited"}
        /\ \A m \in Queued : m.turn = t =>
               /\ "on_done" \in seen[t] => m.typ \notin EventTypes
               /\ seen[t] \cap Outcomes # {} => m.typ # "on_tool"
        /\ stage = "open" /\ pc[t] = "exited" =>
               \/ "on_done" \in seen[t]
               \/ \E m \in Queued : m.turn = t /\ m.typ = "on_done"

EventInv == OrderInv /\ PostedInv /\ SeenInv


(* Receiving keeps the order, and what comes behind the received message obeys it. *)
LEMMA OrderTail ==
    ASSUME InboxOK, OrderInv, NEW k, Receive(k)
    PROVE  /\ OrderInv'
           /\ \A x \in Queued' : x.turn = Head(inbox).turn =>
                  /\ k = "on_done" => x.typ \notin EventTypes
                  /\ k \in Outcomes => x.typ # "on_tool"
<1>1. /\ inbox # <<>> /\ inbox' = Tail(inbox) /\ Head(inbox).typ = k
  BY DEF Receive
<1>2. /\ Head(inbox) = inbox[1] /\ 1 \in DOMAIN inbox
      /\ \A i \in DOMAIN inbox' : /\ i + 1 \in DOMAIN inbox /\ inbox'[i] = inbox[i + 1]
                                  /\ i \in Nat /\ 1 < i + 1
  BY <1>1 DEF InboxOK
<1>3. OrderInv'
  <2> SUFFICES ASSUME NEW i \in DOMAIN inbox', NEW j \in DOMAIN inbox', i < j,
                      inbox'[i].turn = inbox'[j].turn
               PROVE  /\ inbox'[i].typ = "on_done" => inbox'[j].typ \notin EventTypes
                      /\ inbox'[i].typ \in Outcomes => inbox'[j].typ # "on_tool"
    BY DEF OrderInv
  <2>1. i + 1 < j + 1
    BY <1>2
  <2> QED BY <1>2, <2>1 DEF OrderInv
<1>4. ASSUME NEW x \in Queued', x.turn = Head(inbox).turn
      PROVE  /\ k = "on_done" => x.typ \notin EventTypes
             /\ k \in Outcomes => x.typ # "on_tool"
  <2>1. PICK i \in DOMAIN inbox' : x = inbox'[i]
    BY DEF Queued
  <2> QED BY <1>1, <1>2, <1>4, <2>1 DEF OrderInv
<1> QED BY <1>3, <1>4

LEMMA OrderAppend ==
    ASSUME InboxOK, OrderInv, NEW m \in MsgType, Post(m),
           \A x \in Queued : x.turn = m.turn =>
               /\ x.typ = "on_done" => m.typ \notin EventTypes
               /\ x.typ \in Outcomes => m.typ # "on_tool"
    PROVE  OrderInv'
<1>1. /\ DOMAIN inbox' = DOMAIN inbox \cup {Len(inbox) + 1} /\ inbox'[Len(inbox) + 1] = m
      /\ \A i \in DOMAIN inbox : inbox'[i] = inbox[i] /\ i < Len(inbox) + 1
      /\ ~(Len(inbox) + 1 < Len(inbox) + 1)
      /\ \A i \in DOMAIN inbox : ~(Len(inbox) + 1 < i)
  BY DEF Post, InboxOK
<1>2. \A i \in DOMAIN inbox : inbox[i] \in Queued
  BY DEF Queued
<1> QED BY <1>1, <1>2 DEF OrderInv

(* The steps of a worker: where it goes and what it posts on the way. *)
Moves(t, from, to) == pc[t] = from /\ pc'[t] \in to

LEMMA WorkerMoves ==
    ASSUME WorkerOK, NEW t \in Turn, WorkerStep(t)
    PROVE  /\ \A u \in Turn : u # t => pc'[u] = pc[u]
           /\ UNCHANGED <<seen, stage, parked, ctl, busy, transcript>>
           /\ \/ /\ UNCHANGED inbox
                 /\ \/ Moves(t, "complete", {"complete", "query", "tool"}) /\ UNCHANGED reply
                    \/ Moves(t, "wait", {"onTool"}) /\ reply' = [reply EXCEPT ![t] = FALSE]
                       /\ (reply[t] \/ stage \in {"closing", "closed"})
                    \/ Moves(t, "asked", {"unmap"}) /\ reply' = [reply EXCEPT ![t] = FALSE]
                       /\ (reply[t] \/ stage \in {"closing", "closed"})
                    \/ Moves(t, "unmap", {"outcome"}) /\ UNCHANGED reply
                    \/ Moves(t, "outcome", {"done"}) /\ UNCHANGED reply
                    \/ stage \in {"closing", "closed"} /\ UNCHANGED reply
                       /\ (\/ Moves(t, "tool", {"onTool"}) \/ Moves(t, "query", {"unmap"})
                           \/ Moves(t, "onTool", {"complete", "tool"}) \/ Moves(t, "done", {"exited"}))
              \/ UNCHANGED reply /\ Post(Request("tool", t)) /\ Moves(t, "tool", {"wait"})
              \/ UNCHANGED reply /\ Post(Request("query", t)) /\ Moves(t, "query", {"asked"})
              \/ UNCHANGED reply /\ Post(Request("on_tool", t)) /\ Moves(t, "onTool", {"complete", "tool"})
              \/ UNCHANGED reply /\ Post(Request("on_error", t)) /\ Moves(t, "outcome", {"done"})
              \/ UNCHANGED reply /\ Post(Request("on_reply", t)) /\ Moves(t, "outcome", {"done"}) /\ text[t]
              \/ UNCHANGED reply /\ Post(Request("on_done", t)) /\ Moves(t, "done", {"exited"})
           /\ \A u \in Turn : text'[u] # text[u] => u = t /\ pc[t] \in {"complete", "done"}
<1> USE DEF WorkerOK, Moves
<1>1. CASE Complete(t)
  BY <1>1 DEF Complete, Fail, Answer, Garble, CallTools, AgentReturns
<1>2. CASE AskTool(t)
  BY <1>2 DEF AskTool
<1>3. CASE ToolReplied(t)
  BY <1>3 DEF ToolReplied
<1>4. CASE PostOnTool(t)
  BY <1>4 DEF PostOnTool, PostOrDone
<1>5. CASE AskQuery(t)
  BY <1>5 DEF AskQuery
<1>6. CASE QueryAnswered(t)
  BY <1>6 DEF QueryAnswered
<1>7. CASE Unmap(t)
  BY <1>7 DEF Unmap
<1>8. CASE PostOutcome(t)
  BY <1>8 DEF PostOutcome, PostOrDone
<1>9. CASE PostDone(t)
  BY <1>9 DEF PostDone, PostOrDone
<1> QED BY <1>1, <1>2, <1>3, <1>4, <1>5, <1>6, <1>7, <1>8, <1>9 DEF WorkerStep

LEMMA StageMoves ==
    ASSUME [Next]_vars
    PROVE  /\ stage' = "open" => stage = "open"
           /\ stage' \in {"open", "cancelling"} => stage \in {"open", "cancelling"}
  BY DEF Next, vars, ActorStep, SendIgnored, SendAccepted, HandleStop, HandleCloseForm, HandleToolCall,
         HandleToolYield, HandleQuery, HandleChatEvent, ActorExit, ToolAsyncDone, ToolResumed,
         ToolYieldsAgain, PostCommand, CloseStep, CloseCancel, CloseDone, CloseEnd, WorkerStep,
         Complete, AskTool, ToolReplied, PostOnTool, AskQuery, QueryAnswered, Unmap, PostOutcome, PostDone

LEMMA EventStep == TypeInv /\ EventInv /\ [Next]_vars => EventInv'
<1> SUFFICES ASSUME TypeInv, EventInv, [Next]_vars PROVE EventInv'
  OBVIOUS
<1> USE TypeParts, ChatAssumption DEF TypeInv
<1>q. ASSUME UNCHANGED inbox PROVE Queued' = Queued /\ OrderInv'
  BY <1>q DEF Queued, OrderInv, EventInv
<1>t. \A x \in Queued : (x.turn # None => x.turn \in Turn) /\ (x.typ \in EventTypes => x.turn \in Turn)
  BY MsgTypes, QueuedType DEF EventTypes
<1>s. stage' = "open" => stage = "open"
  BY StageMoves
(* Steps that add no event and take none away. *)
<1>1. ASSUME OrderInv', UNCHANGED seen,
             \A x \in Queued' : x.typ \in EventTypes => x \in Queued,
             \A x \in Queued : x.typ = "on_done" => x \in Queued',
             \A t \in Turn : pc'[t] = pc[t] \/ (pc[t] = "unused" /\ pc'[t] = "complete")
      PROVE  EventInv'
  <2>1. \A x \in Queued' : x.typ \in EventTypes => x \in Queued /\ x.turn \in Turn /\ pc[x.turn] # "unused"
    BY <1>1, <1>t, ChatAssumption DEF TurnInv
  <2>2. PostedInv'
    BY <1>1, <2>1 DEF EventInv, PostedInv, Outcomes, EventTypes
  <2>3. SeenInv'
    BY <1>1, <1>s, <2>1 DEF EventInv, SeenInv, Outcomes, EventTypes
  <2> QED BY <1>1, <2>2, <2>3 DEF EventInv
<1>2. ASSUME NEW k \in {"send", "stop", "closeForm", "tool", "query"}, Receive(k), UNCHANGED seen,
             \A t \in Turn : pc'[t] = pc[t] \/ (pc[t] = "unused" /\ pc'[t] = "complete")
      PROVE  EventInv'
  <2>1. /\ Head(inbox).typ = k /\ Queued' \subseteq Queued
        /\ \A m \in Queued : m \in Queued' \/ m = Head(inbox)
    BY <1>2, QueueTail
  <2>2. OrderInv'
    BY <1>2, OrderTail DEF EventInv
  <2> QED BY <1>1, <1>2, <2>1, <2>2
<1>3. ASSUME ActorStep PROVE EventInv'
  <2>1. CASE SendIgnored
    BY <1>2, <2>1 DEF SendIgnored, worker
  <2>2. ASSUME NEW t \in Turn, SendAccepted(t) PROVE EventInv'
    <3>1. Receive("send") /\ UNCHANGED seen
      BY <2>2 DEF SendAccepted
    <3>2. \A u \in Turn : pc'[u] = pc[u] \/ (pc[u] = "unused" /\ pc'[u] = "complete")
      BY <2>2 DEF SendAccepted, WorkerOK
    <3> QED BY <1>2, <3>1, <3>2
  <2>3. CASE HandleStop
    BY <1>2, <2>3 DEF HandleStop, worker
  <2>4. CASE HandleCloseForm
    BY <1>2, <2>4 DEF HandleCloseForm, worker
  <2>5. CASE HandleToolCall
    BY <1>2, <2>5 DEF HandleToolCall, worker
  <2>6. ASSUME NEW k \in Suspends, HandleToolYield(k) PROVE EventInv'
    BY <1>2, <2>6 DEF HandleToolYield, worker
  <2>7. CASE HandleQuery
    BY <1>2, <2>7 DEF HandleQuery, worker
  <2>8. ASSUME NEW k \in EventTypes, HandleChatEvent(k) PROVE EventInv'
    <3>1. PICK h : h = Head(inbox)
      OBVIOUS
    <3>2. /\ Receive(k) /\ UNCHANGED <<pc, stage>>
          /\ seen' = [seen EXCEPT ![h.turn] = @ \cup ({k} \ {"on_tool"})]
      BY <2>8, <3>1 DEF HandleChatEvent, worker
    <3>3. /\ h.typ = k /\ h \in Queued /\ Queued' \subseteq Queued
          /\ \A x \in Queued : x \in Queued' \/ x = h
      BY <3>1, <3>2, QueueTail
    <3>4. /\ h.turn \in Turn
          /\ seen'[h.turn] = seen[h.turn] \cup ({k} \ {"on_tool"})
          /\ \A u \in Turn : u # h.turn => seen'[u] = seen[u]
      BY <1>t, <3>2, <3>3 DEF ReplyOK
    <3>5. /\ OrderInv'
          /\ \A x \in Queued' : x.turn = h.turn =>
                 /\ k = "on_done" => x.typ \notin EventTypes
                 /\ k \in Outcomes => x.typ # "on_tool"
      BY <3>1, <3>2, OrderTail DEF EventInv
    <3>6. PostedInv'
      BY <3>2, <3>3 DEF EventInv, PostedInv
    <3>7. ASSUME NEW t \in Turn
          PROVE  /\ "on_done" \in seen'[t] => pc'[t] = "exited"
                 /\ seen'[t] \cap Outcomes # {} => pc'[t] \in {"done", "exited"}
                 /\ \A m \in Queued' : m.turn = t =>
                        /\ "on_done" \in seen'[t] => m.typ \notin EventTypes
                        /\ seen'[t] \cap Outcomes # {} => m.typ # "on_tool"
                 /\ stage' = "open" /\ pc'[t] = "exited" =>
                        \/ "on_done" \in seen'[t]
                        \/ \E m \in Queued' : m.turn = t /\ m.typ = "on_done"
      <4>1. CASE t # h.turn
        BY <3>2, <3>3, <3>4, <4>1 DEF EventInv, SeenInv
      <4>2. CASE t = h.turn
        <5>1. /\ "on_done" \in seen'[t] => "on_done" \in seen[t] \/ k = "on_done"
              /\ seen'[t] \cap Outcomes # {} => seen[t] \cap Outcomes # {} \/ k \in Outcomes
              /\ "on_done" \in seen[t] => "on_done" \in seen'[t]
          BY <3>4, <4>2 DEF Outcomes
        <5>2. /\ k = "on_done" => pc[t] = "exited"
              /\ k \in Outcomes => pc[t] \in {"done", "exited"}
          BY <3>3, <4>2 DEF EventInv, PostedInv
        <5>3. \A m \in Queued' : m.turn = t =>
                  /\ "on_done" \in seen'[t] => m.typ \notin EventTypes
                  /\ seen'[t] \cap Outcomes # {} => m.typ # "on_tool"
          BY <3>3, <3>5, <4>2, <5>1 DEF EventInv, SeenInv
        <5>4. h.typ = "on_done" => "on_done" \in seen'[t]
          BY <3>3, <3>4, <4>2
        <5>5. stage' = "open" /\ pc'[t] = "exited" =>
                  \/ "on_done" \in seen'[t]
                  \/ \E m \in Queued' : m.turn = t /\ m.typ = "on_done"
          BY <3>2, <3>3, <5>1, <5>4 DEF EventInv, SeenInv
        <5>6. /\ "on_done" \in seen'[t] => pc'[t] = "exited"
              /\ seen'[t] \cap Outcomes # {} => pc'[t] \in {"done", "exited"}
          BY <3>2, <5>1, <5>2 DEF EventInv, SeenInv
        <5> QED BY <5>3, <5>5, <5>6
      <4> QED BY <4>1, <4>2
    <3>8. SeenInv'
      BY <3>7 DEF SeenInv
    <3> QED BY <3>5, <3>6, <3>8 DEF EventInv
  <2>9. CASE ActorExit
    BY <1>1, <1>q, <2>9 DEF ActorExit, worker
  <2> QED BY <1>3, <2>1, <2>2, <2>3, <2>4, <2>5, <2>6, <2>7, <2>8, <2>9 DEF ActorStep
<1>4. ASSUME NEW t \in Turn, WorkerStep(t) PROVE EventInv'
  <2>1. /\ pc[t] \notin {"unused", "exited"} /\ UNCHANGED <<seen, stage>>
        /\ \A u \in Turn : u # t => pc'[u] = pc[u]
        /\ pc'[t] \in {"done", "exited"} => pc[t] \in {"outcome", "done"}
        /\ pc[t] = "done" => pc'[t] = "exited"
    BY <1>4, WorkerMoves DEF Moves
  <2>2. /\ "on_done" \notin seen[t]
        /\ pc[t] # "done" => seen[t] \cap Outcomes = {}
        /\ \A x \in Queued : x.turn = t => x.typ # "on_done" /\ (pc[t] # "done" => x.typ \notin Outcomes)
    BY <2>1 DEF EventInv, PostedInv, SeenInv
  (* A step that posts no event. *)
  <2>3. ASSUME OrderInv',
               \A x \in Queued' : x.typ \in EventTypes => x \in Queued,
               Queued \subseteq Queued',
               pc'[t] = "exited" => stage # "open"
        PROVE  EventInv'
    <3>1. PostedInv'
      BY <1>t, <2>1, <2>2, <2>3 DEF EventInv, PostedInv, EventTypes, Outcomes
    <3>2. SeenInv'
      BY <2>1, <2>2, <2>3 DEF EventInv, SeenInv, EventTypes, Outcomes
    <3> QED BY <2>3, <3>1, <3>2 DEF EventInv
  <2>4. CASE UNCHANGED inbox
    <3>1. pc'[t] = "exited" => stage # "open"
      BY <1>4, <2>4, WorkerMoves DEF Moves, Post, InboxOK
    <3> QED BY <1>q, <2>3, <2>4, <3>1
  <2>5. ASSUME NEW k \in {"tool", "query"} \cup EventTypes, Post(Request(k, t))
        PROVE  /\ Request(k, t).typ = k /\ Request(k, t).turn = t
               /\ Queued' = Queued \cup {Request(k, t)}
               /\ (k = "on_tool" => pc[t] # "done") => OrderInv'
    <3>1. Request(k, t) \in MsgType /\ Request(k, t).typ = k /\ Request(k, t).turn = t
      BY <2>1, RequestType
    <3>2. Queued' = Queued \cup {Request(k, t)}
      BY <2>5, <3>1, QueueAppend
    <3>3. ASSUME k = "on_tool" => pc[t] # "done" PROVE OrderInv'
      BY <2>2, <2>5, <3>1, <3>3, OrderAppend DEF EventInv
    <3> QED BY <3>1, <3>2, <3>3
  <2>6. ASSUME NEW k \in {"tool", "query"}, Post(Request(k, t)), pc'[t] # "exited" PROVE EventInv'
    <3>1. k \notin EventTypes /\ k # "on_tool"
      BY DEF EventTypes
    <3> QED BY <2>3, <2>5, <2>6, <3>1
  <2>7. CASE Post(Request("on_tool", t)) /\ Moves(t, "onTool", {"complete", "tool"})
    <3>1. pc[t] = "onTool" /\ pc'[t] \notin {"done", "exited"}
      BY <2>7 DEF Moves
    <3>2. PICK x : x = Request("on_tool", t)
      OBVIOUS
    <3>3. OrderInv' /\ x.typ = "on_tool" /\ x.turn = t /\ Queued' = Queued \cup {x}
      BY <2>5, <2>7, <3>1, <3>2 DEF EventTypes
    <3>4. PostedInv'
      BY <1>t, <2>1, <2>2, <3>1, <3>3 DEF EventInv, PostedInv, EventTypes, Outcomes
    <3>5. SeenInv'
      BY <2>1, <2>2, <3>1, <3>3 DEF EventInv, SeenInv
    <3> QED BY <3>3, <3>4, <3>5 DEF EventInv
  <2>8. ASSUME NEW k \in Outcomes, Post(Request(k, t)), Moves(t, "outcome", {"done"}) PROVE EventInv'
    <3>1. pc[t] = "outcome" /\ pc'[t] = "done"
      BY <2>8 DEF Moves
    <3>2. PICK x : x = Request(k, t)
      OBVIOUS
    <3>3. OrderInv' /\ x.typ = k /\ x.turn = t /\ Queued' = Queued \cup {x} /\ k \notin {"on_tool", "on_done"}
      BY <2>5, <2>8, <3>1, <3>2 DEF EventTypes, Outcomes
    <3>4. PostedInv'
      BY <1>t, <2>1, <2>2, <3>1, <3>3 DEF EventInv, PostedInv, EventTypes, Outcomes
    <3>5. SeenInv'
      BY <2>1, <2>2, <3>1, <3>3 DEF EventInv, SeenInv
    <3> QED BY <3>3, <3>4, <3>5 DEF EventInv
  <2>9. CASE Post(Request("on_done", t)) /\ Moves(t, "done", {"exited"})
    <3>1. pc[t] = "done" /\ pc'[t] = "exited"
      BY <2>9 DEF Moves
    <3>2. PICK x : x = Request("on_done", t)
      OBVIOUS
    <3>3. OrderInv' /\ x.typ = "on_done" /\ x.turn = t /\ Queued' = Queued \cup {x}
      BY <2>5, <2>9, <3>2 DEF EventTypes
    <3>4. PostedInv'
      BY <1>t, <2>1, <2>2, <3>1, <3>3 DEF EventInv, PostedInv, EventTypes, Outcomes
    <3>5. SeenInv'
      BY <2>1, <2>2, <3>1, <3>3 DEF EventInv, SeenInv
    <3> QED BY <3>3, <3>4, <3>5 DEF EventInv
  <2>10. "tool" \in {"tool", "query"} /\ "query" \in {"tool", "query"} /\ "on_error" \in Outcomes /\ "on_reply" \in Outcomes
    BY DEF Outcomes
  <2> QED BY <1>4, <2>4, <2>6, <2>7, <2>8, <2>9, <2>10, WorkerMoves DEF Moves
<1>5. ASSUME NEW t \in Turn, ToolAsyncDone(t) \/ ToolResumed(t) \/ \E k \in Suspends : ToolYieldsAgain(t, k)
      PROVE  EventInv'
  BY <1>1, <1>5, <1>q DEF ToolAsyncDone, ToolResumed, ToolYieldsAgain, worker
<1>6. ASSUME NEW c \in Ctrl, NEW k \in {"send", "stop", "closeForm"}, PostCommand(k, c) PROVE EventInv'
  <2>1. /\ Command(k, c) \in MsgType /\ Command(k, c).typ = k /\ k \notin EventTypes
        /\ k # "on_tool"
    BY DEF Command, MsgType, EventTypes
  <2>2. Post(Command(k, c)) /\ UNCHANGED <<seen, pc>>
    BY <1>6 DEF PostCommand, worker
  <2>3. OrderInv' /\ Queued' = Queued \cup {Command(k, c)}
    BY <2>1, <2>2, OrderAppend, QueueAppend DEF EventInv
  <2> QED BY <1>1, <2>1, <2>2, <2>3
<1>7. ASSUME CloseStep \/ UNCHANGED vars PROVE EventInv'
  BY <1>1, <1>7, <1>q DEF CloseStep, CloseCancel, CloseDone, CloseEnd, vars, worker
<1> QED BY <1>3, <1>4, <1>5, <1>6, <1>7 DEF Next

(* on_done is the last event of a turn that reaches Lua, on_reply and on_error come
   after every on_tool, and no turn of an open session ends without its on_done: for
   any number of turns of any controls interleaved in one inbox, whether or not they
   are stopped on the way. *)
THEOREM EventsCorrect == Spec => []EventOrder
<1>1. Init => EventInv
  <2> SUFFICES ASSUME Init PROVE EventInv
    OBVIOUS
  <2>1. DOMAIN inbox = {} /\ Queued = {}
    BY DEF Init, Queued
  <2> QED BY <2>1 DEF EventInv, OrderInv, PostedInv, SeenInv, Init
<1>2. TypeInv /\ EventInv => EventOrder
  <2> SUFFICES ASSUME TypeInv, EventInv, NEW t \in Turn
               PROVE  /\ "on_done" \in seen[t] => pc[t] = "exited" /\ ~Pending(t, EventTypes)
                      /\ seen[t] \cap {"on_reply", "on_error"} # {} => ~Pending(t, {"on_tool"})
                      /\ stage = "open" /\ pc[t] = "exited" =>
                             "on_done" \in seen[t] \/ Pending(t, {"on_done"})
    BY DEF EventOrder
  <2>1. ASSUME NEW K PROVE Pending(t, K) <=> \E m \in Queued : m.turn = t /\ m.typ \in K
    BY DEF Pending, Queued
  <2>2. "on_done" \in seen[t] => pc[t] = "exited" /\ ~Pending(t, EventTypes)
    BY <2>1 DEF EventInv, SeenInv
  <2>3. seen[t] \cap {"on_reply", "on_error"} # {} => ~Pending(t, {"on_tool"})
    BY <2>1 DEF EventInv, SeenInv, Outcomes
  <2>4. stage = "open" /\ pc[t] = "exited" => "on_done" \in seen[t] \/ Pending(t, {"on_done"})
    BY <2>1 DEF EventInv, SeenInv
  <2> QED BY <2>2, <2>3, <2>4
<1> QED BY <1>1, <1>2, TypeInit, TypeStep, EventStep, PTL DEF Spec

-----------------------------------------------------------------------------
(* Replies.  Until Close closes done, the answer a worker waits for is in  *)
(* one place: requested in the inbox, with a parked tool, or in its reply  *)
(* channel.                                                                *)

Asks == {"tool", "query"}

AskOnce ==
    \A i, j \in DOMAIN inbox :
        inbox[i].typ \in Asks /\ inbox[j].typ \in Asks /\ inbox[i].turn = inbox[j].turn => i = j

AnswerInv ==
    /\ \A m \in Queued : m.typ = "tool" =>
           pc[m.turn] = "wait" /\ ~reply[m.turn] /\ parked[m.turn] = None
    /\ \A m \in Queued : m.typ = "query" => pc[m.turn] = "asked" /\ ~reply[m.turn]
    /\ \A t \in Turn : parked[t] # None => pc[t] = "wait" /\ ~reply[t]
    /\ \A t \in Turn : reply[t] => pc[t] \in {"wait", "asked"}

TokenInv == stage \in {"open", "cancelling"} => AskOnce /\ AnswerInv

LEMMA AskTail ==
    ASSUME InboxOK, AskOnce, NEW k, Receive(k)
    PROVE  /\ AskOnce'
           /\ k \in Asks => \A x \in Queued' : x.typ \in Asks => x.turn # Head(inbox).turn
<1>1. /\ inbox # <<>> /\ inbox' = Tail(inbox) /\ Head(inbox).typ = k
  BY DEF Receive
<1>2. /\ Head(inbox) = inbox[1] /\ 1 \in DOMAIN inbox
      /\ \A i \in DOMAIN inbox' : i + 1 \in DOMAIN inbox /\ inbox'[i] = inbox[i + 1] /\ i \in Nat /\ i # 0
  BY <1>1 DEF InboxOK
<1>3. AskOnce'
  <2> SUFFICES ASSUME NEW i \in DOMAIN inbox', NEW j \in DOMAIN inbox', inbox'[i].typ \in Asks,
                      inbox'[j].typ \in Asks, inbox'[i].turn = inbox'[j].turn
               PROVE  i = j
    BY DEF AskOnce
  <2>1. i + 1 = j + 1
    BY <1>2 DEF AskOnce
  <2> QED BY <1>2, <2>1
<1>4. ASSUME k \in Asks, NEW x \in Queued', x.typ \in Asks, x.turn = Head(inbox).turn PROVE FALSE
  <2>1. PICK i \in DOMAIN inbox' : x = inbox'[i]
    BY DEF Queued
  <2>2. i + 1 = 1
    BY <1>1, <1>2, <1>4, <2>1 DEF AskOnce
  <2> QED BY <1>2, <2>1, <2>2
<1> QED BY <1>3, <1>4

LEMMA AskAppend ==
    ASSUME InboxOK, AskOnce, NEW m \in MsgType, Post(m),
           m.typ \in Asks => \A x \in Queued : x.typ \in Asks => x.turn # m.turn
    PROVE  AskOnce'
<1>1. /\ DOMAIN inbox' = DOMAIN inbox \cup {Len(inbox) + 1} /\ inbox'[Len(inbox) + 1] = m
      /\ \A i \in DOMAIN inbox : inbox'[i] = inbox[i]
  BY DEF Post, InboxOK
<1>2. \A i \in DOMAIN inbox : inbox[i] \in Queued
  BY DEF Queued
<1> QED BY <1>1, <1>2 DEF AskOnce

LEMMA TokenStep == TypeInv /\ TokenInv /\ [Next]_vars => TokenInv'
<1> SUFFICES ASSUME TypeInv, TokenInv, [Next]_vars, stage' \in {"open", "cancelling"}
             PROVE  AskOnce' /\ AnswerInv'
  BY DEF TokenInv
<1> USE TypeParts, ChatAssumption DEF TypeInv
<1>0. stage \in {"open", "cancelling"} /\ AskOnce /\ AnswerInv
  BY StageMoves DEF TokenInv
<1>t. \A x \in Queued : x.typ \in Asks => x.turn \in Turn /\ pc[x.turn] # "unused"
  BY MsgTypes, QueuedType DEF Asks, TurnInv
<1>q. ASSUME UNCHANGED inbox PROVE Queued' = Queued /\ AskOnce'
  BY <1>0, <1>q DEF Queued, AskOnce
(* Steps that neither ask nor answer. *)
<1>1. ASSUME UNCHANGED <<reply, parked>>,
             \A x \in Queued' : x.typ \in Asks => x \in Queued,
             \A t \in Turn : pc'[t] = pc[t] \/ (pc[t] = "unused" /\ pc'[t] = "complete")
      PROVE  AnswerInv'
  BY <1>0, <1>1, <1>t DEF AnswerInv, Asks
<1>2. ASSUME NEW k, Receive(k), UNCHANGED <<reply, parked>>,
             \A t \in Turn : pc'[t] = pc[t] \/ (pc[t] = "unused" /\ pc'[t] = "complete")
      PROVE  AskOnce' /\ AnswerInv'
  <2>1. Queued' \subseteq Queued
    BY <1>2, QueueTail
  <2>2. AskOnce'
    BY <1>0, <1>2, AskTail
  <2> QED BY <1>1, <1>2, <2>1, <2>2
<1>3. ASSUME NEW k \in Asks, Receive(k)
      PROVE  /\ AskOnce' /\ Head(inbox) \in Queued /\ Head(inbox).turn \in Turn /\ Head(inbox).typ = k
             /\ \A x \in Queued' : x \in Queued /\ (x.typ \in Asks => x.turn \in Turn /\ x.turn # Head(inbox).turn)
  <2>1. Head(inbox) \in Queued /\ Queued' \subseteq Queued /\ Head(inbox).typ = k
    BY <1>3, QueueTail
  <2>2. AskOnce' /\ \A x \in Queued' : x.typ \in Asks => x.turn # Head(inbox).turn
    BY <1>0, <1>3, AskTail
  <2> QED BY <1>t, <2>1, <2>2
<1>4. ASSUME ActorStep PROVE AskOnce' /\ AnswerInv'
  <2>1. CASE SendIgnored
    BY <1>2, <2>1 DEF SendIgnored, worker
  <2>2. ASSUME NEW t \in Turn, SendAccepted(t) PROVE AskOnce' /\ AnswerInv'
    <3>1. Receive("send") /\ UNCHANGED <<reply, parked>>
      BY <2>2 DEF SendAccepted
    <3>2. \A u \in Turn : pc'[u] = pc[u] \/ (pc[u] = "unused" /\ pc'[u] = "complete")
      BY <2>2 DEF SendAccepted, WorkerOK
    <3> QED BY <1>2, <3>1, <3>2
  <2>3. CASE HandleStop
    BY <1>2, <2>3 DEF HandleStop, worker
  <2>4. CASE HandleCloseForm
    BY <1>2, <2>4 DEF HandleCloseForm, worker
  <2>5. CASE HandleToolCall
    <3>1. PICK h : h = Head(inbox)
      OBVIOUS
    <3>2. /\ AskOnce' /\ h \in Queued /\ h.turn \in Turn /\ h.typ = "tool"
          /\ \A x \in Queued' : x \in Queued /\ (x.typ \in Asks => x.turn \in Turn /\ x.turn # h.turn)
      BY <1>3, <2>5, <3>1 DEF HandleToolCall, Asks
    <3>3. UNCHANGED <<pc, parked>> /\ reply' = [reply EXCEPT ![h.turn] = TRUE]
      BY <2>5, <3>1 DEF HandleToolCall, worker
    <3>4. pc[h.turn] = "wait" /\ parked[h.turn] = None
      BY <1>0, <3>2 DEF AnswerInv
    <3>5. AnswerInv'
      BY <1>0, <3>2, <3>3, <3>4 DEF AnswerInv, ReplyOK, Asks
    <3> QED BY <3>2, <3>5
  <2>6. ASSUME NEW k \in Suspends, HandleToolYield(k) PROVE AskOnce' /\ AnswerInv'
    <3>1. PICK h : h = Head(inbox)
      OBVIOUS
    <3>2. /\ AskOnce' /\ h \in Queued /\ h.turn \in Turn /\ h.typ = "tool"
          /\ \A x \in Queued' : x \in Queued /\ (x.typ \in Asks => x.turn \in Turn /\ x.turn # h.turn)
      BY <1>3, <2>6, <3>1 DEF HandleToolYield, Asks
    <3>3. UNCHANGED <<pc, reply>> /\ parked' = [parked EXCEPT ![h.turn] = k]
      BY <2>6, <3>1 DEF HandleToolYield, worker
    <3>4. pc[h.turn] = "wait" /\ ~reply[h.turn]
      BY <1>0, <3>2 DEF AnswerInv
    <3>5. AnswerInv'
      BY <1>0, <3>2, <3>3, <3>4 DEF AnswerInv, ReplyOK, Asks
    <3> QED BY <3>2, <3>5
  <2>7. CASE HandleQuery
    <3>1. PICK h : h = Head(inbox)
      OBVIOUS
    <3>2. /\ AskOnce' /\ h \in Queued /\ h.turn \in Turn /\ h.typ = "query"
          /\ \A x \in Queued' : x \in Queued /\ (x.typ \in Asks => x.turn \in Turn /\ x.turn # h.turn)
      BY <1>3, <2>7, <3>1 DEF HandleQuery, Asks
    <3>3. UNCHANGED <<pc, parked>> /\ reply' = [reply EXCEPT ![h.turn] = TRUE]
      BY <2>7, <3>1 DEF HandleQuery, worker
    <3>4. pc[h.turn] = "asked" /\ parked[h.turn] = None
      BY <1>0, <3>2 DEF AnswerInv
    <3>5. AnswerInv'
      BY <1>0, <3>2, <3>3, <3>4 DEF AnswerInv, ReplyOK, Asks
    <3> QED BY <3>2, <3>5
  <2>8. ASSUME NEW k \in EventTypes, HandleChatEvent(k) PROVE AskOnce' /\ AnswerInv'
    BY <1>2, <2>8 DEF HandleChatEvent, worker
  <2>9. CASE ActorExit
    BY <1>1, <1>q, <2>9 DEF ActorExit, worker
  <2> QED BY <1>4, <2>1, <2>2, <2>3, <2>4, <2>5, <2>6, <2>7, <2>8, <2>9 DEF ActorStep
<1>5. ASSUME NEW t \in Turn, WorkerStep(t) PROVE AskOnce' /\ AnswerInv'
  <2>1. /\ pc[t] # "unused" /\ UNCHANGED <<parked, stage>>
        /\ \A u \in Turn : u # t => pc'[u] = pc[u] /\ reply'[u] = reply[u]
        /\ pc[t] \in {"wait", "asked"} => UNCHANGED inbox /\ reply[t] /\ ~reply'[t]
        /\ pc[t] \notin {"wait", "asked"} => UNCHANGED reply
    BY <1>0, <1>5, WorkerMoves DEF Moves, ReplyOK
  <2>2. ASSUME NEW k \in Asks \cup EventTypes, Post(Request(k, t)), k \in Asks => pc[t] = k
        PROVE  /\ AskOnce' /\ Queued' = Queued \cup {Request(k, t)}
               /\ Request(k, t).typ = k /\ Request(k, t).turn = t
    <3>1. Request(k, t) \in MsgType /\ Request(k, t).typ = k /\ Request(k, t).turn = t
      BY <2>1, <2>2, RequestType DEF Asks
    <3>2. k \in Asks => \A x \in Queued : x.typ \in Asks => x.turn # t
      BY <1>0, <2>2 DEF AnswerInv, Asks
    <3> QED BY <1>0, <2>2, <3>1, <3>2, QueueAppend, AskAppend
  <2>3. \A x \in Queued : x.typ \in Asks /\ x.turn = t => pc[t] \in {"wait", "asked"} /\ ~reply[t]
    BY <1>0 DEF AnswerInv, Asks
  <2>4. CASE UNCHANGED inbox
    <3>1. AnswerInv'
      BY <1>0, <1>q, <1>t, <2>1, <2>3, <2>4 DEF AnswerInv, Asks
    <3> QED BY <1>q, <2>4, <3>1
  <2>5. ASSUME NEW k \in EventTypes, Post(Request(k, t)), pc[t] \notin {"wait", "asked"}
        PROVE  AskOnce' /\ AnswerInv'
    <3>1. k \notin Asks
      BY DEF EventTypes, Asks
    <3>2. AskOnce' /\ \A x \in Queued' : x.typ \in Asks => x \in Queued
      BY <2>2, <2>5, <3>1
    <3>3. AnswerInv'
      BY <1>0, <1>t, <2>1, <2>3, <2>5, <3>2 DEF AnswerInv, Asks
    <3> QED BY <3>2, <3>3
  <2>6. ASSUME NEW k \in Asks, Post(Request(k, t)), pc[t] = k,
               pc'[t] = IF k = "tool" THEN "wait" ELSE "asked"
        PROVE  AskOnce' /\ AnswerInv'
    <3>1. PICK x : x = Request(k, t)
      OBVIOUS
    <3>2. AskOnce' /\ Queued' = Queued \cup {x} /\ x.typ = k /\ x.turn = t
      BY <2>2, <2>6, <3>1
    <3>3. k \in {"tool", "query"} /\ pc[t] \notin {"wait", "asked"} /\ ~reply[t] /\ parked[t] = None
      BY <1>0, <2>6 DEF AnswerInv, Asks
    <3>4. AnswerInv'
      BY <1>0, <1>t, <2>1, <2>3, <2>6, <3>2, <3>3 DEF AnswerInv, Asks
    <3> QED BY <3>2, <3>4
  <2> QED BY <1>5, <2>4, <2>5, <2>6, WorkerMoves DEF Moves, Asks, EventTypes
<1>6. ASSUME NEW t \in Turn, ToolAsyncDone(t) \/ ToolResumed(t) \/ \E k \in Suspends : ToolYieldsAgain(t, k)
      PROVE  AskOnce' /\ AnswerInv'
  <2>1. UNCHANGED <<inbox, pc>> /\ parked[t] # None
    BY <1>6 DEF ToolAsyncDone, ToolResumed, ToolYieldsAgain, worker
  <2>2. /\ \A u \in Turn : u # t => parked'[u] = parked[u] /\ reply'[u] = reply[u]
        /\ parked'[t] # None => ~reply'[t]
    BY <1>0, <1>6 DEF ToolAsyncDone, ToolResumed, ToolYieldsAgain, ReplyOK, AnswerInv
  <2>3. pc[t] = "wait" /\ \A x \in Queued : x.typ \in Asks => x.turn # t
    BY <1>0, <2>1 DEF AnswerInv, Asks
  <2>4. AnswerInv'
    BY <1>0, <1>q, <1>t, <2>1, <2>2, <2>3 DEF AnswerInv, Asks
  <2> QED BY <1>q, <2>1, <2>4
<1>7. ASSUME NEW c \in Ctrl, NEW k \in {"send", "stop", "closeForm"}, PostCommand(k, c)
      PROVE  AskOnce' /\ AnswerInv'
  <2>1. Command(k, c) \in MsgType /\ Command(k, c).typ = k /\ k \notin Asks
    BY DEF Command, MsgType, Asks
  <2>2. Post(Command(k, c)) /\ UNCHANGED <<reply, parked, pc>>
    BY <1>7 DEF PostCommand, worker
  <2>3. AskOnce' /\ Queued' = Queued \cup {Command(k, c)}
    BY <1>0, <2>1, <2>2, AskAppend, QueueAppend
  <2> QED BY <1>1, <2>1, <2>2, <2>3
<1>8. ASSUME CloseStep \/ UNCHANGED vars PROVE AskOnce' /\ AnswerInv'
  BY <1>1, <1>8, <1>q DEF CloseStep, CloseCancel, CloseDone, CloseEnd, vars, worker
<1> QED BY <1>4, <1>5, <1>6, <1>7, <1>8 DEF Next

LEMMA TokenInit == Init => TokenInv
<1> SUFFICES ASSUME Init PROVE AskOnce /\ AnswerInv
  BY DEF TokenInv
<1>1. DOMAIN inbox = {} /\ Queued = {}
  BY DEF Init, Queued
<1> QED BY <1>1 DEF Init, AskOnce, AnswerInv

(* A control that is busy in an open session has a turn that will still clear the
   flag: a turn clears it with the Query it makes when AgentRun returns, and no stop,
   close_form, tool suspension or second turn on the control leaves the flag to a
   turn that is over. *)
THEOREM BusyCorrect == Spec => []BusyHasTurn
<1>1. Init => BusyHasTurn
  BY DEF Init, BusyHasTurn
<1>2. TypeInv /\ TokenInv /\ BusyHasTurn /\ [Next]_vars => BusyHasTurn'
  <2> SUFFICES ASSUME TypeInv, TokenInv, BusyHasTurn, [Next]_vars, stage' = "open",
                      NEW c \in Ctrl, busy'[c]
               PROVE  \E t \in Turn : ctl'[t] = c /\ InFlight(t)'
    BY DEF BusyHasTurn
  <2> USE TypeParts, ChatAssumption DEF TypeInv
  <2>0. stage = "open" /\ AskOnce /\ AnswerInv
    BY StageMoves DEF TokenInv
  <2>1. ASSUME NEW t \in Turn, ctl[t] = c, InFlight(t), ctl'[t] = ctl[t],
               pc'[t] \in Running, pc'[t] = "asked" => ~reply'[t]
        PROVE  \E u \in Turn : ctl'[u] = c /\ InFlight(u)'
    BY <2>1 DEF InFlight
  <2>2. ASSUME busy[c] PROVE \E t \in Turn : ctl[t] = c /\ InFlight(t)
    BY <2>0, <2>2 DEF BusyHasTurn
  <2>3. ASSUME busy[c], UNCHANGED ctl,
               \A t \in Turn : InFlight(t) => pc'[t] \in Running /\ (pc'[t] = "asked" => ~reply'[t])
        PROVE  \E u \in Turn : ctl'[u] = c /\ InFlight(u)'
    BY <2>1, <2>2, <2>3
  <2>4. ASSUME UNCHANGED <<pc, ctl, reply>>, busy'[c] = busy[c]
        PROVE  \E u \in Turn : ctl'[u] = c /\ InFlight(u)'
    BY <2>3, <2>4 DEF InFlight
  <2>5. ASSUME ActorStep PROVE \E u \in Turn : ctl'[u] = c /\ InFlight(u)'
    <3>1. CASE SendIgnored
      BY <2>4, <3>1 DEF SendIgnored, worker
    <3>2. ASSUME NEW t \in Turn, SendAccepted(t) PROVE \E u \in Turn : ctl'[u] = c /\ InFlight(u)'
      <4>1. PICK h : h = Head(inbox).ctrl
        OBVIOUS
      <4>2. /\ h \in Ctrl /\ busy' = [busy EXCEPT ![h] = TRUE] /\ ctl' = [ctl EXCEPT ![t] = h]
            /\ pc[t] = "unused" /\ pc' = [pc EXCEPT ![t] = "complete"] /\ UNCHANGED reply
        BY <3>2, <4>1, QueueTail, MsgTypes DEF SendAccepted
      <4>3. CASE c = h
        BY <4>2, <4>3 DEF InFlight, WorkerOK, Running
      <4>4. CASE c # h
        <5>1. PICK u \in Turn : ctl[u] = c /\ InFlight(u)
          BY <2>2, <4>2, <4>4 DEF TableOK
        <5>2. u # t
          BY <4>2, <5>1 DEF InFlight, Running
        <5> QED BY <2>1, <4>2, <5>1, <5>2 DEF WorkerOK, InFlight
      <4> QED BY <4>3, <4>4
    <3>3. CASE HandleStop
      <4>1. Head(inbox).ctrl \in Ctrl /\ busy' = [busy EXCEPT ![Head(inbox).ctrl] = FALSE]
        BY <3>3, QueueTail, MsgTypes DEF HandleStop
      <4>2. busy'[c] = busy[c]
        BY <4>1 DEF TableOK
      <4> QED BY <2>4, <3>3, <4>2 DEF HandleStop, worker
    <3>4. CASE HandleCloseForm
      BY <2>4, <3>4 DEF HandleCloseForm, worker
    <3>5. CASE HandleToolCall
      <4>1. PICK h : h = Head(inbox)
        OBVIOUS
      <4>2. h \in Queued /\ h \in MsgType /\ h.typ = "tool"
        BY <3>5, <4>1, QueueTail DEF HandleToolCall
      <4>3. /\ h.turn \in Turn /\ pc[h.turn] = "wait" /\ UNCHANGED <<busy, pc, ctl>>
            /\ reply' = [reply EXCEPT ![h.turn] = TRUE]
        BY <2>0, <3>5, <4>1, <4>2, MsgTypes DEF HandleToolCall, AnswerInv, worker
      <4> QED BY <2>3, <4>3 DEF InFlight, ReplyOK
    <3>6. ASSUME NEW k \in Suspends, HandleToolYield(k) PROVE \E u \in Turn : ctl'[u] = c /\ InFlight(u)'
      BY <2>4, <3>6 DEF HandleToolYield, worker
    <3>7. CASE HandleQuery
      <4>1. PICK h : h = Head(inbox)
        OBVIOUS
      <4>2. h \in Queued /\ h \in MsgType /\ h.typ = "query"
        BY <3>7, <4>1, QueueTail DEF HandleQuery
      <4>3. /\ h.turn \in Turn /\ ctl[h.turn] \in Ctrl /\ UNCHANGED <<pc, ctl>>
            /\ busy' = [busy EXCEPT ![ctl[h.turn]] = FALSE]
            /\ reply' = [reply EXCEPT ![h.turn] = TRUE]
        BY <3>7, <4>1, <4>2, MsgTypes DEF HandleQuery, worker, TurnInv
      <4>4. busy[c] /\ c # ctl[h.turn]
        BY <4>3 DEF TableOK
      <4>5. PICK u \in Turn : ctl[u] = c /\ InFlight(u)
        BY <2>2, <4>4
      <4> QED BY <2>1, <4>3, <4>4, <4>5 DEF InFlight, ReplyOK
    <3>8. ASSUME NEW k \in EventTypes, HandleChatEvent(k) PROVE \E u \in Turn : ctl'[u] = c /\ InFlight(u)'
      BY <2>4, <3>8 DEF HandleChatEvent, worker
    <3>9. CASE ActorExit
      BY <2>4, <3>9 DEF ActorExit, worker
    <3> QED BY <2>5, <3>1, <3>2, <3>3, <3>4, <3>5, <3>6, <3>7, <3>8, <3>9 DEF ActorStep
  <2>6. ASSUME NEW t \in Turn, WorkerStep(t) PROVE \E u \in Turn : ctl'[u] = c /\ InFlight(u)'
    <3>1. /\ \A u \in Turn : u # t => pc'[u] = pc[u] /\ reply'[u] = reply[u]
          /\ UNCHANGED <<ctl, busy>>
      BY <2>6, WorkerMoves DEF ReplyOK
    <3>2. InFlight(t) => pc'[t] \in Running /\ (pc'[t] = "asked" => UNCHANGED reply /\ pc[t] = "query")
      BY <2>0, <2>6, WorkerMoves DEF Moves, InFlight, Running
    <3>3. pc[t] = "query" => ~reply[t]
      BY <2>0 DEF AnswerInv
    <3> QED BY <2>3, <3>1, <3>2, <3>3 DEF InFlight
  <2>7. ASSUME NEW t \in Turn, ToolAsyncDone(t) PROVE \E u \in Turn : ctl'[u] = c /\ InFlight(u)'
    <3>1. UNCHANGED <<busy, pc, ctl>> /\ parked[t] # None /\ reply' = [reply EXCEPT ![t] = TRUE]
      BY <2>7 DEF ToolAsyncDone, worker
    <3>2. pc[t] = "wait"
      BY <2>0, <3>1 DEF AnswerInv
    <3> QED BY <2>3, <3>1, <3>2 DEF InFlight, ReplyOK
  <2>8. ASSUME NEW t \in Turn, ToolResumed(t) \/ \E k \in Suspends : ToolYieldsAgain(t, k)
        PROVE  \E u \in Turn : ctl'[u] = c /\ InFlight(u)'
    BY <2>4, <2>8 DEF ToolResumed, ToolYieldsAgain, worker
  <2>9. ASSUME NEW b \in Ctrl, NEW k \in {"send", "stop", "closeForm"}, PostCommand(k, b)
        PROVE  \E u \in Turn : ctl'[u] = c /\ InFlight(u)'
    BY <2>4, <2>9 DEF PostCommand, worker
  <2>10. ASSUME CloseStep \/ UNCHANGED vars PROVE \E u \in Turn : ctl'[u] = c /\ InFlight(u)'
    BY <2>4, <2>10 DEF CloseStep, CloseCancel, CloseDone, CloseEnd, vars, worker
  <2> QED BY <2>5, <2>6, <2>7, <2>8, <2>9, <2>10 DEF Next
<1> QED BY <1>1, <1>2, TypeInit, TypeStep, TokenInit, TokenStep, PTL DEF Spec

-----------------------------------------------------------------------------
(* Commits.  The Query answered to a turn with text has appended it to the *)
(* transcript of the turn's control.                                       *)

Committed(t) == \E i \in DOMAIN transcript[ctl[t]] :
                    transcript[ctl[t]][i] = <<"assistant", t>>

CommitInv ==
    stage = "open" =>
        /\ \A t \in Turn : text[t] /\ (pc[t] \in Ending \/ (pc[t] = "asked" /\ reply[t])) =>
               Committed(t)
        /\ \A m \in Queued : m.typ = "on_reply" => Committed(m.turn)

(* Transcripts only grow, so a committed text stays committed. *)
LEMMA StaysCommitted ==
    ASSUME TableOK, NEW t \in Turn, ctl[t] \in Ctrl, ctl'[t] = ctl[t], Committed(t),
           \/ UNCHANGED transcript
           \/ \E c \in Ctrl, e \in {"user", "assistant"} \X Turn :
                  transcript' = [transcript EXCEPT ![c] = Append(@, e)]
    PROVE  Committed(t)'
<1>1. CASE UNCHANGED transcript
  BY <1>1 DEF Committed
<1>2. ASSUME NEW c \in Ctrl, NEW e \in {"user", "assistant"} \X Turn,
             transcript' = [transcript EXCEPT ![c] = Append(@, e)]
      PROVE  Committed(t)'
  <2>1. PICK i \in DOMAIN transcript[ctl[t]] : transcript[ctl[t]][i] = <<"assistant", t>>
    BY DEF Committed
  <2>2. CASE c # ctl[t]
    BY <1>2, <2>1, <2>2 DEF Committed, TableOK
  <2>3. CASE c = ctl[t]
    <3>1. transcript'[ctl[t]] = Append(transcript[ctl[t]], e) /\ transcript[ctl[t]] \in Seq({"user", "assistant"} \X Turn)
      BY <1>2, <2>3 DEF TableOK
    <3>2. i \in DOMAIN transcript'[ctl[t]] /\ transcript'[ctl[t]][i] = transcript[ctl[t]][i]
      BY <2>1, <3>1
    <3> QED BY <2>1, <3>2 DEF Committed
  <2> QED BY <2>2, <2>3
<1> QED BY <1>1, <1>2

LEMMA CommitStep == TypeInv /\ TokenInv /\ CommitInv /\ [Next]_vars => CommitInv'
<1> DEFINE Written(t) == text[t] /\ (pc[t] \in Ending \/ (pc[t] = "asked" /\ reply[t]))
<1> SUFFICES ASSUME TypeInv, TokenInv, CommitInv, [Next]_vars, stage' = "open"
             PROVE  /\ \A t \in Turn : Written(t)' => Committed(t)'
                    /\ \A m \in Queued' : m.typ = "on_reply" => Committed(m.turn)'
  BY DEF CommitInv, Committed
<1> USE TypeParts, ChatAssumption DEF TypeInv
<1> DEFINE Goal == /\ \A t \in Turn : Written(t)' => Committed(t)'
                   /\ \A m \in Queued' : m.typ = "on_reply" => Committed(m.turn)'
<1>0. /\ stage = "open" /\ AskOnce /\ AnswerInv
      /\ \A t \in Turn : Written(t) => Committed(t)
      /\ \A m \in Queued : m.typ = "on_reply" => Committed(m.turn)
  BY StageMoves DEF TokenInv, CommitInv
<1>t. \A x \in Queued : x.typ = "on_reply" => x.turn \in Turn /\ pc[x.turn] # "unused"
  BY MsgTypes, QueuedType DEF TurnInv
<1>u. \A t \in Turn : Written(t) => pc[t] # "unused"
  BY DEF Ending
<1>c. \A t \in Turn : pc[t] # "unused" => ctl[t] \in Ctrl
  BY DEF TurnInv
<1> HIDE DEF Written, TypeInv
(* Steps that finish no turn and post no on_reply. *)
<1>1. ASSUME \A t \in Turn : pc[t] # "unused" => ctl'[t] = ctl[t],
             \/ UNCHANGED transcript
             \/ \E c \in Ctrl, e \in {"user", "assistant"} \X Turn :
                    transcript' = [transcript EXCEPT ![c] = Append(@, e)],
             \A t \in Turn : Written(t)' => Written(t) \/ (pc[t] # "unused" /\ Committed(t)) \/ Committed(t)',
             \A x \in Queued' : x.typ = "on_reply" =>
                 x \in Queued \/ (x.turn \in Turn /\ pc[x.turn] # "unused" /\ Committed(x.turn))
      PROVE  Goal
  <2>1. \A t \in Turn : pc[t] # "unused" /\ Committed(t) => Committed(t)'
    BY <1>1, <1>c, StaysCommitted DEF TypeInv
  <2>2. \A t \in Turn : Written(t)' => Committed(t)'
    BY <1>0, <1>1, <1>u, <2>1
  <2>3. ASSUME NEW m \in Queued', m.typ = "on_reply" PROVE Committed(m.turn)'
    <3>1. m.turn \in Turn /\ pc[m.turn] # "unused" /\ Committed(m.turn)
      BY <1>0, <1>1, <1>t, <2>3
    <3>2. PICK t \in Turn : t = m.turn
      BY <3>1
    <3> QED BY <2>1, <3>1, <3>2
  <2> QED BY <2>2, <2>3
<1>2. ASSUME UNCHANGED <<ctl, pc, text, reply, transcript>>,
             \A x \in Queued' : x.typ = "on_reply" => x \in Queued
      PROVE  Goal
  <2>1. \A t \in Turn : Written(t)' => Written(t)
    BY <1>2 DEF Written
  <2> QED BY <1>1, <1>2, <2>1
<1>q. ASSUME UNCHANGED inbox PROVE Queued' = Queued
  BY <1>q DEF Queued
<1>r. ASSUME NEW k, Receive(k)
      PROVE  Queued' \subseteq Queued /\ Head(inbox) \in Queued /\ Head(inbox) \in MsgType /\ Head(inbox).typ = k
  BY <1>r, QueueTail DEF TypeInv
<1>3. ASSUME ActorStep PROVE Goal
  <2>1. CASE SendIgnored
    BY <1>2, <1>r, <2>1 DEF SendIgnored, worker
  <2>2. ASSUME NEW t \in Turn, SendAccepted(t) PROVE Goal
    <3>1. PICK h : h = Head(inbox).ctrl
      OBVIOUS
    <3>2. /\ h \in Ctrl /\ ctl' = [ctl EXCEPT ![t] = h] /\ UNCHANGED <<text, reply>>
          /\ pc[t] = "unused" /\ pc' = [pc EXCEPT ![t] = "complete"]
          /\ transcript' = [transcript EXCEPT ![h] = Append(@, <<"user", t>>)]
          /\ Queued' \subseteq Queued
      BY <1>r, <2>2, <3>1, MsgTypes DEF SendAccepted
    <3>3. \A u \in Turn : Written(u)' => Written(u)
      BY <3>2 DEF Written, Ending, WorkerOK, TypeInv
    <3>4. \A u \in Turn : pc[u] # "unused" => ctl'[u] = ctl[u]
      BY <3>2 DEF WorkerOK, TypeInv
    <3>5. <<"user", t>> \in {"user", "assistant"} \X Turn
      OBVIOUS
    <3> QED BY <1>1, <3>2, <3>3, <3>4, <3>5
  <2>3. CASE HandleStop
    BY <1>2, <1>r, <2>3 DEF HandleStop, worker
  <2>4. CASE HandleCloseForm
    BY <1>2, <1>r, <2>4 DEF HandleCloseForm, worker
  <2>5. CASE HandleToolCall
    <3>1. PICK h : h = Head(inbox)
      OBVIOUS
    <3>2. h \in Queued /\ h \in MsgType /\ h.typ = "tool" /\ Queued' \subseteq Queued
      BY <1>r, <2>5, <3>1 DEF HandleToolCall
    <3>3. /\ h.turn \in Turn /\ pc[h.turn] = "wait" /\ UNCHANGED <<transcript, pc, ctl, text>>
          /\ reply' = [reply EXCEPT ![h.turn] = TRUE]
      BY <1>0, <2>5, <3>1, <3>2, MsgTypes DEF HandleToolCall, AnswerInv, worker
    <3>4. \A u \in Turn : Written(u)' => Written(u)
      BY <3>3 DEF Written, Ending, ReplyOK, TypeInv
    <3> QED BY <1>1, <3>2, <3>3, <3>4
  <2>6. ASSUME NEW k \in Suspends, HandleToolYield(k) PROVE Goal
    BY <1>2, <1>r, <2>6 DEF HandleToolYield, worker
  <2>7. CASE HandleQuery
    <3>1. PICK h : h = Head(inbox)
      OBVIOUS
    <3>2. h \in Queued /\ h \in MsgType /\ h.typ = "query" /\ Queued' \subseteq Queued
      BY <1>r, <2>7, <3>1 DEF HandleQuery
    <3>3. PICK t \in Turn : t = h.turn
      BY <3>2, MsgTypes
    <3>4. /\ ctl[t] \in Ctrl /\ UNCHANGED <<pc, ctl, text>> /\ reply' = [reply EXCEPT ![t] = TRUE]
          /\ pc[t] = "asked"
          /\ transcript' = IF text[t]
                             THEN [transcript EXCEPT ![ctl[t]] = Append(@, <<"assistant", t>>)]
                             ELSE transcript
      BY <1>0, <2>7, <3>1, <3>2, <3>3 DEF HandleQuery, worker, TurnInv, AnswerInv, TypeInv
    <3>5. text[t] => Committed(t)'
      <4> SUFFICES ASSUME text[t] PROVE Committed(t)'
        OBVIOUS
      <4>1. transcript'[ctl[t]] = Append(transcript[ctl[t]], <<"assistant", t>>)
        BY <3>4 DEF TableOK, TypeInv
      <4>2. PICK q : q = transcript[ctl[t]] /\ q \in Seq({"user", "assistant"} \X Turn)
        BY <3>4 DEF TableOK, TypeInv
      <4>3. PICK n : n = Len(q) + 1
        OBVIOUS
      <4>4. /\ n \in DOMAIN transcript'[ctl[t]]
            /\ transcript'[ctl[t]][n] = <<"assistant", t>>
        BY <4>1, <4>2, <4>3
      <4> QED BY <3>4, <4>4 DEF Committed
    <3>6. \A u \in Turn : Written(u)' => Written(u) \/ Committed(u)'
      BY <3>4, <3>5 DEF Written, ReplyOK, TypeInv
    <3>7. \/ UNCHANGED transcript
          \/ \E c \in Ctrl, e \in {"user", "assistant"} \X Turn :
                 transcript' = [transcript EXCEPT ![c] = Append(@, e)]
      <4>1. <<"assistant", t>> \in {"user", "assistant"} \X Turn
        OBVIOUS
      <4>2. CASE text[t]
        BY <3>4, <4>1, <4>2
      <4>3. CASE ~text[t]
        BY <3>4, <4>3
      <4> QED BY <4>2, <4>3
    <3> QED BY <1>1, <3>2, <3>4, <3>6, <3>7
  <2>8. ASSUME NEW k \in EventTypes, HandleChatEvent(k) PROVE Goal
    BY <1>2, <1>r, <2>8 DEF HandleChatEvent, worker
  <2>9. CASE ActorExit
    BY <1>2, <1>q, <2>9 DEF ActorExit, worker
  <2> QED BY <1>3, <2>1, <2>2, <2>3, <2>4, <2>5, <2>6, <2>7, <2>8, <2>9 DEF ActorStep
<1>4. ASSUME NEW t \in Turn, WorkerStep(t) PROVE Goal
  <2>1. /\ \A u \in Turn : u # t => pc'[u] = pc[u] /\ reply'[u] = reply[u] /\ text'[u] = text[u]
        /\ UNCHANGED <<ctl, transcript>> /\ pc[t] # "unused"
    BY <1>4, WorkerMoves DEF ReplyOK, Moves, TypeInv
  <2>2. text'[t] # text[t] => pc[t] \in {"complete", "done"}
    BY <1>4, WorkerMoves DEF TypeInv
  <2>3. ~reply[t] \/ pc[t] \in {"wait", "asked"}
    BY <1>0 DEF AnswerInv
  <2>4. Written(t)' => Written(t)
    BY <1>0, <1>4, <2>2, <2>3, WorkerMoves DEF Moves, Written, Ending, TypeInv, ReplyOK
  <2>5. \A u \in Turn : Written(u)' => Written(u)
    BY <2>1, <2>4 DEF Written
  <2>6. \A x \in Queued' : x.typ = "on_reply" =>
            x \in Queued \/ (x.turn = t /\ Committed(t))
    <3>1. CASE UNCHANGED inbox
      BY <1>q, <3>1
    <3>2. ASSUME NEW k \in {"tool", "query"} \cup EventTypes, Post(Request(k, t))
          PROVE  /\ Queued' = Queued \cup {Request(k, t)}
                 /\ Request(k, t).typ = k /\ Request(k, t).turn = t
      BY <2>1, <3>2, QueueAppend, RequestType DEF TypeInv
    <3>3. ASSUME NEW k \in {"tool", "query", "on_tool", "on_error", "on_done"}, Post(Request(k, t))
          PROVE  <2>6
      BY <3>2, <3>3 DEF EventTypes
    <3>4. CASE Post(Request("on_reply", t)) /\ Moves(t, "outcome", {"done"}) /\ text[t]
      <4>1. Committed(t)
        BY <1>0, <3>4 DEF Moves, Written, Ending
      <4> QED BY <3>2, <3>4, <4>1 DEF EventTypes
    <3> QED BY <1>4, <3>1, <3>3, <3>4, WorkerMoves DEF TypeInv
  <2> QED BY <1>1, <2>1, <2>5, <2>6
<1>5. ASSUME NEW t \in Turn, ToolAsyncDone(t) PROVE Goal
  <2>1. /\ UNCHANGED <<transcript, pc, ctl, text, inbox>> /\ parked[t] # None
        /\ reply' = [reply EXCEPT ![t] = TRUE]
    BY <1>5 DEF ToolAsyncDone, worker
  <2>2. pc[t] = "wait"
    BY <1>0, <2>1 DEF AnswerInv
  <2>3. \A u \in Turn : Written(u)' => Written(u)
    BY <2>1, <2>2 DEF Written, Ending, ReplyOK, TypeInv
  <2> QED BY <1>1, <1>q, <2>1, <2>3
<1>6. ASSUME NEW t \in Turn, ToolResumed(t) \/ \E k \in Suspends : ToolYieldsAgain(t, k) PROVE Goal
  BY <1>2, <1>6, <1>q DEF ToolResumed, ToolYieldsAgain, worker
<1>7. ASSUME NEW c \in Ctrl, NEW k \in {"send", "stop", "closeForm"}, PostCommand(k, c) PROVE Goal
  <2>1. Command(k, c) \in MsgType /\ Command(k, c).typ # "on_reply"
    BY DEF Command, MsgType
  <2>2. Queued' = Queued \cup {Command(k, c)}
    BY <1>7, <2>1, QueueAppend DEF PostCommand, TypeInv
  <2> QED BY <1>2, <1>7, <2>1, <2>2 DEF PostCommand, worker
<1>8. ASSUME CloseStep \/ UNCHANGED vars PROVE Goal
  BY <1>2, <1>8, <1>q DEF CloseStep, CloseCancel, CloseDone, CloseEnd, vars, worker
<1> QED BY <1>3, <1>4, <1>5, <1>6, <1>7, <1>8 DEF Next

(* When on_reply is at the head of the inbox of an open session, the assistant text of
   its turn is in the transcript of its control: the worker posts on_reply only after
   its Query was answered, and no command that comes between takes the text back. *)
THEOREM ReplyCorrect == Spec => []ReplyCommitted
<1>1. Init => CommitInv
  <2> SUFFICES ASSUME Init PROVE CommitInv
    OBVIOUS
  <2>1. Queued = {}
    BY DEF Init, Queued
  <2> QED BY <2>1 DEF Init, CommitInv
<1>2. TypeInv /\ CommitInv => ReplyCommitted
  <2> SUFFICES ASSUME TypeInv, CommitInv, stage = "open", inbox # <<>>, Head(inbox).typ = "on_reply"
               PROVE  \E i \in DOMAIN transcript[Head(inbox).ctrl] :
                          transcript[Head(inbox).ctrl][i] = <<"assistant", Head(inbox).turn>>
    BY DEF ReplyCommitted
  <2>1. Head(inbox) \in Queued /\ Head(inbox) \in MsgType
    BY TypeParts DEF TypeInv, InboxOK, Queued
  <2>2. Committed(Head(inbox).turn) /\ Head(inbox).turn # None
    BY <2>1, MsgTypes DEF CommitInv
  <2>3. ctl[Head(inbox).turn] = Head(inbox).ctrl
    BY <2>1, <2>2 DEF TypeInv, TurnInv
  <2> QED BY <2>2, <2>3 DEF Committed
<1> QED BY <1>1, <1>2, TypeInit, TypeStep, TokenInit, TokenStep, CommitStep, PTL DEF Spec
=============================================================================
