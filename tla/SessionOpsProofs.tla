-------------------------- MODULE SessionOpsProofs --------------------------
(***************************************************************************)
(* Proofs about SessionOps, for every set of coroutines, every number of   *)
(* operations and every capacity of the channels.                          *)
(***************************************************************************)
EXTENDS SessionOps, FiniteSetTheorems, TLAPS

-----------------------------------------------------------------------------
(* Types.  Beyond TypeOK: main()'s goroutine never resumes anything, a     *)
(* goroutine that posts or sends has something to post or send, and the    *)
(* WaitGroup counts the workers and the one goroutine Close waits for.     *)

GoroutineInv ==
    /\ origin["main"] = "main" /\ caller["main"] = <<>> /\ cur["main"] = Main
    /\ \A g \in Goroutine : /\ pc[g] = "post" <=> posting[g] # <<>>
                            /\ pc[g] = "send" => sends[g] > 0
    /\ Transport => pc["main"] \notin {"send", "dead"}
    /\ ~Transport => /\ pc["watch"] = "end"
                     /\ pc["main"] \notin {"end", "dead"} => pc["loop"] = "idle"

Waited == IF Transport THEN pc["watch"] ELSE pc["loop"]

WaitInv ==
    /\ IsFiniteSet(workers) /\ \A id \in workers : id.n <= op[id.co].n
    /\ wg = Cardinality(workers) + (IF Waited = "end" THEN 0 ELSE 1)

TypeInv == TypeOK /\ GoroutineInv /\ WaitInv

(* The channels and the goroutine variables of TypeOK, apart. *)
CoState == {"none", "queued", "running", "waiting", "ended", "failed"}

ChannelsOK ==
    /\ inbox \in Seq(MsgType) /\ Len(inbox) <= InboxCap
    /\ outbox \in Seq([typ : {"note"}] \cup [typ : {"ask"}, id : OpId])
    /\ Len(outbox) <= OutboxCap
    /\ recv \subseteq OpId /\ shown \subseteq OpId

OpsOK ==
    /\ ops \subseteq OpId /\ workers \subseteq OpId
    /\ op \in [Coro -> OpId \cup {NoOp(c) : c \in Coro}]
    /\ wg \in Nat
    /\ stage \in {"open", "closing", "closed"}

LuaOK ==
    /\ co \in [Coro -> CoState]
    /\ pc \in [Thread -> {"run", "post", "yield", "send", "idle", "end", "dead"}]
    /\ cur \in [Goroutine -> Coro]
    /\ origin \in [Goroutine -> {"main", "event", "async", "resp", "exec"}]
    /\ caller \in [Goroutine -> {<<>>} \cup {<<id>> : id \in OpId}]
    /\ posting \in [Goroutine -> {<<>>} \cup {<<m>> : m \in MsgType}]
    /\ sends \in [Goroutine -> 0..2]

LEMMA TypeParts == TypeOK <=> ChannelsOK /\ OpsOK /\ LuaOK
  BY DEF TypeOK, ChannelsOK, OpsOK, LuaOK, CoState

LEMMA MsgTypes ==
    /\ \A m \in MsgType : /\ m.typ = "event" => m.co \in Coro /\ m = Event(m.co)
                          /\ m.typ # "event" => m.id \in OpId /\ m = Msg(m.typ, m.id)
    /\ \A c \in Coro : Event(c) \in MsgType
    /\ \A id \in OpId : \A t \in {"done", "exec", "grid", "gridSel", "gridResp"} :
           Msg(t, id) \in MsgType
  BY DEF MsgType, Event, Msg

LEMMA FreshType ==
    ASSUME OpsOK, LuaOK, NEW g \in Goroutine, NEW k \in Kinds, op[cur[g]].n < MaxOps
    PROVE  /\ Fresh(g, k) \in OpId /\ cur[g] \in Coro
           /\ Fresh(g, k).co = cur[g] /\ Fresh(g, k).kind = k
           /\ Fresh(g, k).n = op[cur[g]].n + 1 /\ op[cur[g]].n \in Nat
<1> USE OpsAssumption
<1>1. cur[g] \in Coro
  BY DEF LuaOK
<1>2. op[cur[g]] \in OpId \cup {NoOp(c) : c \in Coro}
  BY <1>1 DEF OpsOK
<1>3. op[cur[g]].n \in Nat
  <2>1. CASE op[cur[g]] \in OpId
    BY <2>1 DEF OpId
  <2>2. ASSUME NEW c \in Coro, op[cur[g]] = NoOp(c) PROVE op[cur[g]].n = 0
    BY <2>2 DEF NoOp
  <2> QED BY <1>2, <2>1, <2>2
<1> QED BY <1>1, <1>3 DEF Fresh, OpId

(* Taking the head of the inbox. *)
LEMMA InboxHead ==
    ASSUME ChannelsOK, inbox # <<>>
    PROVE  /\ Head(inbox) \in MsgType /\ Tail(inbox) \in Seq(MsgType)
           /\ Len(Tail(inbox)) = Len(inbox) - 1 /\ Len(inbox) > 0
           /\ Head(inbox) = inbox[1]
           /\ \A i \in DOMAIN Tail(inbox) : /\ i + 1 \in DOMAIN inbox
                                            /\ Tail(inbox)[i] = inbox[i + 1]
           /\ \A i \in DOMAIN inbox : i # 1 => i - 1 \in DOMAIN Tail(inbox)
<1> USE DEF ChannelsOK
<1> HIDE DEF MsgType
<1> QED OBVIOUS

LEMMA InboxAppend ==
    ASSUME ChannelsOK, NEW m \in MsgType, Len(inbox) < InboxCap
    PROVE  /\ Append(inbox, m) \in Seq(MsgType)
           /\ Len(Append(inbox, m)) = Len(inbox) + 1 /\ Len(inbox) \in Nat
           /\ Len(Append(inbox, m)) <= InboxCap
           /\ DOMAIN Append(inbox, m) = DOMAIN inbox \cup {Len(inbox) + 1}
           /\ Append(inbox, m)[Len(inbox) + 1] = m
           /\ \A i \in DOMAIN inbox : Append(inbox, m)[i] = inbox[i] /\ i # Len(inbox) + 1
<1> USE OpsAssumption DEF ChannelsOK
<1> HIDE DEF MsgType
<1> QED OBVIOUS

LEMMA OutboxAppend ==
    ASSUME ChannelsOK, NEW m, m = Note \/ \E id \in OpId : m = Msg("ask", id), SendOutbox(m),
           UNCHANGED <<inbox, recv, shown>>
    PROVE  ChannelsOK'
<1> DEFINE T == [typ : {"note"}] \cup [typ : {"ask"}, id : OpId]
<1>1. m \in T
  BY DEF Note, Msg
<1>2. outbox \in Seq(T) /\ Len(outbox) <= OutboxCap /\ OutboxCap \in Nat
  BY OpsAssumption DEF ChannelsOK
<1> HIDE DEF T
<1>3. outbox' \in Seq(T) /\ Len(outbox') <= OutboxCap
  BY <1>1, <1>2 DEF SendOutbox
<1> QED BY <1>3 DEF ChannelsOK, T

(* Resuming a coroutine, and what a goroutine does when its coroutine stops. *)
LEMMA ResumeType ==
    ASSUME TypeInv, NEW id \in OpId, NEW from \in {"async", "resp"},
           NEW cs \in [Coro -> CoState], Resume("loop", id, from, cs),
           pc["loop"] # "end", pc["loop"] # "post",
           ~Transport => pc["main"] \in {"end", "dead"},
           UNCHANGED <<posting, op, workers, wg, stage>>
    PROVE  OpsOK' /\ LuaOK' /\ GoroutineInv' /\ WaitInv'
<1> USE TypeParts DEF TypeInv, Goroutine, Thread
<1>1. id.co \in Coro
  BY DEF OpId
<1>2. OpsOK'
  BY DEF OpsOK, Resume
<1>3. LuaOK' /\ pc'["loop"] \in {"run", "send", "idle"} /\ pc'["main"] = pc["main"]
      /\ pc'["watch"] = pc["watch"] /\ caller'["main"] = caller["main"]
      /\ origin'["main"] = origin["main"] /\ cur'["main"] = cur["main"]
      /\ sends'["main"] = sends["main"] /\ (pc'["loop"] = "send" => sends'["loop"] = 1)
  BY <1>1 DEF LuaOK, CoState, Resume
<1>4. GoroutineInv'
  BY <1>3 DEF GoroutineInv, LuaOK
<1>5. WaitInv'
  BY <1>3 DEF WaitInv, Waited
<1> QED BY <1>2, <1>3, <1>4, <1>5

LEMMA StopType ==
    ASSUME TypeInv, NEW g \in Goroutine, NEW n \in 0..2, Transport /\ g = "main" => n = 0,
           NEW cs \in [Coro -> CoState], Stop(g, cs, n), pc[g] \in {"run", "yield"},
           UNCHANGED <<posting, op, workers, wg, stage>>
    PROVE  OpsOK' /\ LuaOK' /\ GoroutineInv' /\ WaitInv'
<1> USE TypeParts DEF TypeInv, Goroutine, Thread
<1>1. CASE caller[g] # <<>>
  <2>1. g = "loop" /\ Head(caller[g]) \in OpId
    BY <1>1 DEF GoroutineInv, LuaOK
  <2>2. ~Transport => pc["main"] \in {"end", "dead"}
    BY <2>1 DEF GoroutineInv
  <2> QED BY <1>1, <2>1, <2>2, ResumeType DEF Stop
<1>2. CASE caller[g] = <<>>
  <2>1. OpsOK'
    BY <1>2 DEF OpsOK, Stop
  <2>2. LuaOK'
    BY <1>2 DEF LuaOK, Stop, CoState
  <2>3. \A h \in Thread : h # g => pc'[h] = pc[h]
    BY <1>2 DEF Stop, LuaOK
  <2>4. /\ pc'[g] \in {"send", "end", "idle"}
        /\ pc'[g] = "send" => sends'[g] = n /\ n > 0
        /\ pc'[g] = "end" => g = "main"
        /\ \A h \in Goroutine : h # g => sends'[h] = sends[h]
    BY <1>2 DEF Stop, LuaOK
  <2>5. GoroutineInv'
    BY <1>2, <2>3, <2>4 DEF GoroutineInv, Stop, LuaOK
  <2>6. WaitInv'
    BY <2>3, <2>4 DEF WaitInv, Waited, GoroutineInv
  <2> QED BY <2>1, <2>2, <2>5, <2>6
<1> QED BY <1>1, <1>2

LEMMA TypeInit == Init => TypeInv
<1> SUFFICES ASSUME Init PROVE TypeInv
  OBVIOUS
<1> USE OpsAssumption DEF Init
<1>1. ChannelsOK
  BY DEF ChannelsOK
<1>2. OpsOK
  BY DEF OpsOK
<1>3. /\ pc \in [Thread -> {"run", "idle", "end"}]
      /\ pc["main"] = "run" /\ pc["loop"] = "idle"
      /\ pc["watch"] = IF Transport THEN "idle" ELSE "end"
  BY DEF Started, Thread, Goroutine
<1>4. LuaOK
  BY <1>3 DEF LuaOK, CoState
<1>5. GoroutineInv
  BY <1>3 DEF GoroutineInv, Goroutine
<1>6. WaitInv
  BY <1>3, FS_EmptySet DEF WaitInv, Waited
<1> QED BY <1>1, <1>2, <1>4, <1>5, <1>6, TypeParts DEF TypeInv

(* The coroutine a goroutine runs stops in state st, and n blocking sends follow. *)
Stopping(g, st, n) ==
    /\ Stop(g, [co EXCEPT ![cur[g]] = st], n)
    /\ pc[g] = IF st = "waiting" THEN "yield" ELSE "run"
    /\ Transport /\ g = "main" => n = 0
    /\ outbox' = outbox \/ SendOutbox(Note)
    /\ UNCHANGED <<inbox, recv, shown, op, posting, workers, wg, stage>>

LEMMA Stops ==
    ASSUME GoroutineInv, NEW g \in Goroutine, Yield(g) \/ Finish(g) \/ Raise(g)
    PROVE  \E st \in {"waiting", "ended", "failed"}, n \in 0..2 : Stopping(g, st, n)
<1>1. CASE Yield(g)
  <2>1. Stopping(g, "waiting", 0)
    BY <1>1, Zenon DEF Yield, Stopping
  <2> QED BY <2>1
<1>2. CASE Finish(g)
  <2> DEFINE n == IF g = "main" /\ ~Transport THEN 1 ELSE 0
  <2>1. n \in 0..2 /\ (Transport /\ g = "main" => n = 0)
    OBVIOUS
  <2>2. Stop(g, [co EXCEPT ![cur[g]] = "ended"], n)
    BY <1>2, Zenon DEF Finish
  <2> HIDE DEF n
  <2>3. pc[g] = "run" /\ UNCHANGED <<inbox, outbox, recv, shown, op, posting, workers, wg, stage>>
    BY <1>2 DEF Finish
  <2>4. Stopping(g, "ended", n)
    BY <2>1, <2>2, <2>3, Zenon DEF Stopping
  <2> QED BY <2>1, <2>4
<1>3. CASE Raise(g)
  <2> DEFINE n == IF caller[g] = <<>> THEN ErrorSends(g) ELSE 0
  <2>1. n \in 0..2 /\ (Transport /\ g = "main" => n = 0)
    BY DEF ErrorSends, GoroutineInv
  <2>2. Stop(g, [co EXCEPT ![cur[g]] = "failed"], n)
    BY <1>3, Zenon DEF Raise
  <2> HIDE DEF n
  <2>3. /\ pc[g] = "run" /\ UNCHANGED <<inbox, recv, shown, op, posting, workers, wg, stage>>
        /\ outbox' = outbox \/ SendOutbox(Note)
    BY <1>3 DEF Raise
  <2>4. Stopping(g, "failed", n)
    BY <2>1, <2>2, <2>3, Zenon DEF Stopping
  <2> QED BY <2>1, <2>4
<1> QED BY <1>1, <1>2, <1>3

LEMMA PrimedParts == TypeOK' <=> ChannelsOK' /\ OpsOK' /\ LuaOK'
  BY TypeParts, PTL

(* What a goroutine running Lua does. *)
LEMMA RunTypes == ASSUME TypeInv, NEW g \in Goroutine, RunStep(g) PROVE TypeInv'
<1> USE TypeParts, OpsAssumption DEF TypeInv
<1> DEFINE PartsOK == ChannelsOK' /\ OpsOK' /\ LuaOK' /\ GoroutineInv' /\ WaitInv'
<1> SUFFICES PartsOK
  BY PrimedParts
<1>1. ASSUME NEW k \in Kinds, Register(g, k)
      PROVE  /\ Fresh(g, k) \in OpId /\ cur[g] \in Coro /\ Fresh(g, k) \notin workers
             /\ ops' \subseteq OpId /\ op' \in [Coro -> OpId \cup {NoOp(c) : c \in Coro}]
             /\ \A id \in workers \cup {Fresh(g, k)} : id.n <= op'[id.co].n
  <2>1. Fresh(g, k) \in OpId /\ cur[g] \in Coro
    BY <1>1, FreshType DEF Register
  <2>2. Fresh(g, k).co = cur[g] /\ Fresh(g, k).n = op[cur[g]].n + 1 /\ op[cur[g]].n \in Nat
    BY <1>1, FreshType DEF Register
  <2>3. ops' \subseteq OpId /\ op' \in [Coro -> OpId \cup {NoOp(c) : c \in Coro}]
    BY <1>1, <2>1 DEF Register, OpsOK
  <2>4. \A id \in workers : id \in OpId /\ id.co \in Coro /\ id.n \in Nat /\ id.n <= op[id.co].n
    BY DEF WaitInv, OpsOK, OpId
  <2>5. Fresh(g, k) \notin workers
    BY <2>2, <2>4
  <2>6. op'[cur[g]] = Fresh(g, k) /\ \A c \in Coro : c # cur[g] => op'[c] = op[c]
    BY <1>1, <2>1 DEF Register, OpsOK
  <2>7. \A id \in workers : id.n <= op'[id.co].n
    BY <2>2, <2>4, <2>6
  <2> QED BY <2>1, <2>2, <2>3, <2>5, <2>6, <2>7
<1>2. ASSUME NEW k \in Kinds, RequestAsync(g, k) PROVE PartsOK
  <2> USE <1>2 DEF RequestAsync
  <2>1. ChannelsOK'
    BY DEF ChannelsOK
  <2>2. OpsOK'
    BY <1>1 DEF OpsOK
  <2>3. LuaOK' /\ \A t \in Thread : t # g => pc'[t] = pc[t]
    BY DEF LuaOK, Thread
  <2>4. pc[g] = "run" /\ pc'[g] = "yield"
    BY DEF Register, LuaOK, Thread
  <2>5. GoroutineInv'
    BY <2>3, <2>4 DEF GoroutineInv, Goroutine, Thread, LuaOK
  <2>6. /\ IsFiniteSet(workers') /\ Cardinality(workers') = Cardinality(workers) + 1
        /\ Cardinality(workers) \in Nat
    BY <1>1, FS_AddElement, FS_CardinalityType DEF WaitInv
  <2>7. WaitInv'
    BY <1>1, <2>3, <2>4, <2>6 DEF WaitInv, Waited, Goroutine, Thread
  <2> QED BY <2>1, <2>2, <2>3, <2>5, <2>7
<1>3. ASSUME NEW k \in Kinds, RequestSelf(g, k) PROVE PartsOK
  <2> USE <1>3 DEF RequestSelf
  <2>1. ChannelsOK'
    BY DEF ChannelsOK
  <2>2. OpsOK'
    BY <1>1 DEF OpsOK
  <2>3. Msg(k, Fresh(g, k)) \in MsgType
    BY <1>1, MsgTypes
  <2>4. LuaOK' /\ \A t \in Thread : t # g => pc'[t] = pc[t]
    BY <2>3 DEF LuaOK, Thread
  <2>5. /\ pc[g] = "run" /\ pc'[g] = "post" /\ posting'[g] = <<Msg(k, Fresh(g, k))>>
        /\ \A h \in Goroutine : h # g => posting'[h] = posting[h]
    BY DEF Register, LuaOK, Thread
  <2>6. GoroutineInv'
    BY <2>4, <2>5 DEF GoroutineInv, Goroutine, Thread, LuaOK
  <2>7. WaitInv'
    BY <1>1, <2>4, <2>5 DEF WaitInv, Waited, Goroutine, Thread
  <2> QED BY <2>1, <2>2, <2>4, <2>6, <2>7
<1>4. CASE RequestBrowser(g)
  <2> USE <1>4 DEF RequestBrowser, AskPage
  <2>0. "browser" \in Kinds
    BY DEF Register
  <2>1. ChannelsOK'
    BY <1>1, <2>0, OutboxAppend
  <2>2. OpsOK'
    BY <1>1, <2>0 DEF OpsOK
  <2>3. LuaOK' /\ \A t \in Thread : t # g => pc'[t] = pc[t]
    BY DEF LuaOK, Thread
  <2>4. pc[g] = "run" /\ pc'[g] = "yield"
    BY DEF Register, LuaOK, Thread
  <2>5. GoroutineInv'
    BY <2>3, <2>4 DEF GoroutineInv, Goroutine, Thread, LuaOK
  <2>6. WaitInv'
    BY <1>1, <2>0, <2>3, <2>4 DEF WaitInv, Waited, Goroutine, Thread
  <2> QED BY <2>1, <2>2, <2>3, <2>5, <2>6
<1>5. CASE PostSelf(g)
  <2> USE <1>5 DEF PostSelf
  <2>1. posting[g] # <<>> /\ Head(posting[g]) \in MsgType
    BY DEF GoroutineInv, LuaOK
  <2>2. ChannelsOK'
    <3>1. CASE UNCHANGED inbox
      BY <3>1 DEF ChannelsOK
    <3>2. CASE Len(inbox) < InboxCap /\ inbox' = Append(inbox, Head(posting[g]))
      BY <2>1, <3>2, InboxAppend DEF ChannelsOK
    <3> QED BY <3>1, <3>2
  <2>3. OpsOK'
    BY DEF OpsOK
  <2>4. LuaOK' /\ \A t \in Thread : t # g => pc'[t] = pc[t]
    BY DEF LuaOK, Thread
  <2>5. /\ pc[g] = "post" /\ pc'[g] \in {"yield", "idle"} /\ posting'[g] = <<>>
        /\ \A h \in Goroutine : h # g => posting'[h] = posting[h]
    BY DEF LuaOK, Thread
  <2>6. GoroutineInv'
    BY <2>4, <2>5 DEF GoroutineInv, Goroutine, Thread, LuaOK
  <2>7. WaitInv'
    BY <2>4, <2>5 DEF WaitInv, Waited, Goroutine, Thread
  <2> QED BY <2>2, <2>3, <2>4, <2>6, <2>7
<1>6. CASE Yield(g) \/ Finish(g) \/ Raise(g)
  <2>1. PICK st \in {"waiting", "ended", "failed"}, n \in 0..2 : Stopping(g, st, n)
    BY <1>6, Stops
  <2> DEFINE cs == [co EXCEPT ![cur[g]] = st]
  <2>2. cs \in [Coro -> CoState]
    BY DEF LuaOK, CoState
  <2>3. Stop(g, cs, n)
    BY <2>1, Zenon DEF Stopping
  <2>4. /\ pc[g] \in {"run", "yield"} /\ UNCHANGED <<posting, op, workers, wg, stage>>
        /\ Transport /\ g = "main" => n = 0
    BY <2>1 DEF Stopping
  <2>5. ChannelsOK'
    <3>1. CASE UNCHANGED outbox
      BY <2>1, <3>1 DEF Stopping, ChannelsOK
    <3>2. CASE SendOutbox(Note)
      BY <2>1, <3>2, OutboxAppend DEF Stopping
    <3> QED BY <2>1, <3>1, <3>2 DEF Stopping
  <2> HIDE DEF cs
  <2> QED BY <2>2, <2>3, <2>4, <2>5, StopType
<1>9. CASE BlockingSend(g)
  <2> USE <1>9 DEF BlockingSend
  <2>1. ChannelsOK'
    BY OutboxAppend DEF SendOutbox
  <2>2. OpsOK'
    BY DEF OpsOK
  <2>3. sends[g] \in 1..2 /\ sends[g] - 1 \in 0..2
    BY DEF GoroutineInv, LuaOK
  <2>4. LuaOK' /\ \A t \in Thread : t # g => pc'[t] = pc[t]
    BY <2>3 DEF LuaOK, Thread
  <2>5. /\ pc[g] = "send" /\ pc'[g] \in {"send", "dead", "end", "idle"}
        /\ pc'[g] = "send" => sends'[g] > 0
        /\ pc'[g] \in {"dead", "end"} => g = "main"
        /\ \A h \in Goroutine : h # g => sends'[h] = sends[h]
    BY <2>3 DEF LuaOK, Thread
  <2>6. GoroutineInv'
    BY <2>4, <2>5 DEF GoroutineInv, Goroutine, Thread, LuaOK
  <2>7. WaitInv'
    BY <2>4, <2>5 DEF WaitInv, Waited, Goroutine, Thread
  <2> QED BY <2>1, <2>2, <2>4, <2>6, <2>7
<1> QED BY <1>2, <1>3, <1>4, <1>5, <1>6, <1>9 DEF RunStep

(* What the inbox loop does. *)
LEMMA LoopTypes == ASSUME TypeInv, LoopStep PROVE TypeInv'
<1> USE TypeParts, OpsAssumption DEF TypeInv
<1> DEFINE PartsOK == ChannelsOK' /\ OpsOK' /\ LuaOK' /\ GoroutineInv' /\ WaitInv'
<1> SUFFICES PartsOK
  BY PrimedParts
<1>1. ASSUME NEW t, Receive(t), UNCHANGED <<recv, shown>>,
             outbox' = outbox \/ SendOutbox(Note)
      PROVE  /\ ChannelsOK' /\ LoopIdle
             /\ t = "event" => Head(inbox).co \in Coro
             /\ t # "event" => Head(inbox).id \in OpId
  <2>1. /\ Head(inbox) \in MsgType /\ inbox' \in Seq(MsgType) /\ Head(inbox).typ = t
        /\ Len(inbox') <= InboxCap
    BY <1>1, InboxHead DEF Receive, ChannelsOK
  <2>2. CASE UNCHANGED outbox
    BY <1>1, <2>1, <2>2, MsgTypes DEF ChannelsOK, Receive
  <2>3. CASE SendOutbox(Note)
    <3>1. /\ outbox' \in Seq([typ : {"note"}] \cup [typ : {"ask"}, id : OpId])
          /\ Len(outbox') <= OutboxCap
      BY <2>3 DEF SendOutbox, ChannelsOK, Note
    <3> QED BY <1>1, <2>1, <3>1, MsgTypes DEF ChannelsOK, Receive
  <2> QED BY <1>1, <2>2, <2>3
<1>2. ASSUME LoopIdle
      PROVE  /\ pc["loop"] = "idle" /\ posting["loop"] = <<>>
             /\ ~Transport => pc["main"] \in {"end", "dead"}
  BY <1>2 DEF LoopIdle, GoroutineInv, Goroutine
<1>3. ASSUME LoopIdle, NEW id \in OpId, NEW from \in {"async", "resp"}, ResumeOp(id, from),
             ChannelsOK', UNCHANGED <<posting, op, workers, wg, stage>>
      PROVE  PartsOK
  <2>1. CASE id \in ops
    <3>1. Resume("loop", id, from, co)
      BY <1>3, <2>1 DEF ResumeOp
    <3>2. co \in [Coro -> CoState]
      BY DEF LuaOK
    <3> QED BY <1>2, <1>3, <3>1, <3>2, ResumeType
  <2>2. CASE id \notin ops
    <3>1. UNCHANGED <<ops, co, cur, origin, caller, pc, sends>>
      BY <1>3, <2>2 DEF ResumeOp
    <3> QED BY <1>3, <3>1 DEF OpsOK, LuaOK, GoroutineInv, WaitInv, Waited
  <2> QED BY <2>1, <2>2
<1>4. ASSUME NEW c \in Coro, NEW from \in {"event", "exec"}, Start(c, from), LoopIdle,
             caller' = caller \/ \E id \in OpId : caller' = [caller EXCEPT !["loop"] = <<id>>],
             ChannelsOK', UNCHANGED <<ops, op, posting, sends, workers, wg, stage>>
      PROVE  PartsOK
  <2> USE <1>2, <1>4 DEF Start
  <2>1. OpsOK'
    BY DEF OpsOK
  <2>2. LuaOK' /\ pc'["loop"] = "run" /\ \A t \in Thread : t # "loop" => pc'[t] = pc[t]
    BY DEF LuaOK, CoState, Thread, Goroutine
  <2>3. /\ origin'["main"] = origin["main"] /\ caller'["main"] = caller["main"]
        /\ cur'["main"] = cur["main"]
    BY DEF LuaOK, Goroutine
  <2>4. GoroutineInv'
    BY <2>2, <2>3 DEF GoroutineInv, Goroutine, Thread
  <2>5. WaitInv'
    BY <2>2 DEF WaitInv, Waited, Thread
  <2> QED BY <2>1, <2>2, <2>4, <2>5
<1>5. ASSUME LoopIdle, NEW id \in OpId, PostGridResp(id), ChannelsOK',
             UNCHANGED <<op, co, cur, origin, caller, sends, workers, wg, stage>>
      PROVE  PartsOK
  <2> USE <1>2, <1>5 DEF PostGridResp
  <2>1. OpsOK'
    BY DEF OpsOK
  <2>2. CASE id \in ops
    <3>1. Msg("gridResp", id) \in MsgType
      BY MsgTypes
    <3>2. /\ LuaOK' /\ pc'["loop"] = "post" /\ \A t \in Thread : t # "loop" => pc'[t] = pc[t]
          /\ posting'["loop"] # <<>> /\ posting'["main"] = posting["main"]
      <4>1. posting' = [posting EXCEPT !["loop"] = <<Msg("gridResp", id)>>]
            /\ pc' = [pc EXCEPT !["loop"] = "post"]
        BY <2>2
      <4> QED BY <3>1, <4>1 DEF LuaOK, Thread, Goroutine
    <3>3. GoroutineInv'
      BY <3>2 DEF GoroutineInv, Goroutine, Thread
    <3>4. WaitInv'
      BY <3>2 DEF WaitInv, Waited, Thread
    <3> QED BY <2>1, <3>2, <3>3, <3>4
  <2>3. CASE id \notin ops
    BY <2>1, <2>3 DEF LuaOK, GoroutineInv, WaitInv, Waited
  <2> QED BY <2>2, <2>3
<1>6. CASE HandleEvent
  BY <1>1, <1>4, <1>6 DEF HandleEvent
<1>7. CASE HandleDone
  <2> DEFINE id == Head(inbox).id
             from == IF id.kind = "async" THEN "async" ELSE "resp"
  <2>1. LoopIdle /\ id \in OpId /\ ChannelsOK'
    BY <1>1, <1>7 DEF HandleDone
  <2>2. ResumeOp(id, from) /\ UNCHANGED <<posting, op, workers, wg, stage>>
    BY <1>7 DEF HandleDone
  <2>3. from \in {"async", "resp"}
    OBVIOUS
  <2> HIDE DEF id, from
  <2> QED BY <1>3, <2>1, <2>2, <2>3
<1>8. CASE HandleExecInline
  <2>1. LoopIdle /\ Head(inbox).id \in OpId /\ ChannelsOK'
    BY <1>1, <1>8 DEF HandleExecInline
  <2> QED BY <1>3, <1>8, <2>1 DEF HandleExecInline
<1>9. CASE HandleGrid
  <2>1. LoopIdle /\ Head(inbox).id \in OpId /\ ChannelsOK'
    BY <1>1, <1>9 DEF HandleGrid
  <2> QED BY <1>5, <1>9, <2>1 DEF HandleGrid
<1>10. CASE HandleGridSel
  <2>1. ChannelsOK'
    BY <1>1, <1>10 DEF HandleGridSel
  <2> QED BY <1>10, <2>1 DEF HandleGridSel, OpsOK, LuaOK, GoroutineInv, WaitInv, Waited
<1>11. CASE HandleGridResp
  <2>1. LoopIdle /\ Head(inbox).id \in OpId /\ ChannelsOK'
    BY <1>1, <1>11 DEF HandleGridResp
  <2> QED BY <1>5, <1>11, <2>1 DEF HandleGridResp
<1>12. ASSUME NEW f \in Coro, HandleExec(f) PROVE PartsOK
  <2>1. LoopIdle /\ Head(inbox).id \in OpId /\ ChannelsOK'
    BY <1>1, <1>12 DEF HandleExec
  <2> QED BY <1>4, <1>12, <2>1 DEF HandleExec
<1>13. ASSUME NEW id \in OpId, HandleRecv(id) PROVE PartsOK
  <2>1. ChannelsOK'
    BY <1>13 DEF HandleRecv, ChannelsOK
  <2> QED BY <1>3, <1>13, <2>1 DEF HandleRecv, ResumeResp
<1>14. CASE LoopExit
  <2> USE <1>14 DEF LoopExit
  <2>1. ChannelsOK' /\ LuaOK' /\ pc["loop"] = "idle" /\ pc'["loop"] = "end"
        /\ \A t \in Thread : t # "loop" => pc'[t] = pc[t]
    BY DEF ChannelsOK, LuaOK, LoopIdle, Thread, Goroutine
  <2>2. Cardinality(workers) \in Nat
    BY FS_CardinalityType DEF WaitInv
  <2>3. WaitInv' /\ wg' \in Nat
    BY <2>1, <2>2 DEF WaitInv, Waited, Thread, OpsOK
  <2>4. OpsOK'
    BY <2>3 DEF OpsOK
  <2>5. GoroutineInv'
    BY <2>1 DEF GoroutineInv, LoopIdle, Goroutine, Thread
  <2> QED BY <2>1, <2>3, <2>4, <2>5
<1>15. CASE MainFailed
  <2> USE <1>15 DEF MainFailed
  <2>1. ChannelsOK' /\ LuaOK' /\ pc["loop"] = "idle" /\ pc'["loop"] = "end"
        /\ \A t \in Thread : t # "loop" => pc'[t] = pc[t]
    BY DEF ChannelsOK, LuaOK, Thread, Goroutine
  <2>2. Cardinality(workers) \in Nat
    BY FS_CardinalityType DEF WaitInv
  <2>3. ~Transport
    BY DEF GoroutineInv
  <2>4. WaitInv' /\ wg' \in Nat
    BY <2>1, <2>2, <2>3 DEF WaitInv, Waited, Thread, OpsOK
  <2>5. OpsOK'
    BY <2>4 DEF OpsOK
  <2>6. GoroutineInv'
    BY <2>1 DEF GoroutineInv, Goroutine, Thread
  <2> QED BY <2>1, <2>4, <2>5, <2>6
<1> QED BY <1>6, <1>7, <1>8, <1>9, <1>10, <1>11, <1>12, <1>13, <1>14, <1>15 DEF LoopStep

(* Every step keeps the types and the count of the WaitGroup. *)
LEMMA TypeStep == TypeInv /\ [Next]_vars => TypeInv'
<1> SUFFICES ASSUME TypeInv, [Next]_vars PROVE TypeInv'
  OBVIOUS
<1> USE TypeParts, OpsAssumption
<1> DEFINE PartsOK == ChannelsOK' /\ OpsOK' /\ LuaOK' /\ GoroutineInv' /\ WaitInv'
<1>0. ASSUME PartsOK PROVE TypeInv'
  BY <1>0, PrimedParts DEF TypeInv
<1>1. ASSUME NEW g \in Goroutine, RunStep(g) PROVE TypeInv'
  BY <1>1, RunTypes
<1>2. CASE LoopStep
  BY <1>2, LoopTypes
<1> USE DEF TypeInv
<1>u. ASSUME UNCHANGED <<co, pc, cur, origin, caller, posting, sends, op, workers, wg>>
      PROVE  LuaOK' /\ GoroutineInv' /\ WaitInv'
  <2>1. LuaOK' BY <1>u DEF LuaOK
  <2>2. GoroutineInv' BY <1>u DEF GoroutineInv
  <2>3. WaitInv' BY <1>u DEF WaitInv, Waited
  <2> QED BY <2>1, <2>2, <2>3
<1>3. ASSUME NEW c \in Coro, PostEvent(c) PROVE PartsOK
  <2> USE <1>3 DEF PostEvent
  <2>1. ChannelsOK'
    BY InboxAppend, MsgTypes DEF ChannelsOK
  <2>2. LuaOK'
    BY DEF LuaOK, CoState
  <2> QED BY <2>1, <2>2 DEF OpsOK, GoroutineInv, WaitInv, Waited
<1>4. ASSUME NEW id \in OpId, WorkerDone(id) PROVE PartsOK
  <2> USE <1>4 DEF WorkerDone
  <2>1. ChannelsOK'
    <3>1. CASE UNCHANGED inbox
      BY <3>1 DEF ChannelsOK
    <3>2. CASE Len(inbox) < InboxCap /\ inbox' = Append(inbox, Msg("done", id))
      BY <3>2, InboxAppend, MsgTypes DEF ChannelsOK
    <3> QED BY <3>1, <3>2
  <2>2. /\ IsFiniteSet(workers') /\ Cardinality(workers') = Cardinality(workers) - 1
        /\ Cardinality(workers') \in Nat /\ Cardinality(workers) \in Nat
    BY FS_RemoveElement, FS_CardinalityType DEF WaitInv
  <2>3. WaitInv' /\ wg' \in Nat
    BY <2>2 DEF WaitInv, Waited
  <2>4. OpsOK'
    BY <2>3 DEF OpsOK
  <2> QED BY <2>1, <2>3, <2>4 DEF LuaOK, GoroutineInv
<1>5. ASSUME NEW id \in OpId, Answer(id) PROVE PartsOK
  <2> USE <1>5 DEF Answer
  <2>1. ChannelsOK'
    <3>1. CASE Transport
      BY <3>1 DEF ChannelsOK
    <3>2. CASE ~Transport
      BY <3>2, InboxAppend, MsgTypes DEF ChannelsOK, PostResp
    <3> QED BY <3>1, <3>2
  <2> QED BY <1>u, <2>1 DEF OpsOK
<1>6. ASSUME Pump PROVE PartsOK
  <2> USE <1>6 DEF Pump
  <2> DEFINE T == [typ : {"note"}] \cup [typ : {"ask"}, id : OpId]
  <2>1. outbox \in Seq(T) /\ Len(outbox) <= OutboxCap
    BY DEF ChannelsOK
  <2>2. \A m \in T : m.typ = "ask" => m.id \in OpId
    OBVIOUS
  <2> HIDE DEF T
  <2>3. Head(outbox) \in T /\ outbox' \in Seq(T) /\ Len(outbox') <= OutboxCap
    BY <2>1
  <2>4. shown' \subseteq OpId
    BY <2>2, <2>3 DEF ChannelsOK
  <2>5. ChannelsOK'
    BY <2>3, <2>4 DEF ChannelsOK, T
  <2> QED BY <1>u, <2>5 DEF OpsOK
<1>7. ASSUME CloseBegin PROVE PartsOK
  <2>1. ChannelsOK' BY <1>7 DEF CloseBegin, ChannelsOK
  <2>2. OpsOK' BY <1>7 DEF CloseBegin, OpsOK
  <2> QED BY <1>u, <1>7, <2>1, <2>2 DEF CloseBegin
<1>8. ASSUME WatchExit PROVE PartsOK
  <2> USE <1>8 DEF WatchExit
  <2>1. ChannelsOK' /\ LuaOK' /\ pc["watch"] = "idle" /\ pc'["watch"] = "end"
        /\ \A t \in Thread : t # "watch" => pc'[t] = pc[t]
    BY DEF ChannelsOK, LuaOK, Thread
  <2>2. Cardinality(workers) \in Nat
    BY FS_CardinalityType DEF WaitInv
  <2>3. Transport
    BY DEF GoroutineInv
  <2>4. WaitInv' /\ wg' \in Nat
    BY <2>1, <2>2, <2>3 DEF WaitInv, Waited, Thread, OpsOK
  <2>5. OpsOK'
    BY <2>4 DEF OpsOK
  <2>6. GoroutineInv'
    BY <2>1, <2>3 DEF GoroutineInv, Goroutine, Thread
  <2> QED BY <2>1, <2>4, <2>5, <2>6
<1>9. ASSUME CloseEnd PROVE PartsOK
  <2>1. ChannelsOK' BY <1>9 DEF CloseEnd, ChannelsOK
  <2>2. OpsOK' BY <1>9 DEF CloseEnd, OpsOK
  <2> QED BY <1>u, <1>9, <2>1, <2>2 DEF CloseEnd
<1>10. ASSUME UNCHANGED vars PROVE PartsOK
  <2>1. ChannelsOK' BY <1>10 DEF vars, ChannelsOK
  <2>2. OpsOK' BY <1>10 DEF vars, OpsOK
  <2> QED BY <1>u, <1>10, <2>1, <2>2 DEF vars
<1> HIDE DEF TypeInv
<1> QED
  BY <1>0, <1>1, <1>2, <1>3, <1>4, <1>5, <1>6, <1>7, <1>8, <1>9, <1>10 DEF Next

(* Every channel stays within the capacity it is made with, every variable keeps its
   type, and the WaitGroup counter never goes below zero. *)
THEOREM TypeCorrect == Spec => []TypeOK
<1>1. TypeInv => TypeOK
  BY DEF TypeInv
<1> QED BY <1>1, TypeInit, TypeStep, PTL DEF Spec

-----------------------------------------------------------------------------
(* Close.  In the desktop deployment wg.Wait() waits for the goroutine     *)
(* that runs main() and then the loop, and for every worker.               *)

CloseInv == stage = "closed" => workers = {} /\ pc["loop"] = "end"

LEMMA RunsInLua ==
    ASSUME NEW g \in Goroutine, RunStep(g)
    PROVE  pc[g] \in {"run", "post", "yield", "send"}
  BY DEF RunStep, RequestAsync, RequestSelf, RequestBrowser, AskPage, Register, PostSelf,
         Yield, Finish, Raise, BlockingSend

LEMMA LoopWasIdle == LoopStep => pc["loop"] = "idle"
  BY DEF LoopStep, HandleEvent, HandleDone, HandleExecInline, HandleGrid, HandleGridSel,
         HandleGridResp, HandleExec, HandleRecv, LoopExit, MainFailed, Receive, LoopIdle

(* The step after which the session is closed finds no worker and no loop; after it
   no goroutine of the session moves. *)
LEMMA CloseStep ==
    ASSUME ~Transport, TypeInv, CloseInv, [Next]_vars
    PROVE  CloseInv'
<1> USE DEF CloseInv
<1>1. CASE stage = "closed"
  <2>1. pc["loop"] = "end" /\ pc["main"] \in {"end", "dead"} /\ pc["watch"] = "end"
    BY <1>1 DEF TypeInv, GoroutineInv
  <2>2. ~LoopStep /\ \A g \in Goroutine : ~RunStep(g)
    BY <2>1, RunsInLua, LoopWasIdle DEF Goroutine
  <2>3. UNCHANGED <<pc, workers>>
    BY <1>1, <2>1, <2>2 DEF Next, vars, PostEvent, WorkerDone, Answer, Pump, CloseBegin,
                            WatchExit, CloseEnd
  <2> QED BY <1>1, <2>3
<1>2. CASE stage # "closed" /\ stage' = "closed"
  <2>1. CloseEnd
    BY <1>2 DEF Next, vars, RunStep, RequestAsync, RequestSelf, RequestBrowser, PostSelf,
                Yield, Finish, Raise, BlockingSend, LoopStep, HandleEvent, HandleDone,
                HandleExecInline, HandleGrid, HandleGridSel, HandleGridResp, HandleExec,
                HandleRecv, LoopExit, MainFailed, PostEvent, WorkerDone, Answer, Pump,
                CloseBegin, WatchExit
  <2>2. wg = 0 /\ UNCHANGED <<pc, workers>>
    BY <2>1 DEF CloseEnd
  <2>3. IsFiniteSet(workers) /\ Cardinality(workers) \in Nat
    BY FS_CardinalityType DEF TypeInv, WaitInv
  <2>4. Cardinality(workers) = 0 /\ pc["loop"] = "end"
    BY <2>2, <2>3 DEF TypeInv, WaitInv, Waited
  <2> QED BY <2>2, <2>3, <2>4, FS_EmptySet
<1> QED BY <1>1, <1>2

(* Desktop deployment: when Close closes the inbox and the LState, no goroutine of the
   session is inside Lua and no worker is left that would post to the inbox. *)
THEOREM CloseCorrect == ASSUME ~Transport PROVE Spec => []NoUseAfterClose
<1>1. Init => CloseInv
  BY DEF Init, CloseInv
<1>2. TypeInv /\ CloseInv => NoUseAfterClose
  BY DEF TypeInv, CloseInv, GoroutineInv, NoUseAfterClose, InLua, Goroutine
<1>3. TypeInv /\ CloseInv /\ [Next]_vars => CloseInv'
  BY CloseStep
<1> QED BY <1>1, <1>2, <1>3, TypeInit, TypeStep, PTL DEF Spec

-----------------------------------------------------------------------------
(* Operations.  A goroutine that posts a grid response runs no coroutine.  *)

RunsLua(g) == \/ pc[g] \in {"run", "yield"}
              \/ pc[g] = "post" /\ posting[g][1].typ # "gridResp"

\* A coroutine is run by one goroutine at a time.
LuaInv ==
    /\ \A g \in Goroutine : RunsLua(g) => co[cur[g]] = "running"
    /\ \A g, h \in Goroutine : RunsLua(g) /\ RunsLua(h) /\ cur[g] = cur[h] => g = h
    /\ \A g \in Goroutine : caller[g] # <<>> => RunsLua(g) /\ caller[g][1] \in ops

\* The messages in the inbox, and the kind of operation each can be about.
Queued == {inbox[i] : i \in DOMAIN inbox}

RightKind(m) ==
    /\ m.typ = "exec" => m.id.kind = "exec"
    /\ m.typ \in {"grid", "gridResp"} => m.id.kind = "grid"
    /\ m.typ = "gridSel" => m.id.kind = "gridSel"
    /\ m.typ = "done" => m.id.kind \in {"async", "sleep", "browser"}

KindInv ==
    /\ \A m \in Queued : RightKind(m)
    /\ \A g \in Goroutine : posting[g] # <<>> =>
           posting[g][1].typ \notin {"event", "done"} /\ RightKind(posting[g][1])
    /\ \A i \in DOMAIN outbox : outbox[i].typ = "ask" => outbox[i].id.kind = "browser"
    /\ \A id \in recv \cup shown : id.kind = "browser"
    /\ \A id \in workers : id.kind \in {"async", "sleep"}
    /\ \A g \in Goroutine : caller[g] # <<>> => caller[g][1].kind = "exec"

\* No two copies of the request of a k.exec, or of the event that starts a
\* coroutine, are in the inbox.
OnceInv == \A i, j \in DOMAIN inbox :
               inbox[i].typ \in {"event", "exec"} /\ inbox[i] = inbox[j] => i = j

\* The request of a k.exec is on its way to the inbox, in it, or held as the
\* caller to be resumed; as long as it is, its operation is registered.
TokenInv ==
    /\ \A m \in Queued : m.typ = "event" => co[m.co] = "queued"
    /\ \A m \in Queued : m.typ = "exec" =>
           m.id \in ops /\ \A g \in Goroutine : posting[g] # <<m>> /\ caller[g] # <<m.id>>
    /\ \A g \in Goroutine : posting[g] # <<>> /\ posting[g][1].typ = "exec" =>
           /\ posting[g][1].id \in ops /\ posting[g][1].id.co = cur[g]
           /\ \A h \in Goroutine : caller[h] # <<posting[g][1].id>>

\* OpsMatch, with the goroutine that is about to yield running the coroutine.
RegisteredInv ==
    \A id \in ops :
        /\ op[id.co] = id
        /\ \/ co[id.co] = "waiting"
           \/ /\ co[id.co] = "running"
              /\ \E g \in Goroutine : cur[g] = id.co /\ RunsLua(g) /\ pc[g] # "run"

OpsInv == LuaInv /\ KindInv /\ OnceInv /\ TokenInv /\ RegisteredInv

LEMMA QueuedType == ASSUME ChannelsOK PROVE Queued \subseteq MsgType
  BY DEF Queued, ChannelsOK

LEMMA QueueTail ==
    ASSUME ChannelsOK, OnceInv, inbox # <<>>, inbox' = Tail(inbox)
    PROVE  /\ Head(inbox) \in Queued /\ Queued' \subseteq Queued /\ OnceInv'
           /\ Head(inbox).typ \in {"event", "exec"} => Head(inbox) \notin Queued'
           /\ \A m \in Queued : m \in Queued' \/ m = Head(inbox)
<1>1. /\ Head(inbox) = inbox[1] /\ 1 \in DOMAIN inbox
      /\ \A i \in DOMAIN inbox' : i + 1 \in DOMAIN inbox /\ inbox'[i] = inbox[i + 1] /\ i \in Nat \ {0}
      /\ \A i \in DOMAIN inbox : i # 1 => i - 1 \in DOMAIN inbox' /\ i \in Nat /\ (i - 1) + 1 = i
  BY DEF ChannelsOK
<1>2. Head(inbox) \in Queued /\ Queued' \subseteq Queued
  BY <1>1 DEF Queued
<1>3. OnceInv'
  BY <1>1 DEF OnceInv
<1>4. ASSUME Head(inbox).typ \in {"event", "exec"}, Head(inbox) \in Queued' PROVE FALSE
  <2>1. PICK i \in DOMAIN inbox' : inbox'[i] = inbox[1]
    BY <1>1, <1>4 DEF Queued
  <2>2. i + 1 \in DOMAIN inbox /\ inbox[i + 1] = inbox[1] /\ i + 1 # 1
    BY <1>1, <2>1
  <2> QED BY <1>1, <1>4, <2>2 DEF OnceInv
<1>5. ASSUME NEW m \in Queued, m # Head(inbox) PROVE m \in Queued'
  <2>1. PICK i \in DOMAIN inbox : inbox[i] = m
    BY DEF Queued
  <2>2. i - 1 \in DOMAIN inbox' /\ inbox'[i - 1] = m
    BY <1>1, <1>5, <2>1
  <2> QED BY <2>2 DEF Queued
<1> QED BY <1>2, <1>3, <1>4, <1>5

LEMMA QueueAppend ==
    ASSUME ChannelsOK, OnceInv, NEW m \in MsgType, Len(inbox) < InboxCap,
           inbox' = Append(inbox, m), m.typ \in {"event", "exec"} => m \notin Queued
    PROVE  Queued' = Queued \cup {m} /\ OnceInv'
<1>1. /\ DOMAIN inbox' = DOMAIN inbox \cup {Len(inbox) + 1} /\ inbox'[Len(inbox) + 1] = m
      /\ \A i \in DOMAIN inbox : inbox'[i] = inbox[i] /\ i # Len(inbox) + 1
  BY InboxAppend
<1>2. Queued' = Queued \cup {m}
  BY <1>1 DEF Queued
<1>3. OnceInv'
  BY <1>1 DEF OnceInv, Queued
<1> QED BY <1>2, <1>3

(* A goroutine that is running, not suspending, has no operation registered for its
   coroutine: the next one is fresh. *)
LEMMA RunningHasNoOp ==
    ASSUME OpsInv, NEW g \in Goroutine, pc[g] = "run", NEW id \in ops
    PROVE  id.co # cur[g]
  BY DEF OpsInv, RegisteredInv, LuaInv, RunsLua

(* cs is co, except that the coroutine a goroutine was running has stopped. *)
Stopped(g, cs) ==
    /\ \A c \in Coro : ~RunsLua(g) \/ c # cur[g] => cs[c] = co[c]
    /\ RunsLua(g) => /\ cs[cur[g]] \in {"waiting", "ended", "failed"}
                     /\ pc[g] = "yield" <=> cs[cur[g]] = "waiting"

LEMMA ResumeOps ==
    ASSUME TypeInv, OpsInv, NEW id \in ops, NEW from, NEW cs \in [Coro -> CoState],
           Resume("loop", id, from, cs), Stopped("loop", cs), pc["loop"] # "post",
           UNCHANGED <<op, posting>>, Queued' \subseteq Queued, OnceInv', KindInv',
           \A m \in Queued' : m.typ = "exec" => m.id # id,
           \A h \in Goroutine : posting[h] # <<>> /\ posting[h][1].typ = "exec" =>
               posting[h][1].id # id
    PROVE  OpsInv'
<1> USE TypeParts DEF TypeInv, Goroutine
<1>1. /\ ops' = ops \ {id} /\ caller'["loop"] = <<>> /\ caller'["main"] = <<>>
      /\ posting["loop"] = <<>> /\ pc'["main"] = pc["main"] /\ cur'["main"] = cur["main"]
      /\ pc'["loop"] \in {"run", "send", "idle"} /\ id \in OpId /\ id.co \in Coro
  BY DEF Resume, LuaOK, OpsOK, GoroutineInv, Thread, OpId
<1>2. RunsLua("main")' <=> RunsLua("main")
  BY <1>1 DEF RunsLua
<1>3. RunsLua("loop")' <=> pc'["loop"] = "run"
  BY <1>1 DEF RunsLua
<1>4. /\ pc'["loop"] = "run" => /\ cs[id.co] = "waiting" /\ cur'["loop"] = id.co
                                /\ co' = [cs EXCEPT ![id.co] = "running"]
      /\ pc'["loop"] # "run" => co' = cs
  BY <1>1 DEF Resume, LuaOK, Thread
<1>5. /\ \A c \in Coro : co[c] = "queued" => co'[c] = "queued"
      /\ \A c \in Coro : c # id.co => co'[c] = cs[c]
      /\ pc'["loop"] = "run" => co'[id.co] = "running"
  <2>1. ASSUME NEW c \in Coro, co[c] = "queued" PROVE cs[c] = "queued"
    BY <2>1 DEF Stopped, OpsInv, LuaInv
  <2> QED BY <1>1, <1>4, <2>1
<1>6. RunsLua("main") => cur["main"] # id.co \/ cs[id.co] # "waiting"
  BY <1>1 DEF Stopped, OpsInv, LuaInv
<1>7. RunsLua("main") => co'[cur["main"]] = "running"
  <2>1. RunsLua("main") => cs[cur["main"]] = "running"
    BY DEF Stopped, OpsInv, LuaInv, LuaOK
  <2> QED BY <1>1, <1>4, <1>5, <1>6, <2>1 DEF LuaOK
<1>8. LuaInv'
  BY <1>1, <1>2, <1>3, <1>4, <1>5, <1>6, <1>7 DEF LuaInv
<1>9. TokenInv'
  <2>1. \A m \in Queued' : m.typ = "event" => m.co \in Coro
    BY MsgTypes, QueuedType
  <2>2. \A m \in Queued' : m.typ = "event" => co'[m.co] = "queued"
    BY <1>5, <2>1 DEF OpsInv, TokenInv
  <2>3. ASSUME NEW m \in Queued', m.typ = "exec"
        PROVE  /\ m.id \in ops'
               /\ \A g \in Goroutine : posting'[g] # <<m>> /\ caller'[g] # <<m.id>>
    <3>1. m \in Queued /\ m.id # id
      BY <2>3
    <3>2. m.id \in ops /\ \A g \in Goroutine : posting[g] # <<m>>
      BY <2>3, <3>1 DEF OpsInv, TokenInv
    <3>3. \A g \in Goroutine : caller'[g] = <<>>
      BY <1>1
    <3>4. <<>> # <<m.id>> /\ posting' = posting
      OBVIOUS
    <3> QED BY <1>1, <3>1, <3>2, <3>3, <3>4
  <2>4. \A g \in Goroutine : posting[g] # <<>> /\ posting[g][1].typ = "exec" =>
            /\ posting[g][1].id \in ops' /\ posting[g][1].id.co = cur'[g]
            /\ \A h \in Goroutine : caller'[h] # <<posting[g][1].id>>
    BY <1>1 DEF OpsInv, TokenInv
  <2> QED BY <2>2, <2>3, <2>4 DEF TokenInv
<1>10. ASSUME NEW i \in ops'
       PROVE  /\ op'[i.co] = i
              /\ \/ co'[i.co] = "waiting"
                 \/ /\ co'[i.co] = "running"
                    /\ \E g \in Goroutine : cur'[g] = i.co /\ RunsLua(g)' /\ pc'[g] # "run"
  <2>1. i \in ops /\ i # id /\ i.co \in Coro /\ op[i.co] = i /\ i.co # id.co
    BY <1>1 DEF OpsOK, OpId, OpsInv, RegisteredInv
  <2>2. co'[i.co] = cs[i.co]
    BY <1>5, <2>1
  <2>3. CASE RunsLua("loop") /\ cur["loop"] = i.co
    <3>1. pc["loop"] # "run"
      BY <2>1, <2>3, RunningHasNoOp
    <3>2. pc["loop"] = "yield"
      BY <2>3, <3>1 DEF RunsLua
    <3> QED BY <2>1, <2>2, <2>3, <3>2 DEF Stopped
  <2>4. CASE ~(RunsLua("loop") /\ cur["loop"] = i.co)
    <3>1. cs[i.co] = co[i.co]
      BY <2>1, <2>4 DEF Stopped
    <3>2. CASE co[i.co] = "waiting"
      BY <2>1, <2>2, <3>1, <3>2
    <3>3. CASE co[i.co] # "waiting"
      <4>1. co[i.co] = "running" /\ cur["main"] = i.co /\ RunsLua("main") /\ pc["main"] # "run"
        BY <2>1, <2>4, <3>3 DEF OpsInv, RegisteredInv
      <4> QED BY <1>1, <1>2, <2>1, <2>2, <3>1, <4>1
    <3> QED BY <3>2, <3>3
  <2> QED BY <2>3, <2>4
<1>11. RegisteredInv'
  BY <1>10 DEF RegisteredInv
<1> QED BY <1>8, <1>9, <1>11 DEF OpsInv

LEMMA StopOps ==
    ASSUME TypeInv, OpsInv, NEW g \in Goroutine, NEW n \in 0..2,
           NEW st \in {"waiting", "ended", "failed"}, Stopping(g, st, n)
    PROVE  OpsInv'
<1> USE TypeParts DEF TypeInv
<1> DEFINE cs == [co EXCEPT ![cur[g]] = st]
<1>1. /\ Stop(g, cs, n) /\ pc[g] = IF st = "waiting" THEN "yield" ELSE "run"
      /\ outbox' = outbox \/ SendOutbox(Note)
      /\ UNCHANGED <<inbox, recv, shown, op, posting, workers>>
  BY Zenon DEF Stopping
<1>2. cs \in [Coro -> CoState] /\ RunsLua(g) /\ posting[g] = <<>> /\ pc[g] # "post"
  BY <1>1 DEF LuaOK, CoState, RunsLua, GoroutineInv
<1>3. Stopped(g, cs)
  BY <1>1, <1>2 DEF Stopped, LuaOK
<1>4. /\ cs[cur[g]] = st
      /\ \A c \in Coro : c # cur[g] => cs[c] = co[c]
  BY DEF LuaOK
<1> HIDE DEF cs
<1>5. \A i \in DOMAIN outbox' : outbox'[i].typ = "ask" => outbox'[i].id.kind = "browser"
  <2>1. CASE outbox' = outbox
    BY <2>1 DEF OpsInv, KindInv
  <2>2. CASE SendOutbox(Note) /\ outbox' # outbox
    <3>1. outbox' = Append(outbox, Note) /\ outbox \in Seq([typ : {"note"}] \cup [typ : {"ask"}, id : OpId])
      BY <2>2 DEF SendOutbox, ChannelsOK
    <3>2. Note.typ # "ask"
      BY DEF Note
    <3> QED BY <3>1, <3>2 DEF OpsInv, KindInv
  <2> QED BY <1>1, <2>1, <2>2
<1>6. Queued' = Queued /\ OnceInv'
  BY <1>1 DEF Queued, OpsInv, OnceInv
<1>7. ASSUME \A h \in Goroutine : caller'[h] = caller[h] \/ caller'[h] = <<>>
      PROVE  KindInv'
  BY <1>1, <1>5, <1>6, <1>7 DEF OpsInv, KindInv
<1>8. CASE caller[g] # <<>>
  <2>1. g = "loop" /\ \A h \in Goroutine : caller[h] # <<>> => h = g
    BY <1>8 DEF GoroutineInv, Goroutine
  <2> DEFINE id == Head(caller[g])
  <2>2. Resume("loop", id, "resp", cs)
    BY <1>1, <1>8, <2>1 DEF Stop
  <2>3. id \in ops /\ caller[g] = <<id>>
    BY <1>8 DEF OpsInv, LuaInv, LuaOK
  <2> HIDE DEF id
  <2>4. KindInv'
    BY <1>7, <2>2 DEF Resume, LuaOK
  <2>5. \A m \in Queued' : m.typ = "exec" => m.id # id
    BY <1>6, <2>3 DEF OpsInv, TokenInv
  <2>6. \A h \in Goroutine : posting[h] # <<>> /\ posting[h][1].typ = "exec" =>
            posting[h][1].id # id
    BY <2>3 DEF OpsInv, TokenInv
  <2> QED BY <1>1, <1>2, <1>3, <1>6, <2>1, <2>2, <2>3, <2>4, <2>5, <2>6, ResumeOps
<1>9. CASE caller[g] = <<>>
  <2>1. /\ co' = cs /\ UNCHANGED <<ops, cur, caller>> /\ pc'[g] \notin {"run", "yield", "post"}
        /\ \A h \in Goroutine : h # g => pc'[h] = pc[h]
    BY <1>1, <1>9 DEF Stop, LuaOK, Thread
  <2>2. KindInv'
    BY <1>7, <2>1
  <2>3. ~RunsLua(g)' /\ \A h \in Goroutine : h # g => (RunsLua(h)' <=> RunsLua(h))
    BY <1>1, <2>1 DEF RunsLua
  <2>4. LuaInv'
    BY <1>2, <1>4, <1>9, <2>1, <2>3 DEF OpsInv, LuaInv, LuaOK
  <2>5. TokenInv'
    <3>1. \A m \in Queued : m.typ = "event" => m.co \in Coro
      BY MsgTypes, QueuedType
    <3>2. co[cur[g]] = "running"
      BY <1>2 DEF OpsInv, LuaInv
    <3> QED BY <1>1, <1>4, <1>6, <2>1, <3>1, <3>2 DEF OpsInv, TokenInv
  <2>6. ASSUME NEW i \in ops
        PROVE  /\ op'[i.co] = i
               /\ \/ co'[i.co] = "waiting"
                  \/ /\ co'[i.co] = "running"
                     /\ \E h \in Goroutine : cur'[h] = i.co /\ RunsLua(h)' /\ pc'[h] # "run"
    <3>1. op[i.co] = i /\ i.co \in Coro
      BY DEF OpsInv, RegisteredInv, OpsOK, OpId
    <3>2. CASE i.co = cur[g]
      <4>1. pc[g] = "yield"
        BY <1>1, <3>2, RunningHasNoOp
      <4> QED BY <1>1, <1>4, <2>1, <3>1, <3>2, <4>1
    <3>3. CASE i.co # cur[g]
      <4>1. co'[i.co] = co[i.co]
        BY <1>4, <2>1, <3>1, <3>3
      <4> QED BY <1>1, <2>1, <2>3, <3>1, <3>3, <4>1 DEF OpsInv, RegisteredInv
    <3> QED BY <3>2, <3>3
  <2>7. RegisteredInv'
    BY <2>1, <2>6 DEF RegisteredInv
  <2> QED BY <1>6, <2>2, <2>4, <2>5, <2>7 DEF OpsInv
<1> QED BY <1>8, <1>9

(* Nothing the Lua side sees moves, and the inbox gets at most a completion. *)
LEMMA QuietOps ==
    ASSUME TypeInv, OpsInv, KindInv', OnceInv', UNCHANGED <<ops, op, co, cur, caller, posting>>,
           \A g \in Goroutine : \/ pc'[g] = pc[g]
                                \/ ~RunsLua(g) /\ pc'[g] \notin {"run", "yield", "post"},
           \A m \in Queued' : m \in Queued \/ m.typ \notin {"event", "exec"}
    PROVE  OpsInv'
<1>1. \A g \in Goroutine : /\ RunsLua(g)' <=> RunsLua(g)
                           /\ RunsLua(g) => pc'[g] = pc[g]
  BY DEF RunsLua
<1>2. LuaInv'
  BY <1>1 DEF OpsInv, LuaInv
<1>3. TokenInv'
  BY DEF OpsInv, TokenInv
<1>4. RegisteredInv'
  BY <1>1 DEF OpsInv, RegisteredInv
<1> QED BY <1>2, <1>3, <1>4 DEF OpsInv

LEMMA OutboxKinds ==
    ASSUME ChannelsOK, KindInv, NEW m, m = Note \/ (\E id \in OpId : m = Msg("ask", id) /\ id.kind = "browser"),
           outbox' = Append(outbox, m) \/ outbox' = outbox
    PROVE  \A i \in DOMAIN outbox' : outbox'[i].typ = "ask" => outbox'[i].id.kind = "browser"
<1>1. m.typ = "ask" => m.id.kind = "browser"
  BY DEF Note, Msg
<1>2. CASE outbox' = Append(outbox, m)
  <2>1. outbox \in Seq([typ : {"note"}] \cup [typ : {"ask"}, id : OpId])
    BY DEF ChannelsOK
  <2>2. \A i \in DOMAIN outbox' : \/ i \in DOMAIN outbox /\ outbox'[i] = outbox[i]
                                  \/ outbox'[i] = m
    BY <1>2, <2>1
  <2> QED BY <1>1, <2>2 DEF KindInv
<1> QED BY <1>2 DEF KindInv

(* A coroutine registers a fresh operation and suspends on it. *)
LEMMA RegisterOps ==
    ASSUME TypeInv, OpsInv, NEW g \in Goroutine, NEW k \in Kinds, Register(g, k),
           NEW s \in {"yield", "post"}, pc' = [pc EXCEPT ![g] = s],
           s = "yield" => posting' = posting,
           s = "post" => /\ k \in {"exec", "grid", "gridSel"}
                         /\ posting' = [posting EXCEPT ![g] = <<Msg(k, Fresh(g, k))>>],
           UNCHANGED <<inbox, co, cur, caller>>, KindInv'
    PROVE  OpsInv'
<1> USE TypeParts DEF TypeInv
<1> DEFINE id == Fresh(g, k)
<1>1. /\ pc[g] = "run" /\ ops' = ops \cup {id} /\ op' = [op EXCEPT ![cur[g]] = id]
      /\ op[cur[g]].n < MaxOps
  BY DEF Register
<1>2. id \in OpId /\ cur[g] \in Coro /\ id.co = cur[g]
  BY <1>1, FreshType
<1> HIDE DEF id
<1>3. \A i \in ops : i.co # cur[g] /\ i # id /\ i.co \in Coro
  BY <1>1, <1>2, RunningHasNoOp DEF OpsOK, OpId
<1>4. /\ pc'[g] = s /\ \A h \in Goroutine : h # g => pc'[h] = pc[h] /\ posting'[h] = posting[h]
      /\ s = "post" => posting'[g] = <<Msg(k, id)>>
      /\ s = "yield" => posting'[g] = <<>>
  BY <1>1 DEF LuaOK, Thread, id, GoroutineInv
<1>5. s = "post" => posting'[g][1].typ = k /\ posting'[g][1].id = id
  BY <1>4 DEF Msg
<1>6. RunsLua(g) /\ RunsLua(g)' /\ \A h \in Goroutine : h # g => (RunsLua(h)' <=> RunsLua(h))
  BY <1>1, <1>4, <1>5 DEF RunsLua
<1>7. LuaInv'
  BY <1>1, <1>6 DEF OpsInv, LuaInv
<1>8. Queued' = Queued /\ OnceInv'
  BY DEF Queued, OpsInv, OnceInv
<1>9. TokenInv'
  <2>1. \A m \in Queued : m.typ = "event" => co[m.co] = "queued"
    BY DEF OpsInv, TokenInv
  <2>2. ASSUME NEW m \in Queued, m.typ = "exec"
        PROVE  m.id \in ops' /\ \A h \in Goroutine : posting'[h] # <<m>> /\ caller[h] # <<m.id>>
    <3>1. m.id \in ops /\ \A h \in Goroutine : posting[h] # <<m>> /\ caller[h] # <<m.id>>
      BY <2>2 DEF OpsInv, TokenInv
    <3>2. posting'[g] # <<m>>
      <4>1. CASE s = "yield"
        BY <1>4, <4>1
      <4>2. CASE s = "post"
        <5>1. posting'[g][1].id # m.id
          BY <1>3, <1>5, <3>1, <4>2
        <5> QED BY <5>1
      <4> QED BY <4>1, <4>2
    <3> QED BY <1>1, <1>4, <3>1, <3>2
  <2>3. ASSUME NEW h \in Goroutine, posting'[h] # <<>>, posting'[h][1].typ = "exec"
        PROVE  /\ posting'[h][1].id \in ops' /\ posting'[h][1].id.co = cur[h]
               /\ \A j \in Goroutine : caller[j] # <<posting'[h][1].id>>
    <3>1. CASE h = g
      <4>1. posting'[h][1].id = id
        BY <1>4, <1>5, <2>3, <3>1
      <4>2. ASSUME NEW j \in Goroutine, caller[j] = <<id>> PROVE FALSE
        BY <1>3, <4>2 DEF OpsInv, LuaInv
      <4> QED BY <1>1, <1>2, <3>1, <4>1, <4>2
    <3>2. CASE h # g
      BY <1>1, <1>4, <2>3, <3>2 DEF OpsInv, TokenInv
    <3> QED BY <3>1, <3>2
  <2> QED BY <1>8, <2>1, <2>2, <2>3 DEF TokenInv
<1>10. ASSUME NEW i \in ops'
       PROVE  /\ op'[i.co] = i
              /\ \/ co[i.co] = "waiting"
                 \/ /\ co[i.co] = "running"
                    /\ \E h \in Goroutine : cur[h] = i.co /\ RunsLua(h)' /\ pc'[h] # "run"
  <2>1. CASE i = id
    <3>1. op'[i.co] = i
      BY <1>1, <1>2, <2>1 DEF OpsOK
    <3>2. co[i.co] = "running"
      BY <1>2, <1>6, <2>1 DEF OpsInv, LuaInv
    <3> QED BY <1>2, <1>4, <1>6, <2>1, <3>1, <3>2
  <2>2. CASE i # id
    <3>1. i \in ops /\ i.co # cur[g] /\ i.co \in Coro
      BY <1>1, <1>3, <2>2
    <3>2. op'[i.co] = i
      BY <1>1, <3>1 DEF OpsInv, RegisteredInv, OpsOK
    <3> QED BY <1>4, <1>6, <3>1, <3>2 DEF OpsInv, RegisteredInv
  <2> QED BY <2>1, <2>2
<1>11. RegisteredInv'
  BY <1>10 DEF RegisteredInv
<1> QED BY <1>7, <1>8, <1>9, <1>11 DEF OpsInv

LEMMA RunOps == ASSUME TypeInv, OpsInv, NEW g \in Goroutine, RunStep(g) PROVE OpsInv'
<1> USE TypeParts, OpsAssumption DEF TypeInv
<1>q. ASSUME UNCHANGED inbox PROVE Queued' = Queued /\ OnceInv'
  BY <1>q DEF Queued, OpsInv, OnceInv
<1>1. ASSUME NEW k \in Kinds, RequestAsync(g, k) PROVE OpsInv'
  <2> USE <1>1 DEF RequestAsync
  <2>1. Fresh(g, k).kind = k
    BY FreshType DEF Register
  <2>2. KindInv'
    BY <1>q, <2>1 DEF OpsInv, KindInv
  <2> QED BY <2>2, RegisterOps
<1>2. ASSUME NEW k \in Kinds, RequestSelf(g, k) PROVE OpsInv'
  <2> USE <1>2 DEF RequestSelf
  <2>1. Fresh(g, k).kind = k
    BY FreshType DEF Register
  <2>2. RightKind(Msg(k, Fresh(g, k))) /\ Msg(k, Fresh(g, k)).typ = k
    BY <2>1 DEF RightKind, Msg
  <2>3. /\ posting'[g] = <<Msg(k, Fresh(g, k))>>
        /\ \A h \in Goroutine : h # g => posting'[h] = posting[h]
    BY DEF LuaOK
  <2>4. \A h \in Goroutine : posting'[h] # <<>> =>
           posting'[h][1].typ \notin {"event", "done"} /\ RightKind(posting'[h][1])
    BY <2>2, <2>3 DEF OpsInv, KindInv
  <2>5. KindInv'
    BY <1>q, <2>4 DEF OpsInv, KindInv
  <2> QED BY <2>5, RegisterOps
<1>3. CASE RequestBrowser(g)
  <2> USE <1>3 DEF RequestBrowser, AskPage
  <2>1. "browser" \in Kinds /\ Fresh(g, "browser").kind = "browser" /\ Fresh(g, "browser") \in OpId
    BY FreshType DEF Register
  <2>2. \A i \in DOMAIN outbox' : outbox'[i].typ = "ask" => outbox'[i].id.kind = "browser"
    BY <2>1, OutboxKinds DEF SendOutbox, OpsInv
  <2>3. KindInv'
    BY <1>q, <2>2 DEF OpsInv, KindInv
  <2> QED BY <2>1, <2>3, RegisterOps
<1>4. CASE PostSelf(g)
  <2> USE <1>4 DEF PostSelf
  <2> DEFINE m == posting[g][1]
  <2>1. /\ pc[g] = "post" /\ posting[g] # <<>> /\ m \in MsgType /\ posting[g] = <<m>>
        /\ Head(posting[g]) = m
    BY DEF GoroutineInv, LuaOK
  <2>2. m.typ \notin {"event", "done"} /\ RightKind(m)
    BY <2>1 DEF OpsInv, KindInv
  <2>3. m.typ = "exec" => m.id \in ops /\ m.id.co = cur[g] /\ RunsLua(g) /\ m \notin Queued
                          /\ \A h \in Goroutine : caller[h] # <<m.id>>
    BY <2>1 DEF OpsInv, TokenInv, RunsLua
  <2>4. /\ OnceInv' /\ Queued \subseteq Queued' /\ Queued' \subseteq Queued \cup {m}
    <3>1. CASE UNCHANGED inbox
      BY <1>q, <3>1
    <3>2. CASE Len(inbox) < InboxCap /\ inbox' = Append(inbox, m)
      BY <2>1, <2>2, <2>3, <3>2, QueueAppend DEF OpsInv
    <3> QED BY <2>1, <3>1, <3>2
  <2>5. /\ posting'[g] = <<>> /\ pc'[g] = IF m.typ = "gridResp" THEN "idle" ELSE "yield"
        /\ \A h \in Goroutine : h # g => posting'[h] = posting[h] /\ pc'[h] = pc[h]
    BY <2>1 DEF LuaOK, Thread
  <2>6. \A h \in Goroutine : (RunsLua(h)' <=> RunsLua(h)) /\ (pc'[h] = "run" <=> pc[h] = "run")
    BY <2>1, <2>5 DEF RunsLua
  <2>7. KindInv'
    BY <2>2, <2>4, <2>5 DEF OpsInv, KindInv
  <2>8. LuaInv' /\ RegisteredInv'
    BY <2>6 DEF OpsInv, LuaInv, RegisteredInv
  <2>9. TokenInv'
    <3>1. \A x \in Queued' : x.typ = "event" => co[x.co] = "queued"
      BY <2>2, <2>4 DEF OpsInv, TokenInv
    <3>2. ASSUME NEW x \in Queued', x.typ = "exec"
          PROVE  x.id \in ops /\ \A h \in Goroutine : posting'[h] # <<x>> /\ caller[h] # <<x.id>>
      <4>1. CASE x \in Queued
        <5>1. posting'[g] # <<x>>
          BY <2>5
        <5> QED BY <2>5, <3>2, <4>1, <5>1 DEF OpsInv, TokenInv
      <4>2. CASE x = m
        <5>1. ASSUME NEW h \in Goroutine, h # g, posting'[h] = <<x>> PROVE FALSE
          <6>1. posting[h] # <<>> /\ posting[h][1] = m /\ pc[h] = "post"
            BY <2>5, <4>2, <5>1 DEF GoroutineInv
          <6>2. RunsLua(h) /\ cur[h] = cur[g]
            BY <2>3, <3>2, <4>2, <6>1 DEF OpsInv, TokenInv, RunsLua
          <6> QED BY <2>3, <3>2, <4>2, <5>1, <6>2 DEF OpsInv, LuaInv
        <5>2. posting'[g] # <<x>>
          BY <2>5
        <5> QED BY <2>3, <3>2, <4>2, <5>1, <5>2
      <4> QED BY <2>4, <4>1, <4>2
    <3>3. \A h \in Goroutine : posting'[h] # <<>> /\ posting'[h][1].typ = "exec" =>
              /\ posting'[h][1].id \in ops /\ posting'[h][1].id.co = cur[h]
              /\ \A j \in Goroutine : caller[j] # <<posting'[h][1].id>>
      BY <2>5 DEF OpsInv, TokenInv
    <3> QED BY <3>1, <3>2, <3>3 DEF TokenInv
  <2> QED BY <2>4, <2>7, <2>8, <2>9 DEF OpsInv
<1>5. CASE Yield(g) \/ Finish(g) \/ Raise(g)
  BY <1>5, Stops, StopOps
<1>6. CASE BlockingSend(g)
  <2> USE <1>6 DEF BlockingSend
  <2>1. \A i \in DOMAIN outbox' : outbox'[i].typ = "ask" => outbox'[i].id.kind = "browser"
    BY OutboxKinds DEF OpsInv
  <2>2. KindInv'
    BY <1>q, <2>1 DEF OpsInv, KindInv
  <2>3. /\ ~RunsLua(g) /\ pc'[g] \notin {"run", "yield", "post"}
        /\ \A h \in Goroutine : h # g => pc'[h] = pc[h]
    BY DEF RunsLua, LuaOK, Thread
  <2>4. UNCHANGED <<ops, op, co, cur, caller, posting>> /\ Queued' = Queued /\ OnceInv'
    BY <1>q
  <2> HIDE <1>6
  <2> QED BY <2>2, <2>3, <2>4, QuietOps
<1> QED BY <1>1, <1>2, <1>3, <1>4, <1>5, <1>6 DEF RunStep

LEMMA LoopOps == ASSUME TypeInv, OpsInv, LoopStep PROVE OpsInv'
<1> USE TypeParts, OpsAssumption DEF TypeInv
<1>0. /\ pc["loop"] = "idle" /\ ~RunsLua("loop") /\ posting["loop"] = <<>>
      /\ \A g \in Goroutine : caller[g] = <<>>
  BY LoopWasIdle DEF RunsLua, GoroutineInv, OpsInv, LuaInv, Goroutine
<1>1. ASSUME NEW t, Receive(t)
      PROVE  /\ Head(inbox) \in Queued /\ Head(inbox) \in MsgType /\ Head(inbox).typ = t
             /\ Queued' \subseteq Queued /\ OnceInv'
             /\ t \in {"event", "exec"} => Head(inbox) \notin Queued'
  BY <1>1, QueueTail, InboxHead DEF Receive, OpsInv
<1>2. ASSUME Queued' \subseteq Queued, UNCHANGED <<posting, outbox, shown, workers>>,
             recv' \subseteq recv,
             \A g \in Goroutine : caller'[g] # <<>> => caller'[g][1].kind = "exec"
      PROVE  KindInv'
  BY <1>2 DEF OpsInv, KindInv
<1>3. ASSUME NEW id \in OpId, NEW from, ResumeOp(id, from), Queued' \subseteq Queued, OnceInv',
             UNCHANGED <<op, posting, outbox, shown, workers>>, recv' \subseteq recv,
             \A m \in Queued' : m.typ = "exec" => m.id # id,
             \A h \in Goroutine : posting[h] # <<>> /\ posting[h][1].typ = "exec" =>
                 posting[h][1].id # id
      PROVE  OpsInv'
  <2>1. CASE id \in ops
    <3>1. Resume("loop", id, from, co)
      BY <1>3, <2>1 DEF ResumeOp
    <3>2. co \in [Coro -> CoState] /\ Stopped("loop", co)
      BY <1>0 DEF LuaOK, Stopped
    <3>3. \A g \in Goroutine : caller'[g] = <<>>
      BY <1>0, <3>1 DEF Resume, LuaOK
    <3>4. KindInv'
      BY <1>2, <1>3, <3>3
    <3> QED BY <1>0, <1>3, <2>1, <3>1, <3>2, <3>4, ResumeOps
  <2>2. CASE id \notin ops
    <3>1. UNCHANGED <<ops, co, cur, caller, pc>>
      BY <1>3, <2>2 DEF ResumeOp
    <3>2. KindInv'
      BY <1>0, <1>2, <1>3, <3>1
    <3> QED BY <1>3, <3>1, <3>2, QuietOps
  <2> QED BY <2>1, <2>2
<1>4. ASSUME NEW c \in Coro, NEW from, Start(c, from), co[c] \in {"none", "queued"},
             UNCHANGED <<ops, op, posting, outbox, recv, shown, workers>>,
             Queued' \subseteq Queued, OnceInv',
             \A m \in Queued' : m.typ = "event" => m.co # c,
             \/ caller' = caller
             \/ \E id \in ops : /\ caller' = [caller EXCEPT !["loop"] = <<id>>]
                                /\ id.kind = "exec"
                                /\ \A m \in Queued' : m.typ = "exec" => m.id # id
                                /\ \A h \in Goroutine : posting[h] # <<>> /\ posting[h][1].typ = "exec" =>
                                       posting[h][1].id # id
      PROVE  OpsInv'
  <2>1. /\ co'[c] = "running" /\ \A d \in Coro : d # c => co'[d] = co[d]
        /\ cur'["loop"] = c /\ cur'["main"] = cur["main"]
        /\ pc'["loop"] = "run" /\ pc'["main"] = pc["main"]
    BY <1>4 DEF Start, LuaOK, Thread, Goroutine
  <2>2. /\ caller'["main"] = <<>>
        /\ caller'["loop"] # <<>> =>
             \E id \in ops : /\ caller'["loop"] = <<id>> /\ id.kind = "exec"
                             /\ \A m \in Queued' : m.typ = "exec" => m.id # id
                             /\ \A h \in Goroutine : posting[h] # <<>> /\ posting[h][1].typ = "exec" =>
                                    posting[h][1].id # id
    BY <1>0, <1>4 DEF LuaOK, Goroutine
  <2>c. ASSUME NEW x, caller'["loop"] = <<x>>
        PROVE  /\ \A m \in Queued' : m.typ = "exec" => m.id # x
               /\ \A h \in Goroutine : posting[h] # <<>> /\ posting[h][1].typ = "exec" =>
                      posting[h][1].id # x
    <3>1. caller'["loop"] # <<>>
      BY <2>c
    <3>2. PICK id \in ops : /\ caller'["loop"] = <<id>> /\ id.kind = "exec"
                            /\ \A m \in Queued' : m.typ = "exec" => m.id # id
                            /\ \A h \in Goroutine : posting[h] # <<>> /\ posting[h][1].typ = "exec" =>
                                   posting[h][1].id # id
      BY <2>2, <3>1
    <3>3. id = x
      BY <2>c, <3>2
    <3> QED BY <3>2, <3>3
  <2>3. RunsLua("loop")' /\ (RunsLua("main")' <=> RunsLua("main"))
    BY <1>4, <2>1 DEF RunsLua
  <2>4. KindInv'
    <3>1. \A g \in Goroutine : caller'[g] # <<>> => caller'[g][1].kind = "exec"
      BY <2>2 DEF Goroutine
    <3> QED BY <1>2, <1>4, <3>1
  <2>5. LuaInv'
    <3>1. RunsLua("main") => cur["main"] # c /\ co'[cur["main"]] = "running"
      BY <1>4, <2>1 DEF OpsInv, LuaInv, LuaOK, Goroutine
    <3>2. \A g \in Goroutine : caller'[g] # <<>> => g = "loop" /\ caller'[g][1] \in ops
      BY <2>2 DEF Goroutine
    <3>3. \A g \in Goroutine : RunsLua(g)' => co'[cur'[g]] = "running"
      BY <2>1, <2>3, <3>1 DEF Goroutine
    <3>4. \A g, h \in Goroutine : RunsLua(g)' /\ RunsLua(h)' /\ cur'[g] = cur'[h] => g = h
      BY <2>1, <2>3, <3>1 DEF Goroutine
    <3> QED BY <1>4, <2>3, <3>2, <3>3, <3>4 DEF LuaInv
  <2>6. TokenInv'
    <3>1. \A m \in Queued' : m.typ = "event" => co'[m.co] = "queued"
      <4>1. \A m \in Queued' : m.typ = "event" => m.co \in Coro
        BY <1>4, MsgTypes, QueuedType
      <4> QED BY <1>4, <2>1, <4>1 DEF OpsInv, TokenInv
    <3>2. ASSUME NEW m \in Queued', m.typ = "exec"
          PROVE  m.id \in ops /\ \A g \in Goroutine : posting[g] # <<m>> /\ caller'[g] # <<m.id>>
      <4>1. m.id \in ops /\ \A g \in Goroutine : posting[g] # <<m>>
        BY <1>4, <3>2 DEF OpsInv, TokenInv
      <4>2. caller'["main"] # <<m.id>> /\ caller'["loop"] # <<m.id>>
        BY <2>2, <2>c, <3>2
      <4> QED BY <4>1, <4>2 DEF Goroutine
    <3>3. ASSUME NEW g \in Goroutine, posting[g] # <<>>, posting[g][1].typ = "exec"
          PROVE  /\ posting[g][1].id \in ops /\ posting[g][1].id.co = cur'[g]
                 /\ \A h \in Goroutine : caller'[h] # <<posting[g][1].id>>
      <4>1. g = "main"
        BY <1>0, <3>3 DEF Goroutine
      <4>2. caller'["main"] # <<posting[g][1].id>>
        BY <2>2
      <4>3. caller'["loop"] # <<posting[g][1].id>>
        BY <2>c, <3>3
      <4> QED BY <2>1, <3>3, <4>1, <4>2, <4>3 DEF OpsInv, TokenInv, Goroutine
    <3> QED BY <1>4, <3>1, <3>2, <3>3 DEF TokenInv
  <2>7. ASSUME NEW i \in ops
        PROVE  /\ op[i.co] = i
               /\ \/ co'[i.co] = "waiting"
                  \/ /\ co'[i.co] = "running"
                     /\ \E g \in Goroutine : cur'[g] = i.co /\ RunsLua(g)' /\ pc'[g] # "run"
    <3>1. op[i.co] = i /\ i.co \in Coro
      BY DEF OpsInv, RegisteredInv, OpsOK, OpId
    <3>2. co'[i.co] = co[i.co]
      BY <1>4, <2>1, <3>1 DEF OpsInv, RegisteredInv
    <3>3. CASE co[i.co] # "waiting"
      <4>1. co[i.co] = "running" /\ cur["main"] = i.co /\ RunsLua("main") /\ pc["main"] # "run"
        BY <1>0, <3>3 DEF OpsInv, RegisteredInv, Goroutine
      <4> QED BY <2>1, <2>3, <3>1, <3>2, <4>1 DEF Goroutine
    <3> QED BY <3>1, <3>2, <3>3
  <2>8. RegisteredInv'
    BY <1>4, <2>7 DEF RegisteredInv
  <2> QED BY <1>4, <2>4, <2>5, <2>6, <2>8 DEF OpsInv
<1>5. ASSUME NEW id \in OpId, PostGridResp(id), id.kind = "grid", Queued' \subseteq Queued, OnceInv',
             UNCHANGED <<op, co, cur, caller, outbox, recv, shown, workers>>
      PROVE  OpsInv'
  <2>1. /\ ops' = ops \ {id} /\ pc'["main"] = pc["main"] /\ posting'["main"] = posting["main"]
        /\ \/ pc'["loop"] = "idle" /\ posting'["loop"] = <<>>
           \/ pc'["loop"] = "post" /\ posting'["loop"] = <<Msg("gridResp", id)>>
    BY <1>0, <1>5 DEF PostGridResp, LuaOK, Thread, Goroutine
  <2>2. /\ RightKind(Msg("gridResp", id)) /\ Msg("gridResp", id).typ = "gridResp"
    BY <1>5 DEF RightKind, Msg
  <2>3. ~RunsLua("loop")' /\ (RunsLua("main")' <=> RunsLua("main"))
    BY <2>1, <2>2 DEF RunsLua
  <2>4. KindInv'
    <3>1. \A g \in Goroutine : posting'[g] # <<>> =>
             posting'[g][1].typ \notin {"event", "done"} /\ RightKind(posting'[g][1])
      BY <2>1, <2>2 DEF OpsInv, KindInv, Goroutine
    <3> QED BY <1>5, <3>1 DEF OpsInv, KindInv
  <2>5. LuaInv'
    BY <1>0, <1>5, <2>3 DEF OpsInv, LuaInv, Goroutine
  <2>6. TokenInv'
    <3>1. \A g \in Goroutine : posting'[g] # <<>> /\ posting'[g][1].typ = "exec" => g = "main"
      BY <2>1, <2>2 DEF Goroutine
    <3>2. \A m \in Queued : m.typ = "exec" => m.id # id
      BY <1>5 DEF OpsInv, KindInv, RightKind
    <3>3. posting["main"] # <<>> /\ posting["main"][1].typ = "exec" => posting["main"][1].id # id
      BY <1>5 DEF OpsInv, KindInv, RightKind, Goroutine
    <3>4. \A m \in Queued' : m.typ = "event" => co[m.co] = "queued"
      BY <1>5 DEF OpsInv, TokenInv
    <3>5. ASSUME NEW m \in Queued', m.typ = "exec"
          PROVE  m.id \in ops' /\ \A g \in Goroutine : posting'[g] # <<m>> /\ caller[g] # <<m.id>>
      <4>1. m.id \in ops /\ \A g \in Goroutine : posting[g] # <<m>> /\ caller[g] # <<m.id>>
        BY <1>5, <3>5 DEF OpsInv, TokenInv
      <4>2. posting'["loop"] # <<m>>
        BY <2>1, <2>2, <3>5
      <4> QED BY <1>5, <2>1, <3>2, <3>5, <4>1, <4>2 DEF Goroutine
    <3>6. ASSUME NEW g \in Goroutine, posting'[g] # <<>>, posting'[g][1].typ = "exec"
          PROVE  /\ posting'[g][1].id \in ops' /\ posting'[g][1].id.co = cur[g]
                 /\ \A h \in Goroutine : caller[h] # <<posting'[g][1].id>>
      <4>1. g = "main" /\ posting'[g] = posting[g]
        BY <2>1, <3>1, <3>6
      <4> QED BY <2>1, <3>3, <3>6, <4>1 DEF OpsInv, TokenInv
    <3> QED BY <1>5, <3>4, <3>5, <3>6 DEF TokenInv
  <2>7. RegisteredInv'
    BY <1>0, <1>5, <2>1, <2>3 DEF OpsInv, RegisteredInv, Goroutine
  <2> QED BY <1>5, <2>4, <2>5, <2>6, <2>7 DEF OpsInv
<1> DEFINE m == Head(inbox)
<1>6. CASE HandleEvent
  <2>1. m \in Queued /\ m.typ = "event" /\ m.co \in Coro /\ m = Event(m.co)
        /\ Queued' \subseteq Queued /\ OnceInv' /\ m \notin Queued'
    BY <1>1, <1>6, MsgTypes DEF HandleEvent
  <2>2. \A x \in Queued' : x.typ = "event" => x.co # m.co
    BY <2>1, MsgTypes, QueuedType
  <2>3. co[m.co] = "queued"
    BY <2>1 DEF OpsInv, TokenInv
  <2> QED BY <1>4, <1>6, <2>1, <2>2, <2>3 DEF HandleEvent
<1>7. ASSUME m \in Queued, m.typ = "exec", m.id \in OpId, m = Msg("exec", m.id),
             Queued' \subseteq Queued, m \notin Queued'
      PROVE  /\ m.id \in ops /\ m.id.kind = "exec"
             /\ \A x \in Queued' : x.typ = "exec" => x.id # m.id
             /\ \A h \in Goroutine : posting[h] # <<>> /\ posting[h][1].typ = "exec" =>
                    posting[h][1].id # m.id
  <2>1. \A x \in Queued' : x.typ = "exec" => x.id # m.id
    BY <1>7, MsgTypes, QueuedType
  <2>2. m.id \in ops /\ m.id.kind = "exec"
    BY <1>7 DEF OpsInv, TokenInv, KindInv, RightKind
  <2>3. ASSUME NEW h \in Goroutine, posting[h] # <<>>, posting[h][1].typ = "exec"
        PROVE  posting[h][1].id # m.id
    <3>1. posting[h] = <<posting[h][1]>> /\ posting[h][1] \in MsgType
      BY <2>3 DEF LuaOK
    <3>2. posting[h] # <<m>>
      BY <1>7 DEF OpsInv, TokenInv
    <3> QED BY <1>7, <2>3, <3>1, <3>2, MsgTypes
  <2> QED BY <2>1, <2>2, <2>3
<1>8. CASE HandleDone
  <2> DEFINE from == IF m.id.kind = "async" THEN "async" ELSE "resp"
  <2>1. /\ m \in Queued /\ m.typ = "done" /\ m.id \in OpId /\ Queued' \subseteq Queued /\ OnceInv'
    BY <1>1, <1>8, MsgTypes DEF HandleDone
  <2>2. m.id.kind # "exec"
    BY <2>1 DEF OpsInv, KindInv, RightKind
  <2>3. ResumeOp(m.id, from) /\ UNCHANGED <<op, posting, outbox, shown, workers, recv>>
    BY <1>8 DEF HandleDone
  <2>4. \A x \in Queued' : x.typ = "exec" => x.id # m.id
    BY <2>1, <2>2 DEF OpsInv, KindInv, RightKind
  <2>5. \A h \in Goroutine : posting[h] # <<>> /\ posting[h][1].typ = "exec" =>
            posting[h][1].id # m.id
    BY <2>2 DEF OpsInv, KindInv, RightKind
  <2> HIDE DEF from, m
  <2> QED BY <1>3, <2>1, <2>3, <2>4, <2>5
<1>9. CASE HandleExecInline
  <2>1. /\ m \in Queued /\ m.typ = "exec" /\ m.id \in OpId /\ m = Msg("exec", m.id)
        /\ Queued' \subseteq Queued /\ OnceInv' /\ m \notin Queued'
    BY <1>1, <1>9, MsgTypes DEF HandleExecInline
  <2>2. ResumeOp(m.id, "resp") /\ UNCHANGED <<op, posting, outbox, shown, workers, recv>>
    BY <1>9 DEF HandleExecInline
  <2> HIDE DEF m
  <2> QED BY <1>3, <1>7, <2>1, <2>2
<1>10. CASE HandleGrid \/ HandleGridResp
  <2>1. /\ m \in Queued /\ m.typ \in {"grid", "gridResp"} /\ m.id \in OpId
        /\ Queued' \subseteq Queued /\ OnceInv'
    BY <1>1, <1>10, MsgTypes DEF HandleGrid, HandleGridResp
  <2>2. m.id.kind = "grid"
    BY <2>1 DEF OpsInv, KindInv, RightKind
  <2>3. PostGridResp(m.id) /\ UNCHANGED <<op, co, cur, caller, outbox, recv, shown, workers>>
    BY <1>10 DEF HandleGrid, HandleGridResp
  <2> HIDE DEF m
  <2> QED BY <1>5, <2>1, <2>2, <2>3
<1>11. CASE HandleGridSel
  <2>1. Queued' \subseteq Queued /\ OnceInv'
    BY <1>1, <1>11 DEF HandleGridSel
  <2>2. UNCHANGED <<ops, op, co, pc, cur, caller, posting, recv, shown, workers>>
    BY <1>11 DEF HandleGridSel
  <2>3. \A i \in DOMAIN outbox' : outbox'[i].typ = "ask" => outbox'[i].id.kind = "browser"
    BY <1>11, OutboxKinds DEF HandleGridSel, SendOutbox, OpsInv
  <2>4. KindInv'
    BY <2>1, <2>2, <2>3 DEF OpsInv, KindInv
  <2> QED BY <2>1, <2>2, <2>4, QuietOps
<1>12. ASSUME NEW f \in Coro, HandleExec(f) PROVE OpsInv'
  <2>1. /\ m \in Queued /\ m.typ = "exec" /\ m.id \in OpId /\ m = Msg("exec", m.id)
        /\ Queued' \subseteq Queued /\ OnceInv' /\ m \notin Queued'
    BY <1>1, <1>12, MsgTypes DEF HandleExec
  <2>2. \A x \in Queued' : x.typ = "event" => x.co # f
    BY <1>12, <2>1 DEF HandleExec, OpsInv, TokenInv
  <2>3. /\ Start(f, "exec") /\ co[f] = "none" /\ caller' = [caller EXCEPT !["loop"] = <<m.id>>]
        /\ UNCHANGED <<ops, op, posting, outbox, recv, shown, workers>>
    BY <1>12 DEF HandleExec
  <2> HIDE DEF m
  <2> QED BY <1>4, <1>7, <2>1, <2>2, <2>3
<1>13. ASSUME NEW id \in OpId, HandleRecv(id) PROVE OpsInv'
  <2>1. /\ ResumeOp(id, "resp") /\ UNCHANGED <<op, posting, outbox, shown, workers, inbox>>
        /\ recv' \subseteq recv /\ id \in recv
    BY <1>13 DEF HandleRecv, ResumeResp
  <2>2. Queued' = Queued /\ OnceInv'
    BY <2>1 DEF Queued, OpsInv, OnceInv
  <2>3. id.kind # "exec"
    BY <2>1 DEF OpsInv, KindInv
  <2>4. \A x \in Queued' : x.typ = "exec" => x.id # id
    BY <2>2, <2>3 DEF OpsInv, KindInv, RightKind
  <2>5. \A h \in Goroutine : posting[h] # <<>> /\ posting[h][1].typ = "exec" =>
            posting[h][1].id # id
    BY <2>3 DEF OpsInv, KindInv, RightKind
  <2> QED BY <1>3, <2>1, <2>2, <2>4, <2>5
<1>14. CASE LoopExit \/ MainFailed
  <2>1. /\ UNCHANGED <<inbox, outbox, recv, shown, ops, op, co, cur, caller, posting, workers>>
        /\ pc'["loop"] = "end" /\ pc'["main"] = pc["main"]
    BY <1>14 DEF LoopExit, MainFailed, LuaOK, Thread, Goroutine
  <2>2. Queued' = Queued /\ OnceInv'
    BY <2>1 DEF Queued, OpsInv, OnceInv
  <2>3. KindInv'
    BY <2>1, <2>2 DEF OpsInv, KindInv
  <2> QED BY <1>0, <2>1, <2>2, <2>3, QuietOps DEF Goroutine
<1> QED BY <1>6, <1>8, <1>9, <1>10, <1>11, <1>12, <1>13, <1>14 DEF LoopStep

LEMMA OpsStep == TypeInv /\ OpsInv /\ [Next]_vars => OpsInv'
<1> SUFFICES ASSUME TypeInv, OpsInv, [Next]_vars PROVE OpsInv'
  OBVIOUS
<1>1. ASSUME NEW g \in Goroutine, RunStep(g) PROVE OpsInv'
  BY <1>1, RunOps
<1>2. CASE LoopStep
  BY <1>2, LoopOps
<1> USE TypeParts, OpsAssumption DEF TypeInv
<1>q. ASSUME UNCHANGED inbox PROVE Queued' = Queued /\ OnceInv'
  BY <1>q DEF Queued, OpsInv, OnceInv
<1>3. ASSUME NEW c \in Coro, PostEvent(c) PROVE OpsInv'
  <2> USE <1>3 DEF PostEvent
  <2>1. Event(c) \in MsgType /\ Event(c).typ = "event" /\ Event(c).co = c
    BY MsgTypes DEF Event
  <2>2. Event(c) \notin Queued
    BY <2>1 DEF OpsInv, TokenInv
  <2>3. Queued' = Queued \cup {Event(c)} /\ OnceInv'
    BY <2>1, <2>2, QueueAppend DEF OpsInv
  <2>4. co'[c] = "queued" /\ \A d \in Coro : d # c => co'[d] = co[d]
    BY DEF LuaOK
  <2>5. \A g \in Goroutine : RunsLua(g)' <=> RunsLua(g)
    BY DEF RunsLua
  <2>6. LuaInv'
    BY <2>4, <2>5 DEF OpsInv, LuaInv, LuaOK
  <2>7. KindInv'
    <3>1. RightKind(Event(c))
      BY <2>1 DEF RightKind
    <3> QED BY <2>3, <3>1 DEF OpsInv, KindInv
  <2>8. TokenInv'
    <3>1. \A m \in Queued : m.typ = "event" => m.co \in Coro
      BY MsgTypes, QueuedType
    <3> QED BY <2>1, <2>3, <2>4, <3>1 DEF OpsInv, TokenInv
  <2>9. RegisteredInv'
    <3>1. \A i \in ops : i.co \in Coro /\ i.co # c
      BY DEF OpsInv, RegisteredInv, OpsOK, OpId
    <3> QED BY <2>4, <2>5, <3>1 DEF OpsInv, RegisteredInv
  <2> QED BY <2>3, <2>6, <2>7, <2>8, <2>9 DEF OpsInv
<1>4. ASSUME NEW id \in OpId, WorkerDone(id) \/ Answer(id) PROVE OpsInv'
  <2>1. /\ UNCHANGED <<outbox, shown, ops, op, co, pc, cur, caller, posting>>
        /\ workers' \subseteq workers /\ recv' \subseteq recv \cup shown
        /\ id.kind \in {"async", "sleep", "browser"}
        /\ \/ UNCHANGED inbox
           \/ Len(inbox) < InboxCap /\ inbox' = Append(inbox, Msg("done", id))
    BY <1>4 DEF WorkerDone, Answer, PostResp, OpsInv, KindInv
  <2>2. Msg("done", id) \in MsgType /\ Msg("done", id).typ = "done" /\ RightKind(Msg("done", id))
    BY <2>1, MsgTypes DEF Msg, RightKind
  <2>3. OnceInv' /\ Queued' \subseteq Queued \cup {Msg("done", id)}
    <3>1. CASE UNCHANGED inbox
      BY <1>q, <3>1
    <3>2. CASE Len(inbox) < InboxCap /\ inbox' = Append(inbox, Msg("done", id))
      BY <2>2, <3>2, QueueAppend DEF OpsInv
    <3> QED BY <2>1, <3>1, <3>2
  <2>4. KindInv'
    BY <2>1, <2>2, <2>3 DEF OpsInv, KindInv
  <2> QED BY <2>1, <2>2, <2>3, <2>4, QuietOps
<1>5. CASE Pump
  <2>1. /\ UNCHANGED <<inbox, recv, ops, op, co, pc, cur, caller, posting, workers>>
        /\ outbox # <<>> /\ outbox' = Tail(outbox)
        /\ shown' = IF Head(outbox).typ = "ask" THEN shown \cup {Head(outbox).id} ELSE shown
    BY <1>5 DEF Pump
  <2>2. outbox \in Seq([typ : {"note"}] \cup [typ : {"ask"}, id : OpId])
    BY DEF ChannelsOK
  <2>3. /\ Head(outbox) = outbox[1] /\ 1 \in DOMAIN outbox
        /\ \A i \in DOMAIN outbox' : i + 1 \in DOMAIN outbox /\ outbox'[i] = outbox[i + 1]
    BY <2>1, <2>2
  <2>4. \A i \in DOMAIN outbox' : outbox'[i].typ = "ask" => outbox'[i].id.kind = "browser"
    BY <2>3 DEF OpsInv, KindInv
  <2>5. \A id \in recv' \cup shown' : id.kind = "browser"
    BY <2>1, <2>3 DEF OpsInv, KindInv
  <2>6. KindInv'
    BY <1>q, <2>1, <2>4, <2>5 DEF OpsInv, KindInv
  <2> QED BY <1>q, <2>1, <2>6, QuietOps
<1>6. CASE CloseBegin \/ WatchExit \/ CloseEnd \/ UNCHANGED vars
  <2>1. /\ UNCHANGED <<inbox, outbox, recv, shown, ops, op, co, cur, caller, posting, workers>>
        /\ \A g \in Goroutine : pc'[g] = pc[g]
    BY <1>6 DEF CloseBegin, WatchExit, CloseEnd, vars, LuaOK, Thread, Goroutine
  <2>2. KindInv'
    BY <1>q, <2>1 DEF OpsInv, KindInv
  <2> QED BY <1>q, <2>1, <2>2, QuietOps
<1> HIDE DEF TypeInv
<1> QED BY <1>1, <1>2, <1>3, <1>4, <1>5, <1>6 DEF Next

LEMMA OpsInit == Init => OpsInv
<1> SUFFICES ASSUME Init PROVE OpsInv
  OBVIOUS
<1> USE OpsAssumption DEF Init
<1>1. /\ Queued = {} /\ OnceInv /\ KindInv
  BY DEF Queued, OnceInv, KindInv
<1>2. /\ pc["main"] = "run" /\ pc["loop"] = "idle"
  BY DEF Started, Thread, Goroutine
<1>3. ~RunsLua("loop")
  BY <1>2 DEF RunsLua
<1>4. LuaInv
  BY <1>3 DEF LuaInv, Goroutine
<1>5. TokenInv /\ RegisteredInv
  BY <1>1 DEF TokenInv, RegisteredInv
<1> QED BY <1>1, <1>4, <1>5 DEF OpsInv

(* Both deployments: however often the page answers and in whatever order completions
   arrive, an entry of asyncOps, gridAsyncOps or sleepOps is the last operation of its
   coroutine, which is suspended on it or about to yield on it; no message can resume a
   coroutine at a later suspension point. *)
THEOREM OpsCorrect == Spec => []OpsMatch
<1>1. TypeInv /\ OpsInv => OpsMatch
  BY DEF OpsInv, RegisteredInv, OpsMatch, RunsLua
<1> QED BY <1>1, TypeInit, TypeStep, OpsInit, OpsStep, PTL DEF Spec

-----------------------------------------------------------------------------
(* Wake-ups of the desktop deployment, where nothing but the actor runs    *)
(* Lua and the loop starts after main(): a coroutine that is suspended, or *)
(* about to be, has its operation registered and somebody who holds the    *)
(* id.  The kinds are those whose wake-up does not pass through the outbox *)
(* (whose sends may be dropped) and that are answered (a grid call is not).*)

SelfWoken == {"async", "sleep", "exec"}

Suspending(c) ==
    \/ co[c] = "waiting"
    \/ \E g \in Goroutine : cur[g] = c /\ pc[g] \in {"post", "yield"}

Held(id) ==
    \/ id \in workers
    \/ \E m \in Queued : m.typ # "event" /\ m.id = id
    \/ \E g \in Goroutine : caller[g] = <<id>>
    \/ \E g \in Goroutine : posting[g] = <<Msg("exec", id)>>

OwnOp == \A c \in Coro : op[c].co = c

WakeInv ==
    stage = "open" =>
        \A c \in Coro : Suspending(c) => op[c] \in ops /\ Held(op[c])

LEMMA OwnOpInit == Init => OwnOp
  BY DEF Init, OwnOp, NoOp

LEMMA OwnOpStep == TypeInv /\ OwnOp /\ [Next]_vars => OwnOp'
<1> SUFFICES ASSUME TypeInv, OwnOp, [Next]_vars PROVE OwnOp'
  OBVIOUS
<1> USE TypeParts DEF TypeInv
<1>1. ASSUME NEW g \in Goroutine, NEW k \in Kinds, Register(g, k) PROVE OwnOp'
  <2>1. Fresh(g, k).co = cur[g] /\ cur[g] \in Coro
    BY <1>1, FreshType DEF Register
  <2> QED BY <1>1, <2>1 DEF Register, OwnOp, OpsOK
<1>2. ASSUME UNCHANGED op PROVE OwnOp'
  BY <1>2 DEF OwnOp
<1>3. ASSUME NEW g \in Goroutine, RunStep(g) PROVE OwnOp'
  <2>1. \/ UNCHANGED op
        \/ \E k \in Kinds : Register(g, k)
    BY <1>3 DEF RunStep, RequestAsync, RequestSelf, RequestBrowser, AskPage, PostSelf, Yield,
                Finish, Raise, BlockingSend, Register
  <2> QED BY <1>1, <1>2, <2>1
<1>4. ASSUME Next, \A g \in Goroutine : ~RunStep(g) PROVE UNCHANGED op
  BY <1>4 DEF Next, LoopStep, HandleEvent, HandleDone, HandleExecInline, HandleGrid,
              HandleGridSel, HandleGridResp, HandleExec, HandleRecv, LoopExit, MainFailed,
              PostEvent, WorkerDone, Answer, Pump, CloseBegin, WatchExit, CloseEnd
<1> QED BY <1>2, <1>3, <1>4 DEF vars

(* A registered operation, when it is resumed on the desktop, belongs to a coroutine
   that has yielded; the coroutines that stay suspended keep theirs. *)
LEMMA ResumeWakes ==
    ASSUME ~Transport, TypeInv, OpsInv, OwnOp, WakeInv, stage = "open",
           NEW id \in ops, NEW from, NEW cs \in [Coro -> CoState],
           Resume("loop", id, from, cs), Stopped("loop", cs),
           pc["loop"] # "post", pc["main"] \in {"end", "dead"},
           UNCHANGED <<op, posting, workers>>,
           \A m \in Queued : m \in Queued' \/ m.typ = "event" \/ m.id = id,
           caller["loop"] \in {<<>>, <<id>>}
    PROVE  WakeInv'
<1> USE TypeParts DEF TypeInv, Goroutine
<1>1. /\ ops' = ops \ {id} /\ id \in OpId /\ id.co \in Coro /\ op[id.co] = id
      /\ pc'["main"] = pc["main"]
  BY DEF Resume, LuaOK, OpsOK, Thread, OpId, OpsInv, RegisteredInv
<1>2. cs[id.co] = "waiting"
  <2>1. ~RunsLua("main")
    BY DEF RunsLua
  <2>2. CASE RunsLua("loop") /\ cur["loop"] = id.co
    <3>1. pc["loop"] # "run"
      BY <2>2, RunningHasNoOp
    <3> QED BY <2>2, <3>1 DEF Stopped, RunsLua
  <2>3. CASE ~(RunsLua("loop") /\ cur["loop"] = id.co)
    <3>1. cs[id.co] = co[id.co]
      BY <1>1, <2>3 DEF Stopped
    <3> QED BY <2>1, <2>3, <3>1 DEF OpsInv, RegisteredInv
  <2> QED BY <2>2, <2>3
<1>3. /\ co' = [cs EXCEPT ![id.co] = "running"] /\ pc'["loop"] = "run"
  BY <1>2 DEF Resume, LuaOK, Thread
<1>4. ASSUME NEW c \in Coro, Suspending(c)'
      PROVE  op[c] \in ops' /\ Held(op[c])'
  <2>1. co'[c] = "waiting" /\ c # id.co
    BY <1>1, <1>3, <1>4 DEF Suspending
  <2>2. cs[c] = "waiting"
    BY <1>3, <2>1
  <2>3. Suspending(c)
    <3>1. CASE RunsLua("loop") /\ c = cur["loop"]
      BY <2>2, <3>1 DEF Stopped, Suspending
    <3>2. CASE ~(RunsLua("loop") /\ c = cur["loop"])
      BY <2>2, <3>2 DEF Stopped, Suspending
    <3> QED BY <3>1, <3>2
  <2>4. op[c] \in ops /\ Held(op[c]) /\ op[c] # id
    BY <2>1, <2>3 DEF WakeInv, OwnOp
  <2>5. \A g \in Goroutine : caller[g] # <<op[c]>>
    <3>1. <<op[c]>> # <<id>> /\ <<op[c]>> # <<>>
      BY <2>4
    <3> QED BY <3>1 DEF GoroutineInv
  <2>6. Held(op[c])'
    BY <2>4, <2>5 DEF Held
  <2> QED BY <1>1, <2>4, <2>6
<1> QED BY <1>4 DEF WakeInv

(* A step that neither starts a suspension nor takes a token away. *)
LEMMA WakeKept ==
    ASSUME WakeInv, stage = "open", UNCHANGED op,
           \A c \in Coro : Suspending(c)' => Suspending(c),
           \A id \in ops : (\E c \in Coro : Suspending(c)' /\ id = op[c]) => id \in ops',
           \A id \in ops : Held(id) => Held(id)'
    PROVE  WakeInv'
  BY DEF WakeInv

LEMMA WakeStep ==
    ASSUME ~Transport, Kinds \subseteq SelfWoken, TypeInv, OpsInv, OwnOp, WakeInv, [Next]_vars
    PROVE  WakeInv'
<1> USE TypeParts, OpsAssumption DEF TypeInv
<1>0. stage' = "open" => stage = "open"
  BY DEF Next, vars, RunStep, RequestAsync, RequestSelf, RequestBrowser, PostSelf,
         Yield, Finish, Raise, BlockingSend, LoopStep, HandleEvent, HandleDone,
         HandleExecInline, HandleGrid, HandleGridSel, HandleGridResp, HandleExec,
         HandleRecv, LoopExit, MainFailed, PostEvent, WorkerDone, Answer, Pump,
         CloseBegin, WatchExit, CloseEnd
<1>1. CASE stage' # "open"
  BY <1>1 DEF WakeInv
<1> SUFFICES ASSUME stage = "open", stage' = "open" PROVE WakeInv'
  BY <1>0, <1>1
<1>t. \A id \in OpId : id.kind \in SelfWoken
  BY DEF OpId
<1>q. ASSUME UNCHANGED inbox PROVE Queued' = Queued
  BY <1>q DEF Queued
<1>2. ASSUME NEW g \in Goroutine, NEW k \in Kinds, Register(g, k),
             \/ /\ Fresh(g, k) \in workers' /\ UNCHANGED posting
             \/ posting' = [posting EXCEPT ![g] = <<Msg("exec", Fresh(g, k))>>],
             NEW s \in {"yield", "post"}, pc' = [pc EXCEPT ![g] = s],
             workers \subseteq workers', UNCHANGED <<inbox, co, cur, caller>>
      PROVE  WakeInv'
  <2>0. PICK id : id = Fresh(g, k)
    OBVIOUS
  <2>1. /\ pc[g] = "run" /\ ops' = ops \cup {id} /\ op' = [op EXCEPT ![cur[g]] = id]
        /\ op[cur[g]].n < MaxOps
    BY <1>2, <2>0 DEF Register
  <2>2. id.co = cur[g] /\ cur[g] \in Coro /\ id \in OpId
    BY <2>0, <2>1, FreshType
  <2>3. posting[g] = <<>> /\ \A h \in Goroutine : h # g => posting'[h] = posting[h] /\ pc'[h] = pc[h]
    BY <1>2, <2>1 DEF GoroutineInv, LuaOK, Thread
  <2>4. Held(id)'
    BY <1>2, <2>0 DEF Held, LuaOK
  <2>5. ASSUME NEW i \in ops, Held(i) PROVE Held(i)'
    <3>0. <<>> # <<Msg("exec", i)>>
      OBVIOUS
    <3>1. \A h \in Goroutine : posting[h] = <<Msg("exec", i)>> => posting'[h] = posting[h]
      BY <2>3, <3>0
    <3> QED BY <1>2, <1>q, <2>5, <3>1 DEF Held
  <2>6. ASSUME NEW c \in Coro, Suspending(c)' PROVE op'[c] \in ops' /\ Held(op[c])'
    <3>1. CASE c = cur[g]
      BY <2>1, <2>2, <2>4, <3>1 DEF OpsOK
    <3>2. CASE c # cur[g]
      <4>1. op'[c] = op[c]
        BY <2>1, <3>2 DEF OpsOK
      <4>2. Suspending(c)
        BY <1>2, <2>3, <2>6, <3>2 DEF Suspending
      <4> QED BY <2>1, <2>5, <4>1, <4>2 DEF WakeInv
    <3> QED BY <3>1, <3>2
  <2> QED BY <2>6 DEF WakeInv
<1>3. ASSUME NEW g \in Goroutine, RunStep(g) PROVE WakeInv'
  <2>1. ASSUME NEW k \in Kinds, RequestAsync(g, k) PROVE WakeInv'
    <3>1. /\ Register(g, k) /\ workers' = workers \cup {Fresh(g, k)} /\ pc' = [pc EXCEPT ![g] = "yield"]
          /\ UNCHANGED <<inbox, co, cur, caller, posting>>
      BY <2>1 DEF RequestAsync
    <3> QED BY <1>2, <3>1
  <2>2. ASSUME NEW k \in Kinds, RequestSelf(g, k) PROVE WakeInv'
    <3>1. /\ Register(g, k) /\ pc' = [pc EXCEPT ![g] = "post"] /\ k = "exec"
          /\ posting' = [posting EXCEPT ![g] = <<Msg("exec", Fresh(g, k))>>]
          /\ UNCHANGED <<inbox, co, cur, caller, workers>>
      BY <2>2 DEF RequestSelf, SelfWoken
    <3> QED BY <1>2, <3>1
  <2>3. ~RequestBrowser(g)
    BY DEF RequestBrowser, AskPage, Register, SelfWoken
  <2>4. CASE PostSelf(g)
    <3> USE <2>4 DEF PostSelf
    <3>1. PICK m \in MsgType : posting[g] = <<m>> /\ Head(posting[g]) = m
      BY DEF GoroutineInv, LuaOK
    <3>2. Queued' = Queued \cup {m}
      <4>1. Len(inbox) < InboxCap /\ inbox' = Append(inbox, m)
        BY <3>1
      <4>2. m.typ \in {"event", "exec"} => m \notin Queued
        <5>1. posting[g] # <<>> /\ posting[g][1] = m
          BY <3>1
        <5> QED BY <3>1, <5>1 DEF OpsInv, KindInv, TokenInv
      <4> QED BY <4>1, <4>2, QueueAppend DEF OpsInv
    <3>3. \A h \in Goroutine : h # g => posting'[h] = posting[h] /\ pc'[h] = pc[h]
      BY DEF LuaOK, Thread
    <3>4. ASSUME NEW i \in ops, Held(i) PROVE Held(i)'
      <4>1. CASE posting[g] = <<Msg("exec", i)>>
        <5>1. m = Msg("exec", i) /\ m.typ = "exec" /\ m.id = i
          BY <3>1, <4>1 DEF Msg
        <5> QED BY <3>2, <5>1 DEF Held
      <4>2. CASE posting[g] # <<Msg("exec", i)>>
        BY <3>2, <3>3, <3>4, <4>2 DEF Held
      <4> QED BY <4>1, <4>2
    <3>5. \A c \in Coro : Suspending(c)' => Suspending(c)
      BY <3>3 DEF Suspending
    <3>6. UNCHANGED <<op, ops>>
      OBVIOUS
    <3> HIDE <2>4
    <3> QED BY <3>4, <3>5, <3>6, WakeKept
  <2>5. CASE Yield(g) \/ Finish(g) \/ Raise(g)
    <3>1. PICK st \in {"waiting", "ended", "failed"}, n \in 0..2 : Stopping(g, st, n)
      BY <2>5, Stops
    <3> DEFINE cs == [co EXCEPT ![cur[g]] = st]
    <3>2. /\ Stop(g, cs, n) /\ pc[g] = IF st = "waiting" THEN "yield" ELSE "run"
          /\ UNCHANGED <<inbox, op, posting, workers>>
      BY <3>1, Zenon DEF Stopping
    <3>3. cs \in [Coro -> CoState] /\ RunsLua(g) /\ posting[g] = <<>> /\ pc[g] # "post"
      BY <3>2 DEF LuaOK, CoState, RunsLua, GoroutineInv
    <3>4. Stopped(g, cs)
      BY <3>2, <3>3 DEF Stopped, LuaOK
    <3>5. cs[cur[g]] = st /\ \A c \in Coro : c # cur[g] => cs[c] = co[c]
      BY DEF LuaOK
    <3> HIDE DEF cs
    <3>6. CASE caller[g] # <<>>
      <4>1. g = "loop" /\ pc["main"] \in {"end", "dead"}
        BY <3>2, <3>6 DEF GoroutineInv, Goroutine
      <4> DEFINE id == Head(caller[g])
      <4>2. Resume("loop", id, "resp", cs)
        BY <3>2, <3>6, <4>1 DEF Stop
      <4>3. id \in ops /\ caller[g] = <<id>>
        BY <3>6 DEF OpsInv, LuaInv, LuaOK
      <4> HIDE DEF id
      <4> QED BY <1>q, <3>2, <3>3, <3>4, <4>1, <4>2, <4>3, ResumeWakes
    <3>7. CASE caller[g] = <<>>
      <4>1. /\ co' = cs /\ UNCHANGED <<ops, cur, caller>> /\ pc'[g] \notin {"run", "yield", "post"}
            /\ \A h \in Goroutine : h # g => pc'[h] = pc[h]
        BY <3>2, <3>7 DEF Stop, LuaOK, Thread
      <4>2. ASSUME NEW c \in Coro, Suspending(c)' PROVE Suspending(c)
        BY <3>2, <3>5, <4>1, <4>2 DEF Suspending
      <4>3. \A id \in ops : Held(id) => Held(id)'
        BY <1>q, <3>2, <4>1 DEF Held
      <4> QED BY <3>2, <4>1, <4>2, <4>3, WakeKept
    <3> QED BY <3>6, <3>7
  <2>6. CASE BlockingSend(g)
    <3>1. /\ UNCHANGED <<inbox, ops, op, co, cur, caller, posting, workers>>
          /\ pc'[g] \notin {"post", "yield"}
          /\ \A h \in Goroutine : h # g => pc'[h] = pc[h]
      BY <2>6 DEF BlockingSend, LuaOK, Thread
    <3>2. \A c \in Coro : Suspending(c)' => Suspending(c)
      BY <3>1 DEF Suspending
    <3>3. \A id \in ops : Held(id) => Held(id)'
      BY <1>q, <3>1 DEF Held
    <3> QED BY <3>1, <3>2, <3>3, WakeKept
  <2> QED BY <1>3, <2>1, <2>2, <2>3, <2>4, <2>5, <2>6 DEF RunStep
<1> DEFINE m == Head(inbox)
<1>4. ASSUME LoopStep
      PROVE  /\ pc["loop"] = "idle" /\ ~RunsLua("loop") /\ posting["loop"] = <<>>
             /\ caller["loop"] = <<>> /\ caller["main"] = <<>>
  BY <1>4, LoopWasIdle DEF RunsLua, GoroutineInv, OpsInv, LuaInv, Goroutine
<1>5. ASSUME NEW t, Receive(t)
      PROVE  /\ m \in Queued /\ m \in MsgType /\ m.typ = t /\ pc["main"] = "end"
             /\ \A x \in Queued : x \in Queued' \/ x = m
             /\ t # "event" => m.id \in OpId
  <2>1. m \in MsgType /\ m.typ = t
    BY <1>5, InboxHead DEF Receive
  <2>2. m \in Queued /\ \A x \in Queued : x \in Queued' \/ x = m
    BY <1>5, QueueTail DEF Receive, OpsInv
  <2> QED BY <1>5, <2>1, <2>2, MsgTypes DEF Receive, LoopIdle
<1>6. ASSUME LoopStep, NEW t, Receive(t), t # "event", NEW from, ResumeOp(m.id, from),
             UNCHANGED <<op, posting, workers>>
      PROVE  WakeInv'
  <2>1. \A x \in Queued : x \in Queued' \/ x.typ = "event" \/ x.id = m.id
    BY <1>5, <1>6
  <2>2. CASE m.id \in ops
    <3>1. Resume("loop", m.id, from, co)
      BY <1>6, <2>2 DEF ResumeOp
    <3>2. co \in [Coro -> CoState] /\ Stopped("loop", co)
      BY <1>4, <1>6 DEF LuaOK, Stopped
    <3> HIDE DEF m
    <3> QED BY <1>4, <1>5, <1>6, <2>1, <2>2, <3>1, <3>2, ResumeWakes
  <2>3. CASE m.id \notin ops
    <3>1. UNCHANGED <<ops, co, cur, caller, pc>>
      BY <1>6, <2>3 DEF ResumeOp
    <3>2. \A c \in Coro : Suspending(c)' => Suspending(c)
      BY <3>1 DEF Suspending
    <3>3. \A id \in ops : Held(id) => Held(id)'
      BY <1>6, <2>1, <2>3, <3>1 DEF Held
    <3> QED BY <1>6, <3>1, <3>2, <3>3, WakeKept
  <2> QED BY <2>2, <2>3
<1>7. ASSUME LoopStep, NEW t, Receive(t), NEW c \in Coro, NEW from, Start(c, from),
             UNCHANGED <<ops, op, posting, workers>>,
             \/ t = "event" /\ UNCHANGED caller
             \/ t = "exec" /\ caller' = [caller EXCEPT !["loop"] = <<m.id>>]
      PROVE  WakeInv'
  <2>1. /\ co'[c] = "running" /\ \A d \in Coro : d # c => co'[d] = co[d]
        /\ cur'["loop"] = c /\ cur'["main"] = cur["main"]
        /\ pc'["loop"] = "run" /\ pc'["main"] = pc["main"]
    BY <1>7 DEF Start, LuaOK, Thread, Goroutine
  <2>2. \A d \in Coro : Suspending(d)' => Suspending(d)
    BY <1>5, <1>7, <2>1 DEF Suspending, Goroutine
  <2>3. \A g \in Goroutine : caller[g] = <<>>
    BY <1>4, <1>7 DEF Goroutine
  <2>4. ASSUME NEW id \in ops, Held(id) PROVE Held(id)'
    <3>1. CASE \E x \in Queued : x \in Queued' /\ x.typ # "event" /\ x.id = id
      BY <3>1 DEF Held
    <3>2. CASE m.typ # "event" /\ m.id = id
      <4>1. caller'["loop"] = <<id>>
        BY <1>5, <1>7, <3>2 DEF LuaOK, Goroutine
      <4> QED BY <4>1 DEF Held, Goroutine
    <3>3. CASE id \in workers \/ \E g \in Goroutine : posting[g] = <<Msg("exec", id)>>
      BY <1>7, <3>3 DEF Held
    <3>0. <<>> # <<id>>
      OBVIOUS
    <3>4. \A g \in Goroutine : caller[g] # <<id>>
      BY <2>3, <3>0
    <3> QED BY <1>5, <1>7, <2>4, <3>1, <3>2, <3>3, <3>4 DEF Held
  <2> QED BY <1>7, <2>2, <2>4, WakeKept
<1>8. CASE LoopStep
  <2>1. CASE HandleEvent
    <3>1. Receive("event") /\ m.co \in Coro
      BY <1>5, <2>1, MsgTypes DEF HandleEvent
    <3>2. Start(m.co, "event") /\ UNCHANGED <<ops, op, posting, workers, caller>>
      BY <2>1 DEF HandleEvent
    <3> QED BY <1>7, <1>8, <3>1, <3>2
  <2>2. CASE HandleDone
    <3> DEFINE from == IF m.id.kind = "async" THEN "async" ELSE "resp"
    <3>1. Receive("done") /\ ResumeOp(m.id, from) /\ UNCHANGED <<op, posting, workers>>
      BY <2>2 DEF HandleDone
    <3> HIDE DEF m, from
    <3> QED BY <1>6, <1>8, <3>1
  <2>3. CASE HandleExecInline
    <3>1. Receive("exec") /\ ResumeOp(m.id, "resp") /\ UNCHANGED <<op, posting, workers>>
      BY <2>3 DEF HandleExecInline
    <3> HIDE DEF m
    <3> QED BY <1>6, <1>8, <3>1
  <2>4. CASE HandleGrid \/ HandleGridSel \/ HandleGridResp
    <3>1. m \in Queued /\ m.typ \in {"grid", "gridSel", "gridResp"} /\ m.id \in OpId
      BY <1>5, <2>4 DEF HandleGrid, HandleGridSel, HandleGridResp
    <3>2. m.id.kind \in {"grid", "gridSel"}
      BY <3>1 DEF OpsInv, KindInv, RightKind
    <3> QED BY <1>t, <3>1, <3>2 DEF SelfWoken
  <2>5. ASSUME NEW f \in Coro, HandleExec(f) PROVE WakeInv'
    <3>1. /\ Receive("exec") /\ Start(f, "exec") /\ caller' = [caller EXCEPT !["loop"] = <<m.id>>]
          /\ UNCHANGED <<ops, op, posting, workers>>
      BY <2>5 DEF HandleExec
    <3> HIDE DEF m
    <3> QED BY <1>7, <1>8, <3>1
  <2>6. ASSUME NEW id \in OpId, HandleRecv(id) PROVE WakeInv'
    BY <2>6 DEF HandleRecv
  <2>7. CASE LoopExit \/ MainFailed
    <3>1. /\ UNCHANGED <<inbox, ops, op, co, cur, caller, posting, workers>>
          /\ pc'["loop"] = "end" /\ pc'["main"] = pc["main"]
      BY <2>7 DEF LoopExit, MainFailed, LuaOK, Thread, Goroutine
    <3>2. \A c \in Coro : Suspending(c)' => Suspending(c)
      BY <3>1 DEF Suspending, Goroutine
    <3>3. \A id \in ops : Held(id) => Held(id)'
      BY <1>q, <3>1 DEF Held
    <3> QED BY <3>1, <3>2, <3>3, WakeKept
  <2> QED BY <1>8, <2>1, <2>2, <2>3, <2>4, <2>5, <2>6, <2>7 DEF LoopStep
<1>9. ASSUME NEW c \in Coro, PostEvent(c) PROVE WakeInv'
  <2>1. /\ UNCHANGED <<ops, op, pc, cur, caller, posting, workers>>
        /\ co' = [co EXCEPT ![c] = "queued"] /\ co[c] = "none" /\ Len(inbox) < InboxCap
        /\ inbox' = Append(inbox, Event(c))
    BY <1>9 DEF PostEvent
  <2>2. Event(c) \in MsgType /\ Event(c) \notin Queued
    BY <2>1, MsgTypes DEF Event, OpsInv, TokenInv
  <2>3. Queued \subseteq Queued'
    BY <2>1, <2>2, QueueAppend DEF OpsInv
  <2>4. \A d \in Coro : Suspending(d)' => Suspending(d)
    BY <2>1 DEF Suspending, LuaOK
  <2>5. \A id \in ops : Held(id) => Held(id)'
    BY <2>1, <2>3 DEF Held
  <2> QED BY <2>1, <2>4, <2>5, WakeKept
<1>10. ASSUME NEW id \in OpId, WorkerDone(id) \/ Answer(id) PROVE WakeInv'
  <2>1. /\ UNCHANGED <<ops, op, co, pc, cur, caller, posting>>
        /\ Len(inbox) < InboxCap /\ inbox' = Append(inbox, Msg("done", id))
        /\ workers' \in {workers, workers \ {id}}
    BY <1>10 DEF WorkerDone, Answer, PostResp
  <2>2. Msg("done", id) \in MsgType /\ Msg("done", id).typ = "done" /\ Msg("done", id).id = id
    BY MsgTypes DEF Msg
  <2>3. Queued' = Queued \cup {Msg("done", id)}
    BY <2>1, <2>2, QueueAppend DEF OpsInv
  <2>4. \A d \in Coro : Suspending(d)' => Suspending(d)
    BY <2>1 DEF Suspending
  <2>5. \A i \in ops : Held(i) => Held(i)'
    BY <2>1, <2>2, <2>3 DEF Held
  <2> QED BY <2>1, <2>4, <2>5, WakeKept
<1>11. CASE Pump \/ CloseBegin \/ WatchExit \/ CloseEnd \/ UNCHANGED vars
  <2>1. /\ UNCHANGED <<inbox, ops, op, co, cur, caller, posting, workers>>
        /\ \A g \in Goroutine : pc'[g] = pc[g]
    BY <1>11 DEF Pump, CloseBegin, WatchExit, CloseEnd, vars, LuaOK, Thread, Goroutine
  <2>2. \A d \in Coro : Suspending(d)' => Suspending(d)
    BY <2>1 DEF Suspending
  <2>3. \A id \in ops : Held(id) => Held(id)'
    BY <1>q, <2>1 DEF Held
  <2> QED BY <2>1, <2>2, <2>3, WakeKept
<1> HIDE DEF TypeInv
<1> QED BY <1>3, <1>8, <1>9, <1>10, <1>11 DEF Next

(* Desktop deployment, a script that blocks in RunAsync, k.sleep and k.exec: until the
   session closes, the operation of every suspended coroutine is registered and its id
   is with a live worker, in the inbox or held by the loop as the caller of k.exec. *)
THEOREM WakeupCorrect ==
    ASSUME ~Transport, Kinds \subseteq SelfWoken PROVE Spec => []NoLostWakeup
<1>1. Init => WakeInv
  <2> SUFFICES ASSUME Init, NEW c \in Coro, Suspending(c) PROVE FALSE
    BY DEF WakeInv
  <2>1. pc["main"] = "run" /\ pc["loop"] = "idle"
    BY DEF Init, Started, Thread, Goroutine
  <2> QED BY <2>1 DEF Init, Suspending, Goroutine
<1>2. TypeInv /\ OpsInv /\ OwnOp /\ WakeInv => NoLostWakeup
  <2> SUFFICES ASSUME TypeInv, OpsInv, OwnOp, WakeInv, stage = "open",
                      NEW c \in Coro, co[c] = "waiting"
               PROVE  op[c] \in ops /\ Wakeup(op[c])
    BY DEF NoLostWakeup
  <2>1. op[c] \in ops /\ Held(op[c]) /\ op[c].co = c
    BY DEF WakeInv, Suspending, OwnOp
  <2>2. ASSUME NEW g \in Goroutine, posting[g] = <<Msg("exec", op[c])>> PROVE FALSE
    <3>1. posting[g] # <<>> /\ posting[g][1].typ = "exec" /\ posting[g][1].id = op[c]
      BY <2>2 DEF Msg
    <3>2. cur[g] = c /\ pc[g] = "post"
      BY <2>1, <3>1 DEF OpsInv, TokenInv, TypeInv, GoroutineInv
    <3>3. RunsLua(g)
      BY <3>1, <3>2 DEF RunsLua
    <3> QED BY <3>2, <3>3 DEF OpsInv, LuaInv
  <2>3. Wakeup(op[c])
    BY <2>1, <2>2 DEF Held, Wakeup, Queued
  <2> QED BY <2>1, <2>3
<1>3. TypeInv /\ OpsInv /\ OwnOp /\ WakeInv /\ [Next]_vars => WakeInv'
  BY WakeStep
<1> QED
  BY <1>1, <1>2, <1>3, TypeInit, TypeStep, OpsInit, OpsStep, OwnOpInit, OwnOpStep, PTL DEF Spec
=============================================================================
