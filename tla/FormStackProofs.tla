-------------------------- MODULE FormStackProofs --------------------------
(***************************************************************************)
(* Proofs about FormStack, for every set of forms and coroutines, every    *)
(* script, number of shows and capacity of the inbox.                      *)
(***************************************************************************)
EXTENDS FormStack, TLAPS

-----------------------------------------------------------------------------
(* Types.  The actor is inside of each running coroutine once, and only    *)
(* the innermost can be about to suspend in a show.                        *)

FrameInv ==
    /\ \A i \in DOMAIN frames : co[frames[i].co] = "running"
    /\ \A i, j \in DOMAIN frames : frames[i].co = frames[j].co => i = j
    /\ \A i \in DOMAIN frames :
           frames[i].where = "opened" => i = Len(frames) /\ frames[i].form \in Form

TypeInv == TypeOK /\ FrameInv

(* A coroutine that an operation other than a show will resume is suspended in it, *)
(* and a script that does not use the modal chat has no trace of it.               *)
OwedInv ==
    "agent" \notin script =>
        /\ \A c \in owed : co[c] = "parked"
        /\ formCoros[Chat] = None
        /\ \A i \in DOMAIN formStack : formStack[i] # Chat

SuspendInv == ShowSuspends /\ OwedInv

(* In a script that closes the top form and shows no form twice, the forms on the *)
(* stack are distinct and each has the coroutine that waits for it.               *)
NestInv ==
    script = {} =>
        /\ \A i, j \in DOMAIN formStack : formStack[i] = formStack[j] => i = j
        /\ \A i \in DOMAIN formStack : formCoros[formStack[i]] # None

(* TypeOK in parts. *)
EventNames == {"open_form", "after_open_form", "close_form", "on_idle", "onclick", "ai_chat_close"}

FrameType == [co : Coro, where : {"run", "opened", "return"}, form : Form \cup {None}]

StackOK ==
    /\ formStack \in Seq(AnyForm)
    /\ idle \in [AnyForm -> {"none", "armed", "fired"}]
    /\ \A f \in AnyForm \ IdleForm : idle[f] = "none"

QueueOK ==
    /\ inbox \in Seq([form : AnyForm \cup {None}, event : EventNames])
    /\ Len(inbox) <= InboxCap

CoroOK ==
    /\ co \in [Coro -> {"none", "running", "waiting", "parked", "ended"}]
    /\ at \in [Coro -> AnyForm \cup {None}]
    /\ \A c \in Coro : co[c] = "waiting" <=> at[c] # None
    /\ frames \in Seq(FrameType)
    /\ FrameInv

RestOK ==
    /\ formCoros \in [AnyForm -> Coro \cup {None}] /\ late \in [AnyForm -> Nat]
    /\ owed \subseteq Coro
    /\ booting \in BOOLEAN /\ shows \in 0..MaxShows /\ script \in Scripts

LEMMA TypeParts == TypeInv <=> StackOK /\ QueueOK /\ CoroOK /\ RestOK
  BY DEF TypeInv, TypeOK, StackOK, QueueOK, CoroOK, RestOK, EventNames, FrameType

LEMMA PrimedParts == TypeInv' <=> StackOK' /\ QueueOK' /\ CoroOK' /\ RestOK'
  BY TypeParts, PTL

LEMMA FrontFacts ==
    ASSUME NEW S, NEW s \in Seq(S), s # <<>>
    PROVE  /\ Front(s) \in Seq(S) /\ Len(Front(s)) = Len(s) - 1
           /\ DOMAIN Front(s) = 1..(Len(s) - 1)
           /\ Len(s) \in DOMAIN s /\ DOMAIN s = 1..Len(s) /\ Len(s) \in Nat
           /\ \A i \in DOMAIN Front(s) : i \in DOMAIN s /\ i # Len(s) /\ Front(s)[i] = s[i]
           /\ \A i \in DOMAIN s : i # Len(s) => i \in DOMAIN Front(s)
<1>1. Len(s) \in Nat /\ DOMAIN s = 1..Len(s) /\ Len(s) # 0 /\ \A i \in 1..Len(s) : s[i] \in S
  OBVIOUS
<1>2. 1..(Len(s) - 1) \subseteq 1..Len(s)
  BY <1>1
<1>3. Front(s) = [i \in 1..(Len(s) - 1) |-> s[i]]
  BY <1>1 DEF Front
<1>4. Len(s) - 1 \in Nat /\ \A i \in 1..(Len(s) - 1) : s[i] \in S
  BY <1>1, <1>2
<1>5. Front(s) \in Seq(S) /\ Len(Front(s)) = Len(s) - 1 /\ DOMAIN Front(s) = 1..(Len(s) - 1)
  BY <1>3, <1>4
<1> QED BY <1>1, <1>3, <1>5

LEMMA FrameOf ==
    ASSUME CoroOK, NEW i \in DOMAIN frames
    PROVE  frames[i] \in FrameType /\ frames[i].co \in Coro
<1>1. frames[i] \in FrameType
  BY DEF CoroOK
<1> QED BY <1>1 DEF FrameType

LEMMA FrameFields ==
    ASSUME NEW c \in Coro, NEW w \in {"run", "opened", "return"}, NEW f \in Form \cup {None}
    PROVE  /\ Frame(c, w, f) \in FrameType
           /\ Frame(c, w, f).co = c /\ Frame(c, w, f).where = w /\ Frame(c, w, f).form = f
  BY DEF Frame, FrameType

LEMMA TopFacts ==
    ASSUME CoroOK, frames # <<>>
    PROVE  /\ Top \in FrameType /\ Top.co \in Coro /\ co[Top.co] = "running" /\ at[Top.co] = None
           /\ Top.where = "opened" => Top.form \in Form
           /\ Top.where \in {"run", "opened", "return"} /\ Top.form \in Form \cup {None}
           /\ Len(frames) \in DOMAIN frames
<1>1. Len(frames) \in DOMAIN frames
  BY DEF CoroOK
<1>2. Top \in FrameType
  BY <1>1 DEF CoroOK, Top
<1> QED BY <1>1, <1>2 DEF CoroOK, Top, FrameType, FrameInv

(* The stack and its timers. *)
LEMMA PushOK == ASSUME StackOK, NEW f \in AnyForm, PushForm(f) PROVE StackOK'
  BY FormAssumption DEF StackOK, PushForm, startIdleTimer, AnyForm

LEMMA PopOK == ASSUME StackOK, PopForm PROVE StackOK'
<1>1. CASE formStack = <<>>
  BY <1>1 DEF PopForm, StackOK
<1>2. CASE formStack # <<>>
  <2>1. formStack' \in Seq(AnyForm)
    BY <1>2, FrontFacts DEF PopForm, StackOK
  <2>2. PICK t : t = stopIdleTimer(idle, TopForm)
    OBVIOUS
  <2>3. TopForm \in AnyForm
    BY <1>2 DEF TopForm, StackOK
  <2>4. t \in [AnyForm -> {"none", "armed", "fired"}] /\ \A f \in AnyForm \ IdleForm : t[f] = "none"
    BY <2>2, <2>3 DEF stopIdleTimer, StackOK
  <2>5. idle' = IF Len(formStack) > 1 THEN startIdleTimer(t, formStack[Len(formStack) - 1]) ELSE t
    BY <1>2, <2>2 DEF PopForm
  <2>6. Len(formStack) > 1 => formStack[Len(formStack) - 1] \in AnyForm
    BY DEF StackOK
  <2> QED BY <2>1, <2>4, <2>5, <2>6 DEF StackOK, startIdleTimer
<1> QED BY <1>1, <1>2

LEMMA PostOK ==
    ASSUME QueueOK, NEW f \in AnyForm \cup {None}, NEW e \in EventNames, Post(Msg(f, e))
    PROVE  QueueOK'
<1>1. Msg(f, e) \in [form : AnyForm \cup {None}, event : EventNames]
  BY DEF Msg
<1> QED BY <1>1, FormAssumption DEF Post, QueueOK

LEMMA ReceiveOK == ASSUME QueueOK, Receive PROVE QueueOK'
  BY FormAssumption DEF Receive, QueueOK

(* Coroutines and frames. *)
LEMMA StopOK ==
    ASSUME CoroOK, frames # <<>>, NEW s \in {"waiting", "parked", "ended"}, NEW f \in AnyForm \cup {None},
           s = "waiting" <=> f # None, Stop(s, f)
    PROVE  CoroOK'
<1>1. PICK d : d = Top.co
  OBVIOUS
<1>2. /\ d \in Coro /\ co' = [co EXCEPT ![d] = s] /\ at' = [at EXCEPT ![d] = f] /\ frames' = Front(frames)
      /\ d = frames[Len(frames)].co
  BY <1>1, TopFacts DEF Stop, Top
<1>3. /\ frames' \in Seq(FrameType) /\ Len(frames') = Len(frames) - 1
      /\ \A i \in DOMAIN frames' : i \in DOMAIN frames /\ i # Len(frames) /\ frames'[i] = frames[i]
      /\ Len(frames) \in DOMAIN frames
  BY <1>2, FrontFacts DEF CoroOK
<1>4. \A i \in DOMAIN frames : frames[i].co \in Coro
  BY FrameOf
<1>5. FrameInv'
  BY <1>2, <1>3, <1>4 DEF CoroOK, FrameInv
<1>6. /\ co' \in [Coro -> {"none", "running", "waiting", "parked", "ended"}]
      /\ at' \in [Coro -> AnyForm \cup {None}]
      /\ \A c \in Coro : co'[c] = "waiting" <=> at'[c] # None
  BY <1>2 DEF CoroOK
<1> QED BY <1>3, <1>5, <1>6 DEF CoroOK

(* The innermost coroutine goes on, somewhere else. *)
LEMMA SwapOK ==
    ASSUME CoroOK, frames # <<>>, NEW w \in {"run", "opened", "return"}, NEW f \in Form \cup {None},
           w = "opened" => f \in Form,
           frames' = Append(Front(frames), Frame(Top.co, w, f)), UNCHANGED <<co, at>>
    PROVE  CoroOK'
<1>1. PICK x : x = Frame(Top.co, w, f)
  OBVIOUS
<1>2. /\ x \in FrameType /\ x.co = frames[Len(frames)].co /\ x.where = w /\ x.form = f
  BY <1>1, TopFacts, FrameFields DEF Top
<1>3. /\ Front(frames) \in Seq(FrameType) /\ Len(Front(frames)) = Len(frames) - 1
      /\ \A i \in DOMAIN Front(frames) : i \in DOMAIN frames /\ i # Len(frames) /\ Front(frames)[i] = frames[i]
      /\ DOMAIN Front(frames) = 1..(Len(frames) - 1)
      /\ Len(frames) \in DOMAIN frames /\ Len(frames) \in Nat
  BY FrontFacts DEF CoroOK
<1>4. /\ frames' \in Seq(FrameType) /\ Len(frames') = Len(frames) /\ frames'[Len(frames)] = x
      /\ \A i \in DOMAIN frames' : i \in DOMAIN frames /\ (i # Len(frames) => frames'[i] = frames[i])
  BY <1>1, <1>2, <1>3
<1>5. FrameInv'
  BY <1>2, <1>3, <1>4 DEF CoroOK, FrameInv
<1> QED BY <1>4, <1>5 DEF CoroOK

(* A coroutine that is not running starts to run inside of the innermost. *)
LEMMA EnterOK ==
    ASSUME CoroOK, frames # <<>> => Top.where # "opened", NEW c \in Coro, co[c] # "running",
           co' = [co EXCEPT ![c] = "running"], at' = [at EXCEPT ![c] = None],
           frames' = Append(frames, Frame(c, "run", None))
    PROVE  CoroOK'
<1>1. PICK x : x = Frame(c, "run", None)
  OBVIOUS
<1>2. x \in FrameType /\ x.co = c /\ x.where = "run"
  BY <1>1, FrameFields
<1>3. /\ frames' \in Seq(FrameType) /\ Len(frames') = Len(frames) + 1 /\ frames'[Len(frames) + 1] = x
      /\ \A i \in DOMAIN frames' : i # Len(frames) + 1 => i \in DOMAIN frames /\ frames'[i] = frames[i]
  BY <1>1, <1>2 DEF CoroOK
<1>4. \A i \in DOMAIN frames : frames[i].co # c /\ frames[i].co \in Coro /\ frames[i].where # "opened"
  <2>1. \A i \in DOMAIN frames : frames[i].co # c /\ frames[i].co \in Coro
    BY FrameOf DEF CoroOK, FrameInv
  <2>2. DOMAIN frames # {} => frames # <<>>
    OBVIOUS
  <2>3. \A i \in DOMAIN frames : frames[i].where # "opened"
    BY <2>2 DEF CoroOK, FrameInv, Top
  <2> QED BY <2>1, <2>3
<1>5. FrameInv'
  <2>1. \A i \in DOMAIN frames' : co'[frames'[i].co] = "running"
    BY <1>2, <1>3, <1>4 DEF CoroOK, FrameInv
  <2>2. \A i, j \in DOMAIN frames' : frames'[i].co = frames'[j].co => i = j
    BY <1>2, <1>3, <1>4 DEF CoroOK, FrameInv
  <2>3. \A i \in DOMAIN frames' : frames'[i].where # "opened"
    BY <1>2, <1>3, <1>4
  <2> QED BY <2>1, <2>2, <2>3 DEF FrameInv
<1>6. /\ co' \in [Coro -> {"none", "running", "waiting", "parked", "ended"}]
      /\ at' \in [Coro -> AnyForm \cup {None}]
      /\ \A d \in Coro : co'[d] = "waiting" <=> at'[d] # None
  BY DEF CoroOK
<1> QED BY <1>3, <1>5, <1>6 DEF CoroOK

LEMMA ResumeOK ==
    ASSUME CoroOK, frames # <<>> => Top.where # "opened", NEW c \in Coro \cup {None}, Resume(c, frames)
    PROVE  CoroOK'
<1>1. CASE c # None /\ co[c] \in {"waiting", "parked"}
  <2>1. /\ co' = [co EXCEPT ![c] = "running"] /\ at' = [at EXCEPT ![c] = None]
        /\ frames' = Append(frames, Frame(c, "run", None)) /\ c \in Coro /\ co[c] # "running"
    BY <1>1 DEF Resume
  <2> QED BY <2>1, EnterOK
<1>2. CASE ~(c # None /\ co[c] \in {"waiting", "parked"})
  BY <1>2 DEF Resume, CoroOK, FrameInv
<1> QED BY <1>1, <1>2

LEMMA ResumeFormOK ==
    ASSUME CoroOK, RestOK, frames # <<>> => Top.where # "opened", NEW f \in AnyForm \cup {None},
           ResumeFormCoroWith(f, frames)
    PROVE  CoroOK' /\ formCoros' \in [AnyForm -> Coro \cup {None}]
<1>1. PICK c : c = IF f = None THEN None ELSE formCoros[f]
  OBVIOUS
<1>2. c \in Coro \cup {None} /\ Resume(c, frames)
  BY <1>1 DEF ResumeFormCoroWith, RestOK
<1>3. CoroOK'
  BY <1>2, ResumeOK
<1> QED BY <1>3 DEF ResumeFormCoroWith, RestOK

LEMMA TopFormType == ASSUME StackOK PROVE TopForm \in AnyForm \cup {None}
  BY DEF TopForm, StackOK

LEMMA TypeInit == Init => TypeInv
<1> SUFFICES ASSUME Init PROVE StackOK /\ QueueOK /\ CoroOK /\ RestOK
  BY TypeParts
<1> USE FormAssumption DEF Init
<1>1. StackOK
  BY DEF StackOK
<1>2. QueueOK
  BY DEF QueueOK
<1>3. CoroOK
  <2>1. PICK x : x = Frame(Main, "run", None)
    OBVIOUS
  <2>2. x \in FrameType /\ x.co = Main /\ x.where = "run" /\ frames = <<x>>
    BY <2>1, FrameFields
  <2>3. frames \in Seq(FrameType) /\ \A i \in DOMAIN frames : frames[i] = x /\ i = 1
    BY <2>2
  <2>4. FrameInv
    BY <2>2, <2>3 DEF FrameInv
  <2> QED BY <2>3, <2>4 DEF CoroOK
<1>4. RestOK
  BY DEF RestOK
<1> QED BY <1>1, <1>2, <1>3, <1>4

LEMMA TypeStep == TypeInv /\ [Next]_vars => TypeInv'
<1> SUFFICES ASSUME StackOK, QueueOK, CoroOK, RestOK, [Next]_vars
             PROVE  StackOK' /\ QueueOK' /\ CoroOK' /\ RestOK'
  BY TypeParts, PrimedParts
<1> DEFINE Goal == StackOK' /\ QueueOK' /\ CoroOK' /\ RestOK'
<1> USE FormAssumption
<1>s. ASSUME UNCHANGED <<formStack, idle>> PROVE StackOK'
  BY <1>s DEF StackOK
<1>i. ASSUME UNCHANGED inbox PROVE QueueOK'
  BY <1>i DEF QueueOK
<1>c. ASSUME UNCHANGED <<co, at, frames>> PROVE CoroOK'
  BY <1>c DEF CoroOK, FrameInv
<1>n. {"open_form", "after_open_form", "close_form", "on_idle", "onclick", "ai_chat_close"} = EventNames
  BY DEF EventNames
<1>t. TopForm \in AnyForm \cup {None}
  BY TopFormType
<1>1. ASSUME NEW c \in Coro, NEW f \in Form, Show(c, f) PROVE Goal
  <2>1. f \in AnyForm /\ frames # <<>> /\ Top.co = c
    BY <1>1 DEF AnyForm, Show, Runs
  <2>2. StackOK'
    BY <1>1, <2>1, PushOK DEF Show
  <2>3. QueueOK'
    BY <1>1, <1>n, <2>1, PostOK DEF Show
  <2>4. CoroOK'
    BY <1>1, <2>1, SwapOK DEF Show
  <2>5. RestOK'
    BY <1>1, <2>1 DEF Show, RestOK
  <2> QED BY <2>2, <2>3, <2>4, <2>5
<1>2. ASSUME NEW c \in Coro, Shown(c) PROVE Goal
  <2>1. frames # <<>> /\ Top.where = "opened" /\ Top.form \in Form /\ Top.form \in AnyForm /\ Top.form # None
    BY <1>2, TopFacts DEF Shown, AnyForm
  <2>2. QueueOK'
    BY <1>2, <1>n, <2>1, PostOK DEF Shown
  <2>3. CoroOK'
    BY <1>2, <2>1, StopOK DEF Shown
  <2>4. RestOK'
    BY <1>2 DEF Shown, Stop, RestOK
  <2> QED BY <1>2, <1>s, <2>2, <2>3, <2>4 DEF Shown
<1>3. ASSUME NEW c \in Coro, NEW f \in AnyForm \cup {None}, FormClose(c, f) PROVE Goal
  <2>1. frames # <<>> /\ Top.where # "opened"
    BY <1>3 DEF FormClose, Runs
  <2>2. CoroOK' /\ formCoros' \in [AnyForm -> Coro \cup {None}]
    BY <1>3, <2>1, ResumeFormOK DEF FormClose
  <2>3. StackOK'
    BY <1>3, PopOK DEF FormClose
  <2>4. QueueOK'
    BY <1>3, <1>n, PostOK DEF FormClose
  <2> QED BY <1>3, <2>2, <2>3, <2>4 DEF FormClose, RestOK
<1>4. ASSUME NEW c \in Coro, NEW f \in Form, ReturnTo(c, f) PROVE Goal
  <2>1. frames # <<>> /\ Top.co = c
    BY <1>4 DEF ReturnTo, Runs
  <2>2. CoroOK'
    BY <1>4, <2>1, SwapOK DEF ReturnTo
  <2> QED BY <1>4, <1>s, <1>i, <2>2 DEF ReturnTo, RestOK
<1>5. CASE ReturnLoop
  <2>1. frames # <<>> /\ Top.where # "opened"
    BY <1>5 DEF ReturnLoop
  <2>2. CoroOK' /\ formCoros' \in [AnyForm -> Coro \cup {None}]
    BY <1>5, <1>t, <2>1, ResumeFormOK DEF ReturnLoop
  <2>3. StackOK'
    BY <1>5, PopOK DEF ReturnLoop
  <2>4. QueueOK'
    BY <1>5, <1>n, <1>t, PostOK DEF ReturnLoop
  <2> QED BY <1>5, <2>2, <2>3, <2>4 DEF ReturnLoop, RestOK
<1>6. CASE ReturnDone
  <2>1. CoroOK'
    BY <1>6, SwapOK DEF ReturnDone
  <2> QED BY <1>6, <1>s, <1>i, <2>1 DEF ReturnDone, RestOK
<1>7. ASSUME NEW c \in Coro, AIAgent(c) PROVE Goal
  <2>1. Chat \in AnyForm /\ Chat # None /\ frames # <<>>
    BY <1>7 DEF AIAgent, AnyForm, Runs
  <2>2. StackOK'
    BY <1>7, <2>1, PushOK DEF AIAgent
  <2>3. CoroOK'
    <3>1. CASE UNCHANGED <<co, at, frames>>
      BY <1>c, <3>1
    <3>2. CASE Stop("waiting", Chat)
      BY <2>1, <3>2, StopOK
    <3> QED BY <1>7, <3>1, <3>2 DEF AIAgent
  <2>4. RestOK'
    <3>1. (booting' = booting) \/ (booting' = (booting /\ Len(frames) > 1))
      BY <1>7 DEF AIAgent, Stop
    <3>2. booting' \in BOOLEAN
      BY <3>1 DEF RestOK
    <3>3. /\ formCoros' = [formCoros EXCEPT ![Chat] = c] /\ shows' = shows + 1 /\ shows < MaxShows
          /\ UNCHANGED <<late, owed, script>>
      BY <1>7 DEF AIAgent
    <3> QED BY <2>1, <3>2, <3>3 DEF RestOK
  <2> QED BY <1>7, <1>i, <2>2, <2>3, <2>4 DEF AIAgent
<1>8. ASSUME NEW c \in Coro, Finish(c) \/ Park(c) PROVE Goal
  <2>1. frames # <<>> /\ UNCHANGED <<formStack, idle, inbox, formCoros, late, shows, script>>
    BY <1>8 DEF Finish, Park, Runs
  <2>2. CoroOK'
    BY <1>8, <2>1, StopOK DEF Finish, Park
  <2>3. RestOK'
    BY <1>8, <2>1 DEF Finish, Park, Stop, RestOK
  <2> QED BY <1>s, <1>i, <2>1, <2>2, <2>3
<1>9. ASSUME NEW c \in Coro, HandleEvent(c) PROVE Goal
  <2>1. frames = <<>> /\ co[c] = "none" /\ co' = [co EXCEPT ![c] = "running"]
    BY <1>9 DEF HandleEvent, Receive
  <2>2. at' = [at EXCEPT ![c] = None] /\ frames' = Append(frames, Frame(c, "run", None))
    BY <1>9, <2>1 DEF HandleEvent, CoroOK
  <2>3. CoroOK'
    BY <2>1, <2>2, EnterOK
  <2>4. QueueOK'
    BY <1>9, ReceiveOK DEF HandleEvent
  <2> QED BY <1>9, <1>s, <2>3, <2>4 DEF HandleEvent, RestOK
<1>10. CASE Unhandled
  BY <1>10, <1>s, <1>c, ReceiveOK DEF Unhandled, RestOK
<1>11. CASE handleAIChatClose
  <2>1. frames = <<>> /\ ResumeFormCoroWith(Chat, frames) /\ Chat \in AnyForm
    BY <1>11 DEF handleAIChatClose, Receive, AnyForm
  <2>2. CoroOK' /\ formCoros' \in [AnyForm -> Coro \cup {None}]
    BY <2>1, ResumeFormOK
  <2>3. QueueOK'
    BY <1>11, ReceiveOK DEF handleAIChatClose
  <2> QED BY <1>11, <1>s, <2>2, <2>3 DEF handleAIChatClose, RestOK
<1>12. ASSUME NEW c \in Coro, Wake(c) PROVE Goal
  <2>1. CoroOK'
    <3>1. CASE UNCHANGED <<co, at, frames>>
      BY <1>c, <3>1
    <3>2. CASE /\ co' = [co EXCEPT ![c] = "running"] /\ at' = [at EXCEPT ![c] = None]
               /\ frames' = <<Frame(c, "run", None)>>
      <4>1. frames = <<>> /\ frames' = Append(<<>>, Frame(c, "run", None))
        BY <1>12, <3>2 DEF Wake
      <4>2. PICK x : x = Frame(c, "run", None)
        OBVIOUS
      <4>3. x \in FrameType /\ x.co = c /\ x.where = "run" /\ frames' = <<x>>
        BY <3>2, <4>2, FrameFields
      <4>4. frames' \in Seq(FrameType) /\ \A i \in DOMAIN frames' : frames'[i] = x /\ i = 1
        BY <4>3
      <4>5. FrameInv'
        BY <3>2, <4>3, <4>4 DEF FrameInv, CoroOK
      <4> QED BY <3>2, <4>4, <4>5 DEF CoroOK
    <3> QED BY <1>12, <3>1, <3>2 DEF Wake
  <2> QED BY <1>12, <1>s, <1>i, <2>1 DEF Wake, RestOK
<1>13. ASSUME NEW f \in AnyForm, Click(f) \/ IdlePosts(f) PROVE Goal
  <2>1. QueueOK'
    BY <1>13, <1>n, PostOK DEF Click, IdlePosts
  <2>2. late' \in [AnyForm -> Nat]
    BY <1>13 DEF Click, IdlePosts, RestOK
  <2> QED BY <1>13, <1>s, <1>c, <2>1, <2>2 DEF Click, IdlePosts, RestOK
<1>14. ASSUME NEW f \in AnyForm, IdleFires(f) PROVE Goal
  <2>1. StackOK'
    BY <1>14 DEF IdleFires, StackOK
  <2> QED BY <1>14, <1>i, <1>c, <2>1 DEF IdleFires, RestOK
<1>15. CASE CloseChat
  <2>1. QueueOK'
    BY <1>15, <1>n, PostOK DEF CloseChat, AnyForm
  <2> QED BY <1>15, <1>s, <1>c, <2>1 DEF CloseChat, RestOK
<1>16. CASE UNCHANGED vars
  BY <1>16, <1>s, <1>i, <1>c DEF vars, RestOK
<1> QED BY <1>1, <1>2, <1>3, <1>4, <1>5, <1>6, <1>7, <1>8, <1>9, <1>10, <1>11, <1>12, <1>13, <1>14,
           <1>15, <1>16 DEF Next, Binding

-----------------------------------------------------------------------------
(* Idle timers. *)

LEMMA StackMoves ==
    ASSUME [Next]_vars
    PROVE  \/ UNCHANGED <<formStack, idle>>
           \/ PopForm
           \/ \E f \in AnyForm : PushForm(f)
           \/ \E f \in AnyForm : IdleFires(f)
  BY DEF Next, vars, Binding, Show, Shown, FormClose, ReturnTo, ReturnLoop, ReturnDone, AIAgent, Finish,
         Park, HandleEvent, Unhandled, handleAIChatClose, Wake, Click, IdlePosts, CloseChat, AnyForm

(* PushForm and PopForm keep the idle timers with the stack, whatever order forms are
   shown and closed in: a form that is off the stack has no timer left to fire, and
   the form on top has had its own started. *)
THEOREM IdleCorrect == Spec => []IdleTracksStack
<1>1. Init => IdleTracksStack
  BY FormAssumption DEF Init, IdleTracksStack, TopForm
<1>2. TypeInv /\ IdleTracksStack /\ [Next]_vars => IdleTracksStack'
  <2> SUFFICES ASSUME StackOK, IdleTracksStack, [Next]_vars PROVE IdleTracksStack'
    BY TypeParts
  <2> USE FormAssumption
  <2>1. CASE UNCHANGED <<formStack, idle>>
    BY <2>1 DEF IdleTracksStack, TopForm, Range
  <2>2. ASSUME NEW f \in AnyForm, PushForm(f) PROVE IdleTracksStack'
    <3>1. formStack' = Append(formStack, f)
      BY <2>2 DEF PushForm
    <3>2. formStack' # <<>> /\ formStack'[Len(formStack')] = f /\ Range(formStack') = Range(formStack) \cup {f}
      BY <3>1 DEF StackOK, Range
    <3>3. TopForm' = f
      BY <3>2 DEF TopForm
    <3>4. /\ f \in IdleForm => idle'[f] # "none"
          /\ \A g \in AnyForm : g # f => idle'[g] = idle[g]
      BY <2>2 DEF PushForm, startIdleTimer, StackOK
    <3> QED BY <3>2, <3>3, <3>4 DEF IdleTracksStack
  <2>3. CASE PopForm
    <3>1. CASE formStack = <<>>
      BY <2>1, <2>3, <3>1 DEF PopForm
    <3>2. CASE formStack # <<>>
      <4>1. /\ Len(formStack') = Len(formStack) - 1 /\ formStack' = Front(formStack)
            /\ \A i \in DOMAIN formStack : i # Len(formStack) => i \in DOMAIN formStack' /\ formStack'[i] = formStack[i]
            /\ Len(formStack) \in DOMAIN formStack /\ Len(formStack) \in Nat /\ DOMAIN formStack = 1..Len(formStack)
            /\ formStack' \in Seq(AnyForm)
        BY <2>3, <3>2, FrontFacts DEF PopForm, StackOK
      <4>2. PICK h : h = formStack[Len(formStack)] /\ h = TopForm /\ h \in AnyForm
        BY <3>2, <4>1 DEF TopForm, StackOK
      <4>3. \A g \in Range(formStack) : g = h \/ g \in Range(formStack')
        BY <4>1, <4>2 DEF Range
      <4>4. PICK t : t = stopIdleTimer(idle, h)
        OBVIOUS
      <4>5. /\ t \in [AnyForm -> {"none", "armed", "fired"}] /\ t[h] = "none"
            /\ \A g \in AnyForm : t[g] # "none" => idle[g] # "none" /\ g # h
        BY <4>2, <4>4 DEF stopIdleTimer, StackOK
      <4>6. idle' = IF Len(formStack) > 1 THEN startIdleTimer(t, formStack[Len(formStack) - 1]) ELSE t
        BY <2>3, <3>2, <4>2, <4>4 DEF PopForm
      <4>7. \A g \in AnyForm : t[g] # "none" => g \in Range(formStack')
        BY <4>3, <4>5 DEF IdleTracksStack
      <4>8. CASE Len(formStack) > 1
        <5>1. PICK g : g = formStack[Len(formStack) - 1]
          OBVIOUS
        <5>2. /\ g = formStack'[Len(formStack')] /\ Len(formStack') \in DOMAIN formStack' /\ formStack' # <<>>
              /\ g \in AnyForm
          BY <4>1, <4>8, <5>1
        <5>3. g = TopForm' /\ g \in Range(formStack')
          BY <5>2 DEF TopForm, Range
        <5>4. /\ g \in IdleForm => idle'[g] # "none"
              /\ \A d \in AnyForm : d # g => idle'[d] = t[d]
          BY <4>5, <4>6, <4>8, <5>1, <5>2 DEF startIdleTimer
        <5> QED BY <4>7, <5>3, <5>4 DEF IdleTracksStack
      <4>9. CASE ~(Len(formStack) > 1)
        <5>1. Len(formStack') = 0
          BY <4>1, <4>9
        <5>2. formStack' = <<>>
          BY <4>1, <5>1
        <5>3. TopForm' = None /\ idle' = t
          BY <4>6, <4>9, <5>2 DEF TopForm
        <5> QED BY <4>7, <5>3 DEF IdleTracksStack
      <4> QED BY <4>8, <4>9
    <3> QED BY <3>1, <3>2
  <2>4. ASSUME NEW f \in AnyForm, IdleFires(f) PROVE IdleTracksStack'
    BY <2>4 DEF IdleFires, IdleTracksStack, TopForm, Range, StackOK
  <2> QED BY <2>1, <2>2, <2>3, <2>4, StackMoves
<1> QED BY <1>1, <1>2, TypeInit, TypeStep, PTL DEF Spec

-----------------------------------------------------------------------------
(* Suspensions. *)

(* A coroutine suspended in a show stays so when another one stops or goes on. *)
LEMMA StopSuspended ==
    ASSUME CoroOK, RestOK, frames # <<>>, NEW s, NEW g, Stop(s, g), UNCHANGED formCoros,
           Top.where = "opened" => g = Top.form, NEW f \in AnyForm, Suspended(f)
    PROVE  Suspended(f)'
<1>1. PICK c : c = formCoros[f]
  OBVIOUS
<1>2. CASE c = None
  BY <1>1, <1>2 DEF Suspended
<1>3. CASE c # None
  <2>1. c \in Coro /\ f # None
    BY <1>1, <1>3, FormAssumption DEF RestOK, AnyForm
  <2>2. PICK d : d = Top.co
    OBVIOUS
  <2>3. /\ d \in Coro /\ at[d] = None /\ at' = [at EXCEPT ![d] = g] /\ frames' = Front(frames)
    BY <2>2, TopFacts DEF Stop
  <2>4. CASE at[c] = f
    BY <1>1, <2>1, <2>3, <2>4 DEF Suspended, CoroOK
  <2>5. ASSUME NEW i \in DOMAIN frames, frames[i] = Frame(c, "opened", f) PROVE Suspended(f)'
    <3>1. frames[i].co = c /\ frames[i].where = "opened" /\ frames[i].form = f
      BY <2>5 DEF Frame
    <3>2. i = Len(frames)
      BY <3>1 DEF CoroOK, FrameInv
    <3>3. Top.co = c /\ g = f
      BY <3>1, <3>2 DEF Top
    <3>4. at'[c] = f
      BY <2>2, <2>3, <3>3 DEF CoroOK
    <3> QED BY <1>1, <3>4 DEF Suspended
  <2> QED BY <1>1, <1>3, <2>4, <2>5 DEF Suspended
<1> QED BY <1>2, <1>3

LEMMA SwapSuspended ==
    ASSUME CoroOK, RestOK, frames # <<>>, NEW x, frames' = Append(Front(frames), x), UNCHANGED <<at, co>>,
           Top.where # "opened", NEW f \in AnyForm, formCoros'[f] = formCoros[f], Suspended(f)
    PROVE  Suspended(f)'
<1>1. ASSUME NEW i \in DOMAIN frames, NEW c, frames[i] = Frame(c, "opened", f) PROVE FALSE
  <2>1. frames[i].where = "opened"
    BY <1>1 DEF Frame
  <2> QED BY <2>1 DEF CoroOK, FrameInv, Top
<1> QED BY <1>1 DEF Suspended

(* ResumeFormCoroWith finds the coroutine in the show it was stored for, or not at all. *)
LEMMA ResumeSuspended ==
    ASSUME CoroOK, RestOK, frames # <<>> => Top.where # "opened", NEW g \in AnyForm \cup {None},
           ResumeFormCoroWith(g, frames), \A f \in AnyForm : Suspended(f)
    PROVE  /\ \A f \in AnyForm : Suspended(f)'
           /\ \/ UNCHANGED <<co, at, frames>> /\ (g = None \/ formCoros[g] = None)
              \/ /\ g # None /\ formCoros[g] \in Coro /\ at[formCoros[g]] = g
                 /\ co' = [co EXCEPT ![formCoros[g]] = "running"]
                 /\ at' = [at EXCEPT ![formCoros[g]] = None]
                 /\ frames' = Append(frames, Frame(formCoros[g], "run", None))
           /\ formCoros' = IF g = None THEN formCoros ELSE [formCoros EXCEPT ![g] = None]
<1>0. formCoros' = IF g = None THEN formCoros ELSE [formCoros EXCEPT ![g] = None]
  BY DEF ResumeFormCoroWith
<1>a. None \notin AnyForm /\ None \notin Coro
  BY FormAssumption DEF AnyForm
<1>b. \A i \in DOMAIN frames : frames[i].where # "opened"
  <2>1. DOMAIN frames # {} => frames # <<>>
    OBVIOUS
  <2> QED BY <2>1 DEF CoroOK, FrameInv, Top
<1>c. \A f \in AnyForm : formCoros[f] # None => at[formCoros[f]] = f
  <2> SUFFICES ASSUME NEW f \in AnyForm, formCoros[f] # None, at[formCoros[f]] # f PROVE FALSE
    OBVIOUS
  <2>1. PICK i \in DOMAIN frames : frames[i] = Frame(formCoros[f], "opened", f)
    BY DEF Suspended
  <2>2. frames[i].where = "opened"
    BY <2>1 DEF Frame
  <2> QED BY <1>b, <2>2
<1>1. CASE g = None \/ formCoros[g] = None
  <2>1. UNCHANGED <<co, at, frames>>
    BY <1>1 DEF ResumeFormCoroWith, Resume
  <2>2. \A f \in AnyForm : formCoros'[f] = formCoros[f] \/ formCoros'[f] = None
    BY <1>0 DEF RestOK
  <2>3. \A f \in AnyForm : Suspended(f)'
    BY <1>c, <2>1, <2>2 DEF Suspended
  <2> QED BY <1>0, <1>1, <2>1, <2>3
<1>2. CASE g # None /\ formCoros[g] # None
  <2>1. PICK c : c = formCoros[g]
    OBVIOUS
  <2>2. c \in Coro /\ at[c] = g /\ co[c] = "waiting" /\ g \in AnyForm
    BY <1>2, <1>a, <1>c, <2>1 DEF RestOK, CoroOK
  <2>3. /\ co' = [co EXCEPT ![c] = "running"] /\ at' = [at EXCEPT ![c] = None]
        /\ frames' = Append(frames, Frame(c, "run", None))
    BY <1>2, <2>1, <2>2 DEF ResumeFormCoroWith, Resume
  <2>4. ASSUME NEW f \in AnyForm PROVE Suspended(f)'
    <3>1. CASE f = g
      BY <1>0, <1>2, <3>1 DEF Suspended, RestOK
    <3>2. CASE f # g /\ formCoros[f] = None
      BY <1>0, <1>2, <3>2 DEF Suspended, RestOK
    <3>3. CASE f # g /\ formCoros[f] # None
      <4>1. formCoros'[f] = formCoros[f] /\ formCoros[f] \in Coro /\ at[formCoros[f]] = f
        BY <1>0, <1>2, <1>c, <3>3 DEF RestOK
      <4>2. at'[formCoros[f]] = f
        BY <2>2, <2>3, <3>3, <4>1 DEF CoroOK
      <4> QED BY <4>1, <4>2 DEF Suspended
    <3> QED BY <3>1, <3>2, <3>3
  <2> QED BY <1>0, <1>2, <2>1, <2>2, <2>3, <2>4
<1> QED BY <1>1, <1>2

(* A coroutine that waits for no form starts to run while the actor is idle. *)
LEMMA EnterSuspended ==
    ASSUME CoroOK, RestOK, frames = <<>>, NEW c \in Coro, co[c] \notin {"waiting", "running"},
           at' = at \/ at' = [at EXCEPT ![c] = None], UNCHANGED formCoros,
           NEW f \in AnyForm, Suspended(f)
    PROVE  Suspended(f)'
<1>1. DOMAIN frames = {} /\ at[c] = None /\ f # None
  BY FormAssumption DEF CoroOK, AnyForm
<1>2. \A d \in Coro : at'[d] = at[d]
  BY <1>1 DEF CoroOK
<1> QED BY <1>1, <1>2 DEF Suspended, RestOK

LEMMA ScriptMoves == [Next]_vars => UNCHANGED script
  BY DEF Next, vars, Binding, Show, Shown, FormClose, ReturnTo, ReturnLoop, ReturnDone, AIAgent, Finish,
         Park, HandleEvent, Unhandled, handleAIChatClose, Wake, Click, IdleFires, IdlePosts, CloseChat

(* What a pop or a push leaves on the stack. *)
LEMMA PopRange ==
    ASSUME StackOK, PopForm
    PROVE  \A i \in DOMAIN formStack' : i \in DOMAIN formStack /\ formStack'[i] = formStack[i]
<1>1. CASE formStack = <<>>
  BY <1>1 DEF PopForm
<1>2. CASE formStack # <<>>
  BY <1>2, FrontFacts DEF PopForm, StackOK
<1> QED BY <1>1, <1>2

LEMMA SuspendStep == TypeInv /\ SuspendInv /\ [Next]_vars => SuspendInv'
<1> SUFFICES ASSUME StackOK, QueueOK, CoroOK, RestOK, SuspendInv, [Next]_vars, "agent" \notin script'
             PROVE  /\ \A f \in AnyForm : Suspended(f)'
                    /\ \A c \in owed' : co'[c] = "parked"
                    /\ formCoros'[Chat] = None
                    /\ \A i \in DOMAIN formStack' : formStack'[i] # Chat
  BY TypeParts DEF SuspendInv, ShowSuspends, OwedInv
<1> DEFINE Goal == /\ \A f \in AnyForm : Suspended(f)'
                   /\ \A c \in owed' : co'[c] = "parked"
                   /\ formCoros'[Chat] = None
                   /\ \A i \in DOMAIN formStack' : formStack'[i] # Chat
<1>0. /\ "agent" \notin script /\ \A f \in AnyForm : Suspended(f)
      /\ \A c \in owed : co[c] = "parked"
      /\ formCoros[Chat] = None
      /\ \A i \in DOMAIN formStack : formStack[i] # Chat
  BY ScriptMoves DEF SuspendInv, ShowSuspends, OwedInv
<1>a. /\ None \notin AnyForm /\ None \notin Coro /\ Chat \in AnyForm /\ Chat \notin Form
      /\ Form \subseteq AnyForm
  BY FormAssumption DEF AnyForm
<1>1. ASSUME UNCHANGED <<formStack, formCoros, co, at, frames, owed>> PROVE Goal
  BY <1>0, <1>1 DEF Suspended
<1>2. ASSUME NEW c \in Coro, NEW f \in Form, Show(c, f) PROVE Goal
  <2>1. /\ frames # <<>> /\ Top.co = c /\ Top.where = "run" /\ co[c] = "running" /\ at[c] = None
    BY <1>2, TopFacts DEF Show, Runs
  <2>2. /\ formCoros' = [formCoros EXCEPT ![f] = c] /\ UNCHANGED <<co, at, owed>>
        /\ frames' = Append(Front(frames), Frame(c, "opened", f))
        /\ formStack' = Append(formStack, f)
    BY <1>2 DEF Show, PushForm
  <2>3. Suspended(f)'
    <3>1. Front(frames) \in Seq(FrameType)
      BY <2>1, FrontFacts DEF CoroOK
    <3>2. /\ Len(Front(frames)) + 1 \in DOMAIN frames'
          /\ frames'[Len(Front(frames)) + 1] = Frame(c, "opened", f)
      BY <2>2, <3>1
    <3>3. formCoros'[f] = c
      BY <1>a, <2>2 DEF RestOK
    <3> QED BY <3>2, <3>3 DEF Suspended
  <2>4. ASSUME NEW g \in AnyForm, g # f PROVE Suspended(g)'
    <3>1. formCoros'[g] = formCoros[g]
      BY <2>2, <2>4 DEF RestOK
    <3> QED BY <1>0, <2>1, <2>2, <3>1, SwapSuspended
  <2>5. formCoros'[Chat] = None
    BY <1>0, <1>a, <2>2 DEF RestOK
  <2>6. \A i \in DOMAIN formStack' : formStack'[i] # Chat
    <3>1. \A i \in DOMAIN formStack' : formStack'[i] = f \/ (i \in DOMAIN formStack /\ formStack'[i] = formStack[i])
      BY <2>2 DEF StackOK
    <3> QED BY <1>0, <1>a, <3>1
  <2> QED BY <1>0, <2>2, <2>3, <2>4, <2>5, <2>6
<1>3. ASSUME NEW c \in Coro, Shown(c) PROVE Goal
  <2>1. frames # <<>> /\ Stop("waiting", Top.form) /\ UNCHANGED <<formStack, formCoros, owed>>
    BY <1>3 DEF Shown
  <2>2. \A f \in AnyForm : Suspended(f)'
    BY <1>0, <2>1, StopSuspended
  <2>3. \A d \in owed' : co'[d] = "parked"
    BY <1>0, <2>1, TopFacts DEF Stop, CoroOK, RestOK
  <2> QED BY <1>0, <2>1, <2>2, <2>3
<1>4. ASSUME NEW c \in Coro, Finish(c) PROVE Goal
  <2>1. /\ frames # <<>> /\ Top.where # "opened" /\ Stop("ended", None)
        /\ UNCHANGED <<formStack, formCoros, owed>>
    BY <1>4 DEF Finish, Runs
  <2>2. \A f \in AnyForm : Suspended(f)'
    BY <1>0, <2>1, StopSuspended
  <2>3. \A d \in owed' : co'[d] = "parked"
    BY <1>0, <2>1, TopFacts DEF Stop, CoroOK, RestOK
  <2> QED BY <1>0, <2>1, <2>2, <2>3
<1>5. ASSUME NEW c \in Coro, Park(c) PROVE Goal
  <2>1. /\ frames # <<>> /\ Top.where # "opened" /\ Stop("parked", None) /\ Top.co = c
        /\ UNCHANGED <<formStack, formCoros>> /\ owed' = owed \cup {c}
    BY <1>5 DEF Park, Runs
  <2>2. \A f \in AnyForm : Suspended(f)'
    BY <1>0, <2>1, StopSuspended
  <2>3. \A d \in owed' : co'[d] = "parked"
    BY <1>0, <2>1 DEF Stop, CoroOK, RestOK
  <2> QED BY <1>0, <2>1, <2>2, <2>3
<1>6. ASSUME (\E c \in Coro, f \in Form : ReturnTo(c, f)) \/ ReturnDone PROVE Goal
  <2>1. ASSUME NEW x, frames # <<>>, Top.where # "opened", frames' = Append(Front(frames), x),
               UNCHANGED <<formStack, formCoros, owed, co, at>>
        PROVE  Goal
    <3>1. \A f \in AnyForm : Suspended(f)'
      BY <1>0, <2>1, SwapSuspended
    <3> QED BY <1>0, <2>1, <3>1
  <2>2. CASE ReturnDone
    BY <2>1, <2>2 DEF ReturnDone
  <2>3. ASSUME NEW c \in Coro, NEW f \in Form, ReturnTo(c, f) PROVE Goal
    BY <2>1, <2>3 DEF ReturnTo, Runs
  <2> QED BY <1>6, <2>2, <2>3
<1>7. ASSUME NEW g \in AnyForm \cup {None}, frames # <<>> => Top.where # "opened", ResumeFormCoroWith(g, frames),
             UNCHANGED owed, PopForm \/ UNCHANGED formStack
      PROVE  Goal
  <2>1. /\ \A f \in AnyForm : Suspended(f)'
        /\ \/ UNCHANGED <<co, at, frames>> /\ (g = None \/ formCoros[g] = None)
           \/ /\ g # None /\ formCoros[g] \in Coro /\ at[formCoros[g]] = g
              /\ co' = [co EXCEPT ![formCoros[g]] = "running"]
              /\ at' = [at EXCEPT ![formCoros[g]] = None]
              /\ frames' = Append(frames, Frame(formCoros[g], "run", None))
        /\ formCoros' = IF g = None THEN formCoros ELSE [formCoros EXCEPT ![g] = None]
    BY <1>0, <1>7, ResumeSuspended
  <2>2. formCoros'[Chat] = None
    BY <1>0, <1>a, <2>1 DEF RestOK
  <2>3. \A d \in owed' : co'[d] = "parked"
    BY <1>0, <1>7, <2>1 DEF CoroOK, RestOK
  <2>4. \A i \in DOMAIN formStack' : formStack'[i] # Chat
    BY <1>0, <1>7, PopRange
  <2> QED BY <2>1, <2>2, <2>3, <2>4
<1>8. ASSUME NEW c \in Coro, NEW f \in AnyForm \cup {None}, FormClose(c, f) PROVE Goal
  BY <1>7, <1>8 DEF FormClose, Runs
<1>9. CASE ReturnLoop
  BY <1>7, <1>9, TopFormType DEF ReturnLoop
<1>10. CASE handleAIChatClose
  <2>1. frames = <<>> /\ ResumeFormCoroWith(Chat, frames) /\ UNCHANGED <<owed, formStack>>
    BY <1>10 DEF handleAIChatClose, Receive
  <2> QED BY <1>7, <1>a, <2>1
<1>11. ASSUME NEW c \in Coro, HandleEvent(c) PROVE Goal
  <2>1. /\ frames = <<>> /\ co[c] = "none" /\ co' = [co EXCEPT ![c] = "running"]
        /\ UNCHANGED <<formStack, formCoros, at, owed>>
    BY <1>11 DEF HandleEvent, Receive
  <2>2. \A f \in AnyForm : Suspended(f)'
    BY <1>0, <2>1, EnterSuspended
  <2>3. \A d \in owed' : co'[d] = "parked"
    BY <1>0, <2>1 DEF CoroOK, RestOK
  <2> QED BY <1>0, <2>1, <2>2, <2>3
<1>12. ASSUME NEW c \in Coro, Wake(c) PROVE Goal
  <2>1. /\ frames = <<>> /\ co[c] = "parked" /\ co' = [co EXCEPT ![c] = "running"]
        /\ at' = [at EXCEPT ![c] = None] /\ owed' = owed \ {c}
        /\ UNCHANGED <<formStack, formCoros>>
    BY <1>0, <1>12 DEF Wake
  <2>2. \A f \in AnyForm : Suspended(f)'
    BY <1>0, <2>1, EnterSuspended
  <2>3. \A d \in owed' : co'[d] = "parked"
    BY <1>0, <2>1 DEF CoroOK, RestOK
  <2> QED BY <1>0, <2>1, <2>2, <2>3
<1>13. ASSUME Unhandled \/ CloseChat \/ UNCHANGED vars
              \/ \E f \in AnyForm : Click(f) \/ IdleFires(f) \/ IdlePosts(f)
       PROVE  Goal
  BY <1>1, <1>13 DEF Unhandled, CloseChat, vars, Click, IdleFires, IdlePosts
<1>14. ASSUME NEW c \in Coro, AIAgent(c) PROVE Goal
  BY <1>0, <1>14 DEF AIAgent
<1> QED BY <1>2, <1>3, <1>4, <1>5, <1>6, <1>8, <1>9, <1>10, <1>11, <1>12, <1>13, <1>14 DEF Next, Binding

LEMMA SuspendInit == Init => SuspendInv
  BY FormAssumption DEF Init, SuspendInv, ShowSuspends, OwedInv, Suspended, AnyForm

(* A coroutine stored for a form is suspended in that form's show, or is about to be:
   however scripts show, close, close by name and return to forms, from handlers and
   from coroutines that a close has resumed, no close resumes a coroutine that waits
   for something else (as long as the modal chat is not used). *)
THEOREM ShowCorrect == Spec => []ShowSuspends
<1>1. SuspendInv => ShowSuspends
  BY DEF SuspendInv
<1> QED BY <1>1, TypeInit, TypeStep, SuspendInit, SuspendStep, PTL DEF Spec

-----------------------------------------------------------------------------
(* Nesting: in a script that closes the top form and shows no form twice,  *)
(* every step is a step of NestedShows or leaves its variables alone.      *)

LEMMA InShowIff ==
    ASSUME CoroOK, NEW c
    PROVE  c \in InShow <=> \/ c \in Coro /\ co[c] = "waiting"
                            \/ frames # <<>> /\ Top.where = "opened" /\ Top.co = c
<1>1. DOMAIN frames # {} => frames # <<>>
  OBVIOUS
<1>2. frames # <<>> => Len(frames) \in DOMAIN frames
  BY DEF CoroOK
<1>3. \A i \in DOMAIN frames : frames[i].where = "opened" => i = Len(frames)
  BY DEF CoroOK, FrameInv
<1> QED BY <1>1, <1>2, <1>3 DEF InShow, Top

LEMMA PrimedInShow ==
    ASSUME CoroOK', NEW c
    PROVE  c \in InShow' <=> \/ c \in Coro /\ co'[c] = "waiting"
                             \/ frames' # <<>> /\ Top'.where = "opened" /\ Top'.co = c
<1>1. DOMAIN frames' # {} => frames' # <<>>
  OBVIOUS
<1>2. frames' # <<>> => Len(frames') \in DOMAIN frames'
  BY DEF CoroOK
<1>3. \A i \in DOMAIN frames' : frames'[i].where = "opened" => i = Len(frames')
  BY DEF CoroOK, FrameInv
<1> QED BY <1>1, <1>2, <1>3 DEF InShow, Top

LEMMA NewTop ==
    ASSUME CoroOK, NEW s \in Seq(FrameType), NEW x \in FrameType, frames' = Append(s, x)
    PROVE  frames' # <<>> /\ Top' = x
  BY DEF Top

(* Popping the innermost frame uncovers one that is in no show. *)
LEMMA NextTop ==
    ASSUME CoroOK, frames # <<>>, frames' = Front(frames), frames' # <<>>
    PROVE  Top'.where # "opened"
<1>1. /\ frames' \in Seq(FrameType) /\ Len(frames') = Len(frames) - 1
      /\ \A i \in DOMAIN frames' : i \in DOMAIN frames /\ i # Len(frames) /\ frames'[i] = frames[i]
  BY FrontFacts DEF CoroOK
<1>2. Len(frames') \in DOMAIN frames'
  BY <1>1
<1> QED BY <1>1, <1>2 DEF Top, CoroOK, FrameInv

LEMMA CallsFacts ==
    ASSUME StackOK
    PROVE  /\ Len(calls) = Len(formStack) /\ DOMAIN calls = DOMAIN formStack
           /\ DOMAIN formStack = 1..Len(formStack) /\ Len(formStack) \in Nat
           /\ \A i \in DOMAIN formStack :
                  calls[i] = [form |-> formStack[i], co |-> formCoros[formStack[i]]]
           /\ calls = <<>> <=> formStack = <<>>
<1>1. DOMAIN formStack = 1..Len(formStack) /\ Len(formStack) \in Nat
  BY DEF StackOK
<1>2. Len(calls) = Len(formStack) /\ DOMAIN calls = 1..Len(formStack)
  BY <1>1 DEF calls
<1>3. calls = <<>> <=> formStack = <<>>
  <2>1. formStack = <<>> <=> Len(formStack) = 0
    BY DEF StackOK
  <2>2. CASE Len(formStack) = 0
    <3>1. 1..Len(formStack) = {}
      BY <2>2
    <3>2. calls = <<>>
      BY <3>1 DEF calls
    <3> QED BY <2>1, <2>2, <3>2
  <2>3. CASE Len(formStack) # 0
    <3>1. calls # <<>>
      BY <1>2, <2>3
    <3> QED BY <2>1, <2>3, <3>1
  <2> QED BY <2>2, <2>3
<1> QED BY <1>1, <1>2, <1>3 DEF calls

LEMMA NestStep ==
    ASSUME TypeInv, SuspendInv, NestInv, [Next]_vars, TypeInv', SuspendInv'
    PROVE  NestInv' /\ (script = {} => Nested!Next \/ UNCHANGED <<calls, InShow>>)
<1> SUFFICES ASSUME script = {}
             PROVE  /\ \A i, j \in DOMAIN formStack' : formStack'[i] = formStack'[j] => i = j
                    /\ \A i \in DOMAIN formStack' : formCoros'[formStack'[i]] # None
                    /\ Nested!Next \/ UNCHANGED <<calls, InShow>>
  BY ScriptMoves DEF NestInv
<1> DEFINE Goal == /\ \A i, j \in DOMAIN formStack' : formStack'[i] = formStack'[j] => i = j
                   /\ \A i \in DOMAIN formStack' : formCoros'[formStack'[i]] # None
                   /\ Nested!Next \/ UNCHANGED <<calls, InShow>>
<1>p. StackOK /\ QueueOK /\ CoroOK /\ RestOK /\ StackOK' /\ QueueOK' /\ CoroOK' /\ RestOK'
  BY TypeParts, PrimedParts
<1>0. /\ \A f \in AnyForm : Suspended(f)
      /\ \A c \in owed : co[c] = "parked"
      /\ formCoros[Chat] = None
      /\ \A i \in DOMAIN formStack : formStack[i] # Chat
      /\ \A i, j \in DOMAIN formStack : formStack[i] = formStack[j] => i = j
      /\ \A i \in DOMAIN formStack : formCoros[formStack[i]] # None
  BY DEF SuspendInv, ShowSuspends, OwedInv, NestInv
<1>a. None \notin AnyForm /\ None \notin Coro /\ Chat \in AnyForm /\ Form \subseteq AnyForm
  BY FormAssumption DEF AnyForm
(* Steps outside the stack that move no coroutine into or out of a show. *)
<1>1. ASSUME UNCHANGED <<formStack, formCoros>>, \A c : c \in InShow' <=> c \in InShow PROVE Goal
  <2>1. UNCHANGED calls
    BY <1>1 DEF calls
  <2>2. InShow' = InShow
    BY <1>1
  <2> QED BY <1>0, <1>1, <2>1, <2>2
<1>2. ASSUME NEW c \in Coro, NEW f \in Form, Show(c, f) PROVE Goal
  <2>1. /\ frames # <<>> /\ Top.co = c /\ Top.where = "run" /\ co[c] = "running"
    BY <1>2, <1>p, TopFacts DEF Show, Runs
  <2>2. /\ formCoros' = [formCoros EXCEPT ![f] = c] /\ UNCHANGED co
        /\ frames' = Append(Front(frames), Frame(c, "opened", f))
        /\ formStack' = Append(formStack, f) /\ f \notin Range(formStack)
    BY <1>2 DEF Show, PushForm
  <2>3. \A i \in DOMAIN formStack : formStack[i] # f
    BY <2>2 DEF Range
  <2>4. /\ Top' = Frame(c, "opened", f) /\ frames' # <<>>
        /\ Frame(c, "opened", f).co = c /\ Frame(c, "opened", f).where = "opened"
    <3>1. Front(frames) \in Seq(FrameType)
      BY <1>p, <2>1, FrontFacts DEF CoroOK
    <3>2. /\ Frame(c, "opened", f) \in FrameType
          /\ Frame(c, "opened", f).co = c /\ Frame(c, "opened", f).where = "opened"
      BY FrameFields
    <3> QED BY <1>p, <2>2, <3>1, <3>2, NewTop
  <2>5. c \notin InShow /\ InShow' = InShow \cup {c}
    BY <1>p, <2>1, <2>2, <2>4, InShowIff, PrimedInShow
  <2>6. /\ DOMAIN formStack' = DOMAIN formStack \cup {Len(formStack) + 1}
        /\ formStack'[Len(formStack) + 1] = f /\ Len(formStack') = Len(formStack) + 1
        /\ \A i \in DOMAIN formStack : formStack'[i] = formStack[i] /\ formStack[i] \in AnyForm
    BY <1>p, <2>2 DEF StackOK
  <2>7. /\ formCoros'[f] = c
        /\ \A i \in DOMAIN formStack : formCoros'[formStack[i]] = formCoros[formStack[i]]
    BY <1>a, <1>p, <2>2, <2>3, <2>6 DEF RestOK
  <2>8. calls' = Append(calls, [form |-> f, co |-> c])
    <3>1. calls' = [i \in 1..(Len(formStack) + 1) |-> IF i = Len(formStack) + 1 THEN [form |-> f, co |-> c]
                                                        ELSE calls[i]]
      <4>1. Len(formStack) \in Nat /\ DOMAIN formStack = 1..Len(formStack)
        BY <1>p DEF StackOK
      <4>2. \A i \in 1..(Len(formStack) + 1) : i = Len(formStack) + 1 \/ i \in DOMAIN formStack
        BY <4>1
      <4>3. \A i \in DOMAIN formStack : calls[i] = [form |-> formStack[i], co |-> formCoros[formStack[i]]]
        BY <1>p, CallsFacts
      <4> QED BY <2>6, <2>7, <4>2, <4>3 DEF calls
    <3>2. Len(calls) = Len(formStack) /\ Len(formStack) \in Nat
      BY <1>p, CallsFacts
    <3> QED BY <3>1, <3>2
  <2>9. Nested!Show(f, c)
    BY <2>5, <2>8 DEF Nested!Show
  <2>10. Nested!Next
    BY <2>9 DEF Nested!Next
  <2> QED BY <1>0, <1>a, <2>3, <2>6, <2>7, <2>10
<1>3. ASSUME NEW c \in Coro, Shown(c) PROVE Goal
  <2>1. /\ frames # <<>> /\ Top.where = "opened" /\ Top.co \in Coro
        /\ frames' = Front(frames) /\ co' = [co EXCEPT ![Top.co] = "waiting"]
        /\ UNCHANGED <<formStack, formCoros>>
    BY <1>3, <1>p, TopFacts DEF Shown, Stop
  <2>2. frames' # <<>> => Top'.where # "opened"
    BY <1>p, <2>1, NextTop
  <2>3. \A d : d \in InShow' <=> d \in InShow
    BY <1>p, <2>1, <2>2, InShowIff, PrimedInShow DEF CoroOK
  <2> QED BY <1>1, <2>1, <2>3
<1>4. ASSUME NEW c \in Coro, Finish(c) \/ Park(c) PROVE Goal
  <2>1. PICK s \in {"ended", "parked"} : Stop(s, None)
    BY <1>4 DEF Finish, Park
  <2>2. /\ frames # <<>> /\ Top.where # "opened" /\ Top.co \in Coro /\ co[Top.co] = "running"
        /\ frames' = Front(frames) /\ co' = [co EXCEPT ![Top.co] = s]
        /\ UNCHANGED <<formStack, formCoros>>
    BY <1>4, <1>p, <2>1, TopFacts DEF Finish, Park, Runs, Stop
  <2>3. frames' # <<>> => Top'.where # "opened"
    BY <1>p, <2>2, NextTop
  <2>4. \A d : d \in InShow' <=> d \in InShow
    BY <1>p, <2>2, <2>3, InShowIff, PrimedInShow DEF CoroOK
  <2> QED BY <1>1, <2>2, <2>4
<1>5. ASSUME NEW w \in {"run", "return"}, NEW f \in Form \cup {None}, frames # <<>>, Top.where # "opened",
             frames' = Append(Front(frames), Frame(Top.co, w, f)), UNCHANGED <<formStack, formCoros, co>>
      PROVE  Goal
  <2>1. Top' = Frame(Top.co, w, f) /\ Frame(Top.co, w, f).where = w
    <3>1. Front(frames) \in Seq(FrameType)
      BY <1>5, <1>p, FrontFacts DEF CoroOK
    <3>2. Frame(Top.co, w, f) \in FrameType /\ Frame(Top.co, w, f).where = w
      BY <1>5, <1>p, FrameFields, TopFacts
    <3> QED BY <1>5, <1>p, <3>1, <3>2, NewTop
  <2>2. \A d : d \in InShow' <=> d \in InShow
    BY <1>5, <1>p, <2>1, InShowIff, PrimedInShow
  <2> QED BY <1>1, <1>5, <2>2
<1>6. ASSUME NEW c \in Coro, NEW f \in Form, ReturnTo(c, f) PROVE Goal
  BY <1>5, <1>6 DEF ReturnTo, Runs
<1>7. CASE ReturnDone
  BY <1>5, <1>7 DEF ReturnDone
<1>8. ASSUME PopForm, ResumeFormCoroWith(TopForm, frames), frames # <<>>, Top.where # "opened" PROVE Goal
  <2>1. PICK g \in AnyForm \cup {None} : g = TopForm
    BY <1>p, TopFormType
  <2>2. /\ \/ UNCHANGED <<co, at, frames>> /\ (g = None \/ formCoros[g] = None)
           \/ /\ g # None /\ formCoros[g] \in Coro /\ at[formCoros[g]] = g
              /\ co' = [co EXCEPT ![formCoros[g]] = "running"]
              /\ at' = [at EXCEPT ![formCoros[g]] = None]
              /\ frames' = Append(frames, Frame(formCoros[g], "run", None))
        /\ formCoros' = IF g = None THEN formCoros ELSE [formCoros EXCEPT ![g] = None]
    BY <1>0, <1>8, <1>p, <2>1, ResumeSuspended
  <2>3. CASE formStack = <<>>
    <3>1. g = None /\ UNCHANGED formStack
      BY <1>8, <2>1, <2>3 DEF TopForm, PopForm
    <3>2. UNCHANGED <<co, at, frames, formCoros>>
      BY <2>2, <3>1
    <3>3. \A d : d \in InShow' <=> d \in InShow
      BY <3>2 DEF InShow
    <3> QED BY <1>1, <3>1, <3>2, <3>3
  <2>4. CASE formStack # <<>>
    <3>1. /\ formStack' = Front(formStack) /\ Len(formStack') = Len(formStack) - 1
          /\ DOMAIN formStack' = 1..(Len(formStack) - 1)
          /\ Len(formStack) \in DOMAIN formStack /\ DOMAIN formStack = 1..Len(formStack) /\ Len(formStack) \in Nat
          /\ \A i \in DOMAIN formStack' : i \in DOMAIN formStack /\ i # Len(formStack) /\ formStack'[i] = formStack[i]
      BY <1>8, <1>p, <2>4, FrontFacts DEF PopForm, StackOK
    <3>2. g = formStack[Len(formStack)] /\ g \in AnyForm
      BY <1>p, <2>1, <2>4, <3>1 DEF TopForm, StackOK
    <3>3. PICK c : c = formCoros[g]
      OBVIOUS
    <3>4. /\ c \in Coro /\ at[c] = g /\ co' = [co EXCEPT ![c] = "running"] /\ co[c] = "waiting"
          /\ frames' = Append(frames, Frame(c, "run", None))
          /\ formCoros' = [formCoros EXCEPT ![g] = None]
      BY <1>0, <1>a, <1>p, <2>2, <3>1, <3>2, <3>3 DEF CoroOK
    <3>5. Top' = Frame(c, "run", None) /\ Frame(c, "run", None).where = "run"
      BY <1>p, <3>4, FrameFields, NewTop DEF CoroOK
    <3>6. InShow' = InShow \ {c}
      BY <1>8, <1>p, <3>4, <3>5, InShowIff, PrimedInShow DEF CoroOK
    <3>7. \A i \in DOMAIN formStack' : formStack[i] # g /\ formCoros'[formStack[i]] = formCoros[formStack[i]]
      <4>1. \A i \in DOMAIN formStack' : formStack[i] # g /\ formStack[i] \in AnyForm
        BY <1>0, <1>p, <3>1, <3>2 DEF StackOK
      <4> QED BY <1>p, <3>2, <3>4, <4>1 DEF RestOK
    <3>8. /\ Len(calls) = Len(formStack)
          /\ \A i \in DOMAIN formStack : calls[i] = [form |-> formStack[i], co |-> formCoros[formStack[i]]]
          /\ calls # <<>>
      BY <1>p, <2>4, CallsFacts
    <3>9. calls' = SubSeq(calls, 1, Len(calls) - 1)
      <4>1. calls' = [i \in 1..(Len(formStack) - 1) |-> calls[i]]
        BY <3>1, <3>7, <3>8 DEF calls
      <4>2. SubSeq(calls, 1, Len(calls) - 1) = [i \in 1..(Len(formStack) - 1) |-> calls[i]]
        BY <3>1, <3>8
      <4> QED BY <4>1, <4>2
    <3>10. calls[Len(calls)].co = c
      <4>1. calls[Len(formStack)] = [form |-> g, co |-> c]
        BY <3>1, <3>2, <3>3, <3>8
      <4> QED BY <3>8, <4>1
    <3>11. Nested!Close
      BY <3>6, <3>8, <3>9, <3>10 DEF Nested!Close
    <3>12. Nested!Next
      BY <3>11 DEF Nested!Next
    <3> QED BY <1>0, <3>1, <3>7, <3>12
  <2> QED BY <2>3, <2>4
<1>9. ASSUME NEW c \in Coro, NEW f \in AnyForm \cup {None}, FormClose(c, f) PROVE Goal
  BY <1>8, <1>9 DEF FormClose, Runs
<1>10. CASE ReturnLoop
  BY <1>8, <1>10 DEF ReturnLoop
<1>11. CASE handleAIChatClose
  <2>1. frames = <<>> /\ ResumeFormCoroWith(Chat, frames) /\ UNCHANGED <<owed, formStack>>
    BY <1>11 DEF handleAIChatClose, Receive
  <2>2. UNCHANGED <<co, at, frames>>
    BY <1>0, <1>a, <2>1 DEF ResumeFormCoroWith, Resume
  <2>3. UNCHANGED formCoros
    BY <1>0, <1>a, <1>p, <2>1 DEF ResumeFormCoroWith, RestOK
  <2>4. \A d : d \in InShow' <=> d \in InShow
    BY <2>2 DEF InShow
  <2> QED BY <1>1, <2>1, <2>3, <2>4
<1>12. ASSUME NEW c \in Coro, co[c] # "waiting", frames = <<>>, co' = [co EXCEPT ![c] = "running"],
              frames' = <<Frame(c, "run", None)>>, UNCHANGED <<formStack, formCoros>>
       PROVE  Goal
  <2>1. PICK x : x = Frame(c, "run", None)
    OBVIOUS
  <2>2. x.where = "run"
    BY <2>1, FrameFields
  <2>3. Top'.where = "run"
    BY <1>12, <2>1, <2>2 DEF Top
  <2>4. \A d : d \in InShow' <=> d \in InShow
    BY <1>12, <1>p, <2>3, InShowIff, PrimedInShow DEF CoroOK
  <2> QED BY <1>1, <1>12, <2>4
<1>13. ASSUME NEW c \in Coro, HandleEvent(c) PROVE Goal
  BY <1>12, <1>13 DEF HandleEvent, Receive
<1>14. ASSUME NEW c \in Coro, Wake(c) PROVE Goal
  BY <1>0, <1>12, <1>14 DEF Wake
<1>15. ASSUME Unhandled \/ CloseChat \/ UNCHANGED vars
              \/ \E f \in AnyForm : Click(f) \/ IdleFires(f) \/ IdlePosts(f)
       PROVE  Goal
  <2>1. UNCHANGED <<formStack, formCoros, co, frames>>
    BY <1>15 DEF Unhandled, CloseChat, vars, Click, IdleFires, IdlePosts
  <2>2. \A d : d \in InShow' <=> d \in InShow
    BY <2>1 DEF InShow
  <2> QED BY <1>1, <2>1, <2>2
<1>16. ASSUME NEW c \in Coro, AIAgent(c) PROVE Goal
  BY <1>16 DEF AIAgent
<1> QED BY <1>2, <1>3, <1>4, <1>6, <1>7, <1>9, <1>10, <1>11, <1>13, <1>14, <1>15, <1>16 DEF Next, Binding

(* The form stack mirrors nested shows: in every behaviour of a script that closes the
   top form and shows no form twice, each step is a show that nests, a close that
   returns the innermost show to the coroutine that made it, or neither. *)
THEOREM NestCorrect == Spec => ShowsNest
<1>1. Init => (script = {} => Nested!Init)
  <2> SUFFICES ASSUME Init PROVE calls = <<>> /\ InShow = {}
    BY DEF Nested!Init
  <2>1. calls = <<>>
    BY DEF Init, calls
  <2>2. \A i \in DOMAIN frames : frames[i].where # "opened"
    <3>1. frames = <<Frame(Main, "run", None)>> /\ Frame(Main, "run", None).where = "run"
      BY FrameFields, FormAssumption DEF Init
    <3> QED BY <3>1
  <2>3. InShow = {}
    BY <2>2 DEF Init, InShow
  <2> QED BY <2>1, <2>3
<1>2. Init => NestInv
  BY DEF Init, NestInv
<1>3. TypeInv /\ SuspendInv /\ NestInv /\ [Next]_vars /\ TypeInv' /\ SuspendInv' =>
          /\ NestInv'
          /\ [script = {} => (Nested!Next \/ UNCHANGED <<calls, InShow>>)]_vars
  BY NestStep
<1> QED BY <1>1, <1>2, <1>3, TypeInit, TypeStep, SuspendInit, SuspendStep, PTL DEF Spec, ShowsNest
=============================================================================
