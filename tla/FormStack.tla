----------------------------- MODULE FormStack -----------------------------
(***************************************************************************)
(* Forms of one session: k.form.show, k.form.close, k.form.return_to and   *)
(* k.form.ai_agent (internal/bindings/forms.go, aichat.go), the form stack *)
(* with its idle timers and the coroutines suspended in a show             *)
(* (PushForm, PopForm, StoreFormCoro, ResumeFormCoroWith of                *)
(* internal/session/session.go), and App.Run, which drives main().         *)
(*                                                                         *)
(* k.form.close resumes the coroutine of the closed form from within the   *)
(* coroutine that called it, so coroutines run nested: frames.  Everything *)
(* happens on the actor goroutine, except that a timer's callback and the  *)
(* page post to the inbox.  The actor is the inbox's only reader: where it *)
(* posts to a full inbox it is stuck for good, and the action that posts   *)
(* is simply not enabled.                                                  *)
(***************************************************************************)
EXTENDS Integers, Sequences, FiniteSets

CONSTANTS
    Form,       \* the script's forms
    Chat,       \* the hidden form "__kai_chat" of k.form.ai_agent
    IdleForm,   \* the forms with an on_idle handler
    Coro, Main, \* Lua coroutines; the one App.Run drives
    Scripts,    \* the scripts: what each does besides show() and close()
    MaxShows,   \* bound: shows in the life of the session
    InboxCap,   \* capacity of the inbox (64 in the code)
    None

(***************************************************************************)
(* "named": closes a form by name while another is on top                  *)
(* "again": shows a form that is already shown                             *)
(* "agent": opens the modal AI chat                                        *)
(***************************************************************************)
ASSUME FormAssumption ==
    /\ IdleForm \subseteq Form /\ Chat \notin Form
    /\ Main \in Coro
    /\ None \notin Form \cup {Chat} \cup Coro
    /\ Scripts \subseteq SUBSET {"named", "again", "agent"}
    /\ MaxShows \in Nat /\ InboxCap \in Nat \ {0}

VARIABLES
    formStack,   \* Session.formStack
    formCoros,   \* Session.formCoros
    idle,        \* Session.idleTimers: no entry, armed, or fired
    late,        \* callbacks of fired idle timers that have still to post
    inbox,       \* the form and control events in Session.inbox
    co,          \* state of each coroutine
    owed,        \* coroutines a pending operation other than a show will resume
    at,          \* the form whose show each coroutine is suspended in
    frames,      \* the coroutines the actor is inside of, innermost last
    booting,     \* App.Run has not returned
    shows,       \* shows so far
    script       \* the script the session runs

vars == <<formStack, formCoros, idle, late, inbox, co, owed, at, frames,
          booting, shows, script>>

AnyForm == Form \cup {Chat}
Range(s) == {s[i] : i \in DOMAIN s}
Front(s) == SubSeq(s, 1, Len(s) - 1)
Top == frames[Len(frames)]
Msg(f, e) == [form |-> f, event |-> e]
Frame(c, where, f) == [co |-> c, where |-> where, form |-> f]

Init ==
    /\ formStack = <<>> /\ formCoros = [f \in AnyForm |-> None]
    /\ idle = [f \in AnyForm |-> "none"] /\ late = [f \in AnyForm |-> 0]
    /\ inbox = <<>>
    /\ co = [c \in Coro |-> IF c = Main THEN "running" ELSE "none"]
    /\ owed = {} /\ at = [c \in Coro |-> None]
    /\ frames = <<Frame(Main, "run", None)>>
    /\ booting = TRUE /\ shows = 0 /\ script \in Scripts

-----------------------------------------------------------------------------
(* The stack.                                                              *)

TopForm == IF formStack = <<>> THEN None ELSE formStack[Len(formStack)]

\* The timers that result from timers t.
startIdleTimer(t, f) == IF f \in IdleForm THEN [t EXCEPT ![f] = "armed"] ELSE t
stopIdleTimer(t, f) == [t EXCEPT ![f] = "none"]

PushForm(f) ==
    /\ formStack' = Append(formStack, f)
    /\ idle' = startIdleTimer(idle, f)

\* Mutant: the timer of the popped form keeps running.
PopFormKeepsTimer ==
    IF formStack = <<>> THEN UNCHANGED <<formStack, idle>>
    ELSE /\ formStack' = Front(formStack)
         /\ idle' = IF Len(formStack) > 1
                    THEN startIdleTimer(idle, formStack[Len(formStack) - 1])
                    ELSE idle

PopForm ==
    IF formStack = <<>> THEN UNCHANGED <<formStack, idle>>
    ELSE /\ formStack' = Front(formStack)
         /\ idle' = LET t == stopIdleTimer(idle, TopForm)
                    IN  IF Len(formStack) > 1
                        THEN startIdleTimer(t, formStack[Len(formStack) - 1])
                        ELSE t

Post(m) == Len(inbox) < InboxCap /\ inbox' = Append(inbox, m)

-----------------------------------------------------------------------------
(* Coroutines.                                                             *)

\* The innermost coroutine runs Lua code.
Runs(c) == frames # <<>> /\ Top.co = c /\ Top.where = "run"

\* The stored coroutine c is resumed from within the frames fs.  Resuming a
\* dead coroutine fails, and so does main() resuming itself while App.Run drives
\* it.  Later a coroutine that runs may be entered again, since after a nested
\* resume the interpreter takes the session's own state for the running thread:
\* what Lua does then is outside this model, and the step is not taken.
Resume(c, fs) ==
    IF c # None /\ co[c] \in {"waiting", "parked"}
    THEN /\ co' = [co EXCEPT ![c] = "running"]
         /\ at' = [at EXCEPT ![c] = None]
         /\ frames' = Append(fs, Frame(c, "run", None))
    ELSE /\ c # None /\ co[c] = "running" => booting
         /\ frames' = fs
         /\ UNCHANGED <<co, at>>

\* ResumeFormCoroWith(f): whatever the coroutine stored under f is suspended
\* in, it is resumed.  Mutant: the entry stays.
ResumeKeepsEntry(f, fs) ==
    /\ UNCHANGED formCoros
    /\ Resume(IF f = None THEN None ELSE formCoros[f], fs)

ResumeFormCoroWith(f, fs) ==
    /\ formCoros' = IF f = None THEN formCoros
                    ELSE [formCoros EXCEPT ![f] = None]
    /\ Resume(IF f = None THEN None ELSE formCoros[f], fs)

\* The innermost coroutine stops: whoever resumed it goes on.  App.Run returns
\* when that was main().
Stop(state, f) ==
    /\ co' = [co EXCEPT ![Top.co] = state]
    /\ at' = [at EXCEPT ![Top.co] = f]
    /\ frames' = Front(frames)
    /\ booting' = (booting /\ Len(frames) > 1)

Finish(c) ==
    /\ Runs(c) /\ Stop("ended", None)
    /\ UNCHANGED <<formStack, formCoros, idle, late, inbox, owed, shows, script>>

\* Any other blocking operation; SessionOps has how each is answered.  Bound:
\* one such operation per coroutine at a time.
Park(c) ==
    /\ Runs(c) /\ c \notin owed
    /\ Stop("parked", None)
    /\ owed' = owed \cup {c}
    /\ UNCHANGED <<formStack, formCoros, idle, late, inbox, shows, script>>

-----------------------------------------------------------------------------
(* The bindings.                                                           *)

\* k.form.show: pushes the form, stores the caller, posts open_form ...
Show(c, f) ==
    /\ Runs(c) /\ shows < MaxShows
    /\ f \in Range(formStack) => "again" \in script
    /\ PushForm(f)
    /\ formCoros' = [formCoros EXCEPT ![f] = c]
    /\ Post(Msg(f, "open_form"))
    /\ frames' = Append(Front(frames), Frame(c, "opened", f))
    /\ shows' = shows + 1
    /\ UNCHANGED <<late, co, at, booting, owed, script>>

\* ... renders it, posts after_open_form and suspends the caller.
Shown(c) ==
    /\ frames # <<>> /\ Top.co = c /\ Top.where = "opened"
    /\ Post(Msg(Top.form, "after_open_form"))
    /\ Stop("waiting", Top.form)
    /\ UNCHANGED <<formStack, formCoros, idle, late, shows, owed, script>>

\* k.form.close([name]): pops the top form, whichever form is named, posts
\* close_form for the named one and resumes the coroutine stored for that.
\* Mutant: asks for the name after the pop.
FormCloseLateName(c, f) ==
    LET name == IF f = TopForm /\ Len(formStack) > 1
                THEN formStack[Len(formStack) - 1] ELSE f
    IN  /\ Runs(c)
        /\ f = TopForm \/ (f \in AnyForm /\ "named" \in script)
        /\ PopForm
        /\ Post(Msg(name, "close_form"))
        /\ ResumeFormCoroWith(name, frames)
        /\ UNCHANGED <<late, booting, shows, owed, script>>

FormClose(c, f) ==
    /\ Runs(c)
    /\ f = TopForm \/ (f \in AnyForm /\ "named" \in script)
    /\ PopForm
    /\ Post(Msg(f, "close_form"))
    /\ ResumeFormCoroWith(f, frames)
    /\ UNCHANGED <<late, booting, shows, owed, script>>

\* k.form.return_to(f): closes the top form until f is on top or none is left;
\* the coroutine it resumes runs, and may show forms, before the loop goes on.
ReturnTo(c, f) ==
    /\ Runs(c)
    /\ frames' = Append(Front(frames), Frame(c, "return", f))
    /\ UNCHANGED <<formStack, formCoros, idle, late, inbox, co, at, booting, shows, owed, script>>

ReturnLoop ==
    /\ frames # <<>> /\ Top.where = "return"
    /\ TopForm \notin {Top.form, None}
    /\ PopForm
    /\ Post(Msg(TopForm, "close_form"))
    /\ ResumeFormCoroWith(TopForm, frames)
    /\ UNCHANGED <<late, booting, shows, owed, script>>

ReturnDone ==
    /\ frames # <<>> /\ Top.where = "return"
    /\ TopForm \in {Top.form, None}
    /\ frames' = Append(Front(frames), Frame(Top.co, "run", None))
    /\ UNCHANGED <<formStack, formCoros, idle, late, inbox, co, at, booting, shows, owed, script>>

\* k.form.ai_agent: pushes the chat form, stores and suspends the caller, but
\* App.Run does not know this suspension and resumes main() at once.
AIAgent(c) ==
    /\ "agent" \in script /\ Runs(c) /\ shows < MaxShows
    /\ PushForm(Chat)
    /\ formCoros' = [formCoros EXCEPT ![Chat] = c]
    /\ shows' = shows + 1
    /\ IF booting /\ Len(frames) = 1 THEN UNCHANGED <<co, at, frames, booting>>
       ELSE Stop("waiting", Chat)
    /\ UNCHANGED <<late, inbox, owed, script>>

-----------------------------------------------------------------------------
(* The actor loop and what posts to it.                                    *)

Receive == frames = <<>> /\ ~booting /\ inbox # <<>> /\ inbox' = Tail(inbox)

\* An event is handled in a fresh coroutine, if the script has a handler.
HandleEvent(c) ==
    /\ Receive /\ Head(inbox).event # "ai_chat_close"
    /\ co[c] = "none"
    /\ co' = [co EXCEPT ![c] = "running"]
    /\ frames' = <<Frame(c, "run", None)>>
    /\ UNCHANGED <<formStack, formCoros, idle, late, at, booting, shows, owed, script>>

Unhandled ==
    /\ Receive /\ Head(inbox).event # "ai_chat_close"
    /\ UNCHANGED <<formStack, formCoros, idle, late, co, at, frames, booting, shows, owed, script>>

\* The chat's close button resumes the caller; the form stays on the stack.
handleAIChatClose ==
    /\ Receive /\ Head(inbox).event = "ai_chat_close"
    /\ ResumeFormCoroWith(Chat, <<>>)
    /\ UNCHANGED <<formStack, idle, late, booting, shows, owed, script>>

\* The answer to a coroutine's other operation resumes it, wherever it is
\* suspended by now.
Wake(c) ==
    /\ frames = <<>> /\ ~booting /\ c \in owed
    /\ owed' = owed \ {c}
    /\ IF co[c] = "ended" THEN UNCHANGED <<co, at, frames>>
       ELSE /\ co' = [co EXCEPT ![c] = "running"]
            /\ at' = [at EXCEPT ![c] = None]
            /\ frames' = <<Frame(c, "run", None)>>
    /\ UNCHANGED <<formStack, formCoros, idle, late, inbox, booting, shows, script>>

\* The page: a click on a form, the chat's close button.
Click(f) ==
    /\ f \in Form /\ Post(Msg(f, "onclick"))
    /\ UNCHANGED <<formStack, formCoros, idle, late, co, at, frames, booting, shows, owed, script>>

CloseChat ==
    /\ Chat \in Range(formStack) /\ Post(Msg(Chat, "ai_chat_close"))
    /\ UNCHANGED <<formStack, formCoros, idle, late, co, at, frames, booting, shows, owed, script>>

\* The idle timer fires once; Stop does not reach the callback any more.
IdleFires(f) ==
    /\ idle[f] = "armed"
    /\ idle' = [idle EXCEPT ![f] = "fired"]
    /\ late' = [late EXCEPT ![f] = @ + 1]
    /\ UNCHANGED <<formStack, formCoros, inbox, co, at, frames, booting, shows, owed, script>>

IdlePosts(f) ==
    /\ late[f] > 0 /\ late' = [late EXCEPT ![f] = @ - 1]
    /\ Post(Msg(f, "on_idle"))
    /\ UNCHANGED <<formStack, formCoros, idle, co, at, frames, booting, shows, owed, script>>

-----------------------------------------------------------------------------
Binding(c) ==
    \/ \E f \in Form : Show(c, f) \/ ReturnTo(c, f)
    \/ \E f \in AnyForm \cup {None} : FormClose(c, f)
    \/ Shown(c) \/ AIAgent(c) \/ Finish(c) \/ Park(c)

Next ==
    \/ \E c \in Coro : Binding(c) \/ HandleEvent(c) \/ Wake(c)
    \/ ReturnLoop \/ ReturnDone
    \/ Unhandled \/ handleAIChatClose
    \/ \E f \in AnyForm : Click(f) \/ IdleFires(f) \/ IdlePosts(f)
    \/ CloseChat

Spec == Init /\ [][Next]_vars
-----------------------------------------------------------------------------
(* Properties.                                                             *)

\* Types; only forms with an on_idle handler ever have a timer, and a coroutine
\* is suspended in a show exactly when it is waiting.
TypeOK ==
    /\ formStack \in Seq(AnyForm) /\ formCoros \in [AnyForm -> Coro \cup {None}]
    /\ idle \in [AnyForm -> {"none", "armed", "fired"}]
    /\ \A f \in AnyForm \ IdleForm : idle[f] = "none"
    /\ late \in [AnyForm -> Nat]
    /\ inbox \in Seq([form : AnyForm \cup {None},
                      event : {"open_form", "after_open_form", "close_form",
                               "on_idle", "onclick", "ai_chat_close"}])
    /\ Len(inbox) <= InboxCap
    /\ co \in [Coro -> {"none", "running", "waiting", "parked", "ended"}]
    /\ owed \subseteq Coro
    /\ at \in [Coro -> AnyForm \cup {None}]
    /\ \A c \in Coro : co[c] = "waiting" <=> at[c] # None
    /\ frames \in Seq([co : Coro, where : {"run", "opened", "return"},
                       form : Form \cup {None}])
    /\ booting \in BOOLEAN /\ shows \in 0..MaxShows /\ script \in Scripts

\* PushForm and PopForm keep the idle timers with the stack: a form that is not
\* shown has no timer, and the top form has had its own started.
IdleTracksStack ==
    /\ \A f \in AnyForm : idle[f] # "none" => f \in Range(formStack)
    /\ TopForm \in IdleForm => idle[TopForm] # "none"

\* Who is inside k.form.show: suspended, or just about to be.
InShow == {c \in Coro : co[c] = "waiting"}
          \cup {frames[i].co : i \in {j \in DOMAIN frames : frames[j].where = "opened"}}

calls == [i \in 1..Len(formStack) |->
             [form |-> formStack[i], co |-> formCoros[formStack[i]]]]

Nested == INSTANCE NestedShows WITH calls <- calls, waiting <- InShow

\* "The form stack mirrors nested Show Form calls": in a script that closes the
\* top form and shows no form twice, whatever close, return_to and the
\* coroutines they resume do, shows return innermost first, each when its own
\* form is closed, and none is forgotten (the steps implement NestedShows).
ShowsNest ==
    /\ script = {} => Nested!Init
    /\ [][script = {} => (Nested!Next \/ UNCHANGED <<calls, InShow>>)]_vars

\* A coroutine stored for form f is suspended in that form's show.
Suspended(f) ==
    \/ formCoros[f] = None
    \/ at[formCoros[f]] = f
    \/ \E i \in DOMAIN frames : frames[i] = Frame(formCoros[f], "opened", f)

\* k.form.show suspends its caller until the form closes: as long as the modal
\* chat is not used, no close, of whatever form in whatever order, resumes a
\* coroutine at another suspension than the show it was stored for.
ShowSuspends == "agent" \notin script => \A f \in AnyForm : Suspended(f)

\* k.form.ai_agent: "The script blocks until the user closes the chat".
AgentBlocks == Suspended(Chat)

\* k.form.close(name) closes "the named form": a form whose show has returned
\* is not on the stack.
CloseNamed == \A f \in Form : f \in Range(formStack) => formCoros[f] # None

\* No show is forgotten: the form a coroutine waits for can still resume it.
NoLostShow == \A c \in Coro : at[c] # None => formCoros[at[c]] = c

\* "Only the topmost form receives idle events."
TopmostIdle == \A f \in AnyForm : idle[f] = "armed" => f = TopForm
=============================================================================
