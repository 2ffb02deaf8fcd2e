--------------------------- MODULE SessionTimers ---------------------------
(***************************************************************************)
(* The timers of a session (k.timer_start, k.timer_stop) and their race    *)
(* with Close: internal/session/session.go.  A timer is a time.AfterFunc   *)
(* whose callback runs on a goroutine of its own, posts to the inbox and,  *)
(* for a repeating timer, arms itself again.  Stop takes back a timer that *)
(* is armed and does not reach a callback that has begun.                  *)
(*                                                                         *)
(* The timers are numbered in the order StartTimer made them; several      *)
(* belong to one id, of which s.timers knows the last.                     *)
(***************************************************************************)
EXTENDS Integers, Sequences

CONSTANTS
    Id,          \* ids a script uses
    MaxTimers,   \* bound: calls of k.timer_start
    TInboxCap,   \* capacity of the inbox
    NoTimer

VARIABLES
    timers,      \* s.timers: id -> timer
    timer,       \* the timers made so far: [id, repeats]
    armed,       \* the timers that will fire
    cb,          \* per timer: callback goroutine, "none", "post" or "reset"
    tinbox,      \* the timer messages in the inbox
    handled,     \* history: how often the handler ran, per timer
    tclose       \* Close: "open", "stopping", "done" or "closed"

timervars == <<timers, timer, armed, cb, tinbox, handled, tclose>>

T == 1..MaxTimers
Made == 1..Len(timer)

TimersInit ==
    /\ timers = [i \in Id |-> NoTimer] /\ timer = <<>> /\ armed = {}
    /\ cb = [t \in T |-> "none"] /\ tinbox = <<>>
    /\ handled = [t \in T |-> 0] /\ tclose = "open"

\* time.Timer.Stop of the timer an id stands for.
Disarm(i) == armed \ {timers[i]}

StartTimer(i, repeats) ==
    /\ tclose = "open" /\ Len(timer) < MaxTimers
    /\ LET t == Len(timer) + 1 IN
       /\ timer' = Append(timer, [id |-> i, repeats |-> repeats])
       /\ armed' = Disarm(i) \cup {t}
       /\ timers' = [timers EXCEPT ![i] = t]
    /\ UNCHANGED <<cb, tinbox, handled, tclose>>

StopTimer(i) ==
    /\ tclose = "open" /\ timers[i] # NoTimer
    /\ armed' = Disarm(i) /\ timers' = [timers EXCEPT ![i] = NoTimer]
    /\ UNCHANGED <<timer, cb, tinbox, handled, tclose>>

Fire(t) ==
    /\ t \in armed /\ cb[t] = "none"
    /\ armed' = armed \ {t} /\ cb' = [cb EXCEPT ![t] = "post"]
    /\ UNCHANGED <<timers, timer, tinbox, handled, tclose>>

AfterPost(t) == [cb EXCEPT ![t] = IF timer[t].repeats THEN "reset" ELSE "none"]

\* Mutant: the post is dropped when the inbox is full.
PostTimerDrops(t) ==
    /\ cb[t] = "post"
    /\ tinbox' = IF Len(tinbox) < TInboxCap THEN Append(tinbox, t) ELSE tinbox
    /\ cb' = AfterPost(t)
    /\ UNCHANGED <<timers, timer, armed, handled, tclose>>

\* PostTimer waits for room in the inbox or for the end of the session.
PostTimer(t) ==
    /\ cb[t] = "post"
    /\ \/ /\ Len(tinbox) < TInboxCap /\ tclose # "closed"
          /\ tinbox' = Append(tinbox, t)
       \/ /\ tclose \in {"done", "closed"} /\ UNCHANGED tinbox
    /\ cb' = AfterPost(t)
    /\ UNCHANGED <<timers, timer, armed, handled, tclose>>

\* t.Reset, whatever has been stopped meanwhile.
Reset(t) ==
    /\ cb[t] = "reset" /\ cb' = [cb EXCEPT ![t] = "none"] /\ armed' = armed \cup {t}
    /\ UNCHANGED <<timers, timer, tinbox, handled, tclose>>

\* handleTimer and runTimerHandler on the actor: the message names only the id.
handleTimer ==
    /\ tinbox # <<>> /\ tclose \in {"open", "stopping"}
    /\ handled' = [handled EXCEPT ![Head(tinbox)] = IF @ < 2 THEN @ + 1 ELSE @]
    /\ tinbox' = Tail(tinbox)
    /\ UNCHANGED <<timers, timer, armed, cb, tclose>>

\* Close stops what s.timers holds, then closes done, waits for the actor and
\* closes the inbox.
CloseTimers ==
    /\ \/ /\ tclose = "open" /\ tclose' = "stopping"
          /\ armed' = armed \ {timers[i] : i \in Id}
       \/ /\ tclose = "stopping" /\ tclose' = "done" /\ UNCHANGED armed
       \/ /\ tclose = "done" /\ tclose' = "closed" /\ UNCHANGED armed
    /\ UNCHANGED <<timers, timer, cb, tinbox, handled>>

TimersNext ==
    \/ \E i \in Id : StopTimer(i) \/ \E r \in BOOLEAN : StartTimer(i, r)
    \/ \E t \in Made : Fire(t) \/ PostTimer(t) \/ Reset(t)
    \/ handleTimer \/ CloseTimers

-----------------------------------------------------------------------------
(* Properties.                                                             *)

\* A timer that has fired reaches its handler, however full the inbox is, unless
\* the session ends.
FiredIsHandled ==
    \A t \in T : cb[t] = "post" ~> (handled[t] > 0 \/ tclose # "open")

\* "so no timer callback touches s.L or the inbox after we close them": the
\* callback of a repeating timer arms it again after Close stopped it.
NoTimerAfterClose ==
    tclose = "closed" => armed = {} /\ \A t \in T : cb[t] = "none"

\* k.timer_stop "stops a running session timer": a repeating timer whose callback
\* had begun arms itself again, and its id no longer names it.
StoppedStays == \A t \in armed : \E i \in Id : timers[i] = t
=============================================================================
