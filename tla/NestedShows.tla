---------------------------- MODULE NestedShows ----------------------------
(***************************************************************************)
(* What k.form.show promises a script: "suspends the caller until the form *)
(* closes", and "the form stack mirrors nested Show Form calls".  Shows    *)
(* nest: the coroutine that returns next is the one whose show is on top.  *)
(***************************************************************************)
EXTENDS Naturals, Sequences

CONSTANTS Form, Coro

VARIABLES
    calls,     \* the shows that have not returned, innermost last
    waiting    \* the coroutines suspended in a show

Init == calls = <<>> /\ waiting = {}

Show(f, c) ==
    /\ c \notin waiting
    /\ calls' = Append(calls, [form |-> f, co |-> c])
    /\ waiting' = waiting \cup {c}

Close ==
    /\ calls # <<>>
    /\ calls' = SubSeq(calls, 1, Len(calls) - 1)
    /\ waiting' = waiting \ {calls[Len(calls)].co}

Next == Close \/ \E f \in Form, c \in Coro : Show(f, c)

Spec == Init /\ [][Next]_<<calls, waiting>>
=============================================================================
