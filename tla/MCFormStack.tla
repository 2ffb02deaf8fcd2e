---------------------------- MODULE MCFormStack ----------------------------
(* FormStack on a small instance; handler coroutines are interchangeable. *)
EXTENDS FormStack, TLC

HandlerSymmetry == Permutations(Coro \ {Main})
=============================================================================
