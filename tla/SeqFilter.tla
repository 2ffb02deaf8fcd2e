----------------------------- MODULE SeqFilter -----------------------------
(***************************************************************************)
(* The members of a sequence that belong to a set, in their order: what    *)
(* SelectSeq computes, with a set for the test, so that lemmas about it    *)
(* can be stated once and applied (AlgorithmProofs).                       *)
(***************************************************************************)
EXTENDS SequencesExt

Filter(s, S) == FlattenSeq([i \in DOMAIN s |-> IF s[i] \in S THEN <<s[i]>> ELSE <<>>])
=============================================================================
