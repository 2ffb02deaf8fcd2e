------------------------------- MODULE MCAIChat -------------------------------
EXTENDS AIChat, TLC

TurnSymmetry == Permutations(Turn)
=============================================================================
