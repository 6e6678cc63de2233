----------------------------- MODULE MCLoopMeta -----------------------------
(* Constants for model checking LoopMeta. *)
EXTENDS LoopMeta, TLC

CONSTANTS c1, c2, c3, c4, alice, bob

MCCalls2 == {c1, c2}
MCCalls3 == {c1, c2, c3}
MCCalls4 == {c1, c2, c3, c4}
MCUsers == {alice, bob}

Symmetry3 == Permutations(MCCalls3)
Symmetry4 == Permutations(MCCalls4)
=============================================================================
