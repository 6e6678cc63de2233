---------------------------- MODULE MCLoopSession ----------------------------
(* LoopSession with sets of model values, for TLC. *)
EXTENDS LoopSession, TLC

CONSTANTS m1, m2, m3, m4, m5, s1

MCMsgs2 == {m1, m2}
MCMsgs3 == {m1, m2, m3}
MCMsgs4 == {m1, m2, m3, m4}
MCMsgs5 == {m1, m2, m3, m4, m5}
MCSockets == {s1}
MCNoSockets == {}

Symmetry2 == Permutations(MCMsgs2)
Symmetry3 == Permutations(MCMsgs3)
Symmetry4 == Permutations(MCMsgs4)
Symmetry5 == Permutations(MCMsgs5)
=============================================================================
