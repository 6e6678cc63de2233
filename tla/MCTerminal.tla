----------------------------- MODULE MCTerminal -----------------------------
(* Constants for model checking Terminal. *)
EXTENDS Terminal, TLC

CONSTANTS s1, s2, s3, p1, p2, p3

MCSockets2 == {s1, s2}
MCSockets3 == {s1, s2, s3}
MCProcs == {p1, p2, p3}

Symmetric == Permutations(MCSockets3) \cup Permutations(MCProcs)
=============================================================================
