----------------------------- MODULE MCViewers -----------------------------
(* Two connections, one of them opened while the other's turns run.        *)
EXTENDS Viewers

CONSTANTS s1, s2, p1, p2

TwoSockets == {s1, s2}
OneSocket == {s1}
OnePrompt == {p1}
TwoPrompts == {p1, p2}
============================================================================
