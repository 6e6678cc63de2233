---------------------------- MODULE MCServices -----------------------------
(* Two requests at a time, two or three columns, two card texts that are   *)
(* also the tokens, two users and two conversations.                       *)
EXTENDS Services

CONSTANTS c1, c2, todo, doing, archived, t1, t2, alice, bob, k1, k2

OneCall == {c1}
TwoCalls == {c1, c2}
TwoColumns == {todo, archived}
ThreeColumns == {todo, doing, archived}
TwoTexts == {t1, t2}
TwoUsers == {alice, bob}
TwoConvs == {k1, k2}
Nothing == {}
Symmetric == Permutations(TwoCalls) \union Permutations(TwoTexts) \union Permutations(TwoUsers)
             \union Permutations(TwoConvs)
============================================================================
