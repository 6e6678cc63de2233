------------------------------ MODULE MCApiV1 ------------------------------
(* Two or three posts, with or without the one idempotency key.            *)
EXTENDS ApiV1

CONSTANTS c1, c2, c3, w1, k1, b1, b2, x1

TwoPosts == {c1, c2}
ThreePosts == {c1, c2, c3}
OneWatcher == {w1}
NoWatcher == {}
OneKey == {k1}
TwoBodies == {b1, b2}
OneBody == {b1}
OneChoice == {x1}
Nothing == {}
Direct == {"direct"}
Both == {"direct", "queued"}
============================================================================
