----------------------------- MODULE MCGitSync -----------------------------
(* One checkout of a remote others push to as well, three edits of which   *)
(* two are of one place, and two or three requests.                        *)
EXTENDS GitSync, TLC

CONSTANTS alice, e1, e2, e3, todo, plan, c1, c2, c3

MCCheckouts == {alice}
MCEdits == {e1, e2, e3}
MCPlaces == {todo, plan}
MCPlaceOf == (e1 :> todo) @@ (e2 :> plan) @@ (e3 :> todo)
MCCalls == {c1, c2, c3}
TwoCalls == {c1, c2}
Symmetry == Permutations(MCCalls)
============================================================================
