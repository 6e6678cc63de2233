-------------------------- MODULE MCContextMounts --------------------------
(* Three loops of one user, created at the same time from one vault.       *)
EXTENDS ContextMounts, TLC

CONSTANTS l1, l2, l3, alice, bob, default, work

ThreeLoops == {l1, l2, l3}
TwoLoops == {l1, l2}
MCAlice == {alice}
MCUsers == {alice, bob}
OneVault == {default}
TwoVaults == {default, work}
OneLoop == {l1}
NoLoop == {}
Symmetry == Permutations({l1, l2, l3})
============================================================================
