------------------------ MODULE MCContainerLifecycle ------------------------
(* Constants for model checking ContainerLifecycle. *)
EXTENDS ContainerLifecycle, TLC

CONSTANTS c1, c2, c3, plain, custom

MCCalls2 == {c1, c2}
MCCalls3 == {c1, c2, c3}
MCOneConfig == {plain}
MCConfigs == {plain, custom}
MCHolders == {"sdk", "pty"}
MCAll == {"sdk", "pty", "shell"}
MCShell == {"shell"}

Symmetry3 == Permutations(MCCalls3)
=============================================================================
