------------------------------- MODULE Mailbox -------------------------------
(***************************************************************************)
(* What a loop's session promises about the messages that are sent to it,  *)
(* whatever becomes of its queries: a message waits its turn behind those  *)
(* that wait already, leaves the line from its head or by being withdrawn, *)
(* is begun once at most, and once settled stays settled.  LoopSession     *)
(* implements it.                                                          *)
(***************************************************************************)
EXTENDS Naturals, Sequences, SequencesExt

CONSTANT Msgs

VARIABLES
    stage,    \* how far each message has come
    waiting   \* the line

vars == <<stage, waiting>>

Stages == {"unsent", "waiting", "taken", "running", "settled", "withdrawn"}

Init == stage = [m \in Msgs |-> "unsent"] /\ waiting = << >>

Move(m, s) == stage' = [stage EXCEPT ![m] = s]

\* A message that is sent may join the line.
Join(m) ==
    /\ stage[m] = "unsent"
    /\ Move(m, "waiting")
    /\ waiting' = Append(waiting, m)

\* It is taken at once only if nobody is in line.
Pass(m) ==
    /\ stage[m] = "unsent" /\ waiting = << >>
    /\ Move(m, "taken")
    /\ UNCHANGED waiting

Begin(m) ==
    /\ stage[m] = "taken"
    /\ Move(m, "running")
    /\ UNCHANGED waiting

\* Messages that were taken, or are running, come to their end together.
Settled(S) == [m \in Msgs |-> IF m \in S THEN "settled" ELSE stage[m]]

Settle(S) ==
    /\ \A m \in S : stage[m] \in {"taken", "running"}
    /\ stage' = Settled(S)
    /\ UNCHANGED waiting

\* ... and then the line may move, in the same step.
SettleAndCall(S) ==
    /\ \A m \in S : stage[m] \in {"taken", "running"}
    /\ waiting # << >>
    /\ waiting' = Tail(waiting)
    /\ stage' = [Settled(S) EXCEPT ![Head(waiting)] = "taken"]

Withdraw(i) ==
    /\ Move(waiting[i], "withdrawn")
    /\ waiting' = RemoveAt(waiting, i)

WithdrawAll ==
    /\ waiting' = << >>
    /\ stage' = [m \in Msgs |-> IF \E i \in DOMAIN waiting : waiting[i] = m
                                THEN "withdrawn" ELSE stage[m]]

Next ==
    \/ \E m \in Msgs : Join(m) \/ Pass(m) \/ Begin(m)
    \/ \E S \in SUBSET Msgs : Settle(S) \/ SettleAndCall(S)
    \/ \E i \in DOMAIN waiting : Withdraw(i)
    \/ WithdrawAll

Spec == Init /\ [][Next]_vars
=============================================================================
