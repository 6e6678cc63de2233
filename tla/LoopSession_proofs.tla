-------------------------- MODULE LoopSession_proofs --------------------------
(***************************************************************************)
(* Theorems about LoopSession, for any set of messages and of websockets.  *)
(***************************************************************************)
EXTENDS LoopSession, TLAPS

-----------------------------------------------------------------------------
(* Types *)

\* The ranges of the variables other than the flags, which the provers handle
\* apart from the flags.
DataOK ==
    /\ q \in Msgs \cup {None} /\ reader \in Msgs \cup {None}
    /\ messageQueue \in Seq(Msgs)
    /\ subscribers \subseteq Sockets /\ closed \subseteq Sockets
    /\ pc \in [Msgs -> Places]
    /\ via \in [Msgs -> {"direct", "queue"}]
    /\ attach \in [Sockets -> {"none", "loading", "replaying", "attached"}]
    /\ teardown \in {"none", "clear", "strip"}
    /\ consumer \in [Msgs -> ConsumerStates]
    /\ stdin \in [Msgs -> Seq(Msgs)]
    /\ turn \in [Msgs -> Msgs \cup {None}]
    /\ sends \in Nat /\ rank \in [Msgs -> Nat]

LEMMA TypeParts == TypeOK <=> FlagsOK /\ DataOK
BY DEF TypeOK, DataOK

\* What processNextInQueue leaves in range.
LEMMA ProcessNextType ==
    ASSUME DataOK, NEW p \in [Msgs -> Places], processNextInQueue(p)
    PROVE  /\ messageQueue' \in Seq(Msgs)
           /\ pc' \in [Msgs -> Places]
           /\ via' \in [Msgs -> {"direct", "queue"}]
<1>1. CASE messageQueue = << >>
  BY <1>1 DEF processNextInQueue, DataOK
<1>2. CASE messageQueue # << >>
  <2>1. Head(messageQueue) \in Msgs /\ Tail(messageQueue) \in Seq(Msgs)
    BY <1>2 DEF DataOK
  <2>2. "meta" \in Places
    BY DEF Places
  <2> QED
    BY <1>2, <2>1, <2>2 DEF processNextInQueue, DataOK
<1> QED
  BY <1>1, <1>2

LEMMA EndQueryType ==
    ASSUME DataOK, NEW n \in Msgs
    PROVE  EndQuery(pc, n) \in [Msgs -> Places]
BY DEF EndQuery, DataOK, Places

LEMMA RemoveAtType ==
    ASSUME DataOK, NEW i \in DOMAIN messageQueue
    PROVE  RemoveAt(messageQueue, i) \in Seq(Msgs)
<1>1. messageQueue \in Seq(Msgs) /\ i \in 1 .. Len(messageQueue)
  BY DEF DataOK
<1>2. /\ SubSeq(messageQueue, 1, i - 1) \in Seq(Msgs)
      /\ SubSeq(messageQueue, i + 1, Len(messageQueue)) \in Seq(Msgs)
  BY <1>1
<1> QED
  BY <1>1, <1>2 DEF RemoveAt

\* The flags stay Boolean.
LEMMA FlagsStep == FlagsOK /\ [Next]_vars => FlagsOK'
<1> SUFFICES ASSUME FlagsOK, [Next]_vars
             PROVE  FlagsOK'
  OBVIOUS
<1> USE DEF FlagsOK
<1>1. ASSUME NEW m \in Msgs, sendUserText(m) PROVE FlagsOK'
  BY <1>1 DEF sendUserText
<1>2. ASSUME NEW m \in Msgs, PushToCurrent(m) PROVE FlagsOK'
  BY <1>2 DEF PushToCurrent, fields
<1>3. ASSUME NEW m \in Msgs, BeginStart(m) PROVE FlagsOK'
  BY <1>3 DEF BeginStart, fields
<1>4. ASSUME NEW m \in Msgs, Started(m) PROVE FlagsOK'
  BY <1>4 DEF Started, markActive
<1>5. ASSUME NEW m \in Msgs, StartFailed(m) PROVE FlagsOK'
  BY <1>5 DEF StartFailed, processNextInQueue
<1>6. ASSUME NEW n \in Msgs, TurnBegins(n) PROVE FlagsOK'
  BY <1>6 DEF TurnBegins
<1>7. ASSUME NEW n \in Msgs, ResultReceived(n) PROVE FlagsOK'
  BY <1>7 DEF ResultReceived, StopGenerating, processNextInQueue
<1>8. ASSUME NEW n \in Msgs, ToolBoundary(n) PROVE FlagsOK'
  BY <1>8 DEF ToolBoundary, StopGenerating, calls
<1>9. ASSUME NEW n \in Msgs, BoundaryInterrupted(n) PROVE FlagsOK'
  BY <1>9 DEF BoundaryInterrupted, processNextInQueue
<1>10. ASSUME NEW n \in Msgs, GeneratorEnds(n) PROVE FlagsOK'
  BY <1>10 DEF GeneratorEnds, FinallyCleanup, scheduleIdleCleanup, fields
<1>11. ASSUME interrupt \/ restartOnNextMessage PROVE FlagsOK'
  BY <1>11 DEF interrupt, restartOnNextMessage, calls
<1>12. ASSUME NEW kind, BeginTeardown(kind) PROVE FlagsOK'
  BY <1>12 DEF BeginTeardown, fields
<1>13. ASSUME EndTeardown PROVE FlagsOK'
  BY <1>13 DEF EndTeardown
<1>14. ASSUME NEW i, removeQueueItem(i) PROVE FlagsOK'
  BY <1>14 DEF removeQueueItem
<1>15. ASSUME clearQueue PROVE FlagsOK'
  BY <1>15 DEF clearQueue
<1>16. ASSUME destroy PROVE FlagsOK'
  BY <1>16 DEF destroy
<1>17. ASSUME IdleTimeout PROVE FlagsOK'
  BY <1>16, <1>17 DEF IdleTimeout, calls
<1>18. ASSUME EndDestroy PROVE FlagsOK'
  BY <1>18 DEF EndDestroy
<1>19. ASSUME NEW s \in Sockets, BeginAttach(s) PROVE FlagsOK'
  BY <1>19 DEF BeginAttach, fields
<1>20. ASSUME NEW s \in Sockets, Subscribe(s) PROVE FlagsOK'
  BY <1>20 DEF Subscribe
<1>21. ASSUME NEW s \in Sockets, EndAttach(s) PROVE FlagsOK'
  BY <1>21 DEF EndAttach
<1>22. ASSUME NEW s \in Sockets, detach(s) PROVE FlagsOK'
  BY <1>22 DEF detach, scheduleIdleCleanup
<1>23. ASSUME UNCHANGED vars PROVE FlagsOK'
  BY <1>23 DEF vars, fields, calls
<1> QED
  BY <1>1, <1>2, <1>3, <1>4, <1>5, <1>6, <1>7, <1>8, <1>9, <1>10, <1>11, <1>12,
     <1>13, <1>14, <1>15, <1>16, <1>17, <1>18, <1>19, <1>20, <1>21, <1>22, <1>23
     DEF Next, Server, Claude, Users, destroySession

\* The other variables stay in their ranges.
LEMMA DataStep == DataOK /\ [Next]_vars => DataOK'
<1> SUFFICES ASSUME DataOK, [Next]_vars
             PROVE  DataOK'
  OBVIOUS
<1> USE DEF DataOK
<1>1. ASSUME NEW m \in Msgs, sendUserText(m) PROVE DataOK'
  <2>1. pc' \in [Msgs -> Places]
    BY <1>1 DEF sendUserText, Places
  <2>2. messageQueue' \in {messageQueue, Append(messageQueue, m)}
    BY <1>1 DEF sendUserText, isBusy
  <2>4. via' = via \/ via' = [via EXCEPT ![m] = "direct"]
    BY <1>1 DEF sendUserText, isBusy
  <2>5. messageQueue' \in Seq(Msgs)
    <3>1. Append(messageQueue, m) \in Seq(Msgs)
      OBVIOUS
    <3> QED
      BY <2>2, <3>1
  <2>6. via' \in [Msgs -> {"direct", "queue"}]
    BY <2>4
  <2>3. sends' \in Nat /\ rank' \in [Msgs -> Nat]
    BY <1>1 DEF sendUserText
  <2> QED
    BY <1>1, <2>1, <2>3, <2>5, <2>6 DEF sendUserText, queries
<1>2. ASSUME NEW m \in Msgs, PushToCurrent(m) PROVE DataOK'
  <2>1. ASSUME reader = None PROVE stdin' \in [Msgs -> Seq(Msgs)]
    <3>1. stdin' = stdin
      BY <1>2, <2>1, ConstantsAssumption DEF PushToCurrent, Push
    <3> QED
      BY <3>1
  <2>2. stdin' \in [Msgs -> Seq(Msgs)]
    BY <1>2, <2>1 DEF PushToCurrent, Push
  <2>3. pc' \in [Msgs -> Places]
    BY <1>2 DEF PushToCurrent, Push, Places
  <2> QED
    BY <1>2, <2>2, <2>3 DEF PushToCurrent, fields, history
<1>3. ASSUME NEW m \in Msgs, BeginStart(m) PROVE DataOK'
  BY <1>3 DEF BeginStart, Places, fields, queries, history
<1>4. ASSUME NEW m \in Msgs, Started(m) PROVE DataOK'
  <2>1. stdin' \in [Msgs -> Seq(Msgs)]
    BY <1>4 DEF Started, Push
  <2>2. pc' \in [Msgs -> Places] /\ consumer' \in [Msgs -> ConsumerStates]
    BY <1>4 DEF Started, Push, Places, ConsumerStates
  <2> QED
    BY <1>4, <2>1, <2>2 DEF Started, history
<1>5. ASSUME NEW m \in Msgs, StartFailed(m) PROVE DataOK'
  <2>1. [pc EXCEPT ![m] = "failed"] \in [Msgs -> Places]
    BY DEF Places
  <2>2. /\ messageQueue' \in Seq(Msgs)
        /\ pc' \in [Msgs -> Places]
        /\ via' \in [Msgs -> {"direct", "queue"}]
    BY <1>5, <2>1, ProcessNextType DEF StartFailed
  <2> QED
    BY <1>5, <2>2 DEF StartFailed, queries, history
<1>6. ASSUME NEW n \in Msgs, TurnBegins(n) PROVE DataOK'
  <2>1. Head(stdin[n]) \in Msgs /\ Tail(stdin[n]) \in Seq(Msgs)
    BY <1>6 DEF TurnBegins
  <2>2. pc' \in [Msgs -> Places]
    BY <1>6, <2>1 DEF TurnBegins, Places
  <2> QED
    BY <1>6, <2>1, <2>2 DEF TurnBegins, history
<1>7. ASSUME NEW n \in Msgs, ResultReceived(n) PROVE DataOK'
  <2>1. [pc EXCEPT ![turn[n]] = "done"] \in [Msgs -> Places]
    BY DEF Places
  <2>2. /\ messageQueue' \in Seq(Msgs)
        /\ pc' \in [Msgs -> Places]
        /\ via' \in [Msgs -> {"direct", "queue"}]
    BY <1>7, <2>1, ProcessNextType DEF ResultReceived
  <2> QED
    BY <1>7, <2>2 DEF ResultReceived, history
<1>8. ASSUME NEW n \in Msgs, ToolBoundary(n) PROVE DataOK'
  BY <1>8 DEF ToolBoundary, calls, history, ConsumerStates
<1>9. ASSUME NEW n \in Msgs, BoundaryInterrupted(n) PROVE DataOK'
  <2>1. /\ messageQueue' \in Seq(Msgs)
        /\ pc' \in [Msgs -> Places]
        /\ via' \in [Msgs -> {"direct", "queue"}]
    BY <1>9, EndQueryType, ProcessNextType DEF BoundaryInterrupted
  <2>2. /\ consumer' \in [Msgs -> ConsumerStates]
        /\ turn' \in [Msgs -> Msgs \cup {None}]
        /\ stdin' \in [Msgs -> Seq(Msgs)]
    BY <1>9 DEF BoundaryInterrupted, ConsumerStates
  <2> QED
    BY <1>9, <2>1, <2>2 DEF BoundaryInterrupted, history
<1>10. ASSUME NEW n \in Msgs, GeneratorEnds(n) PROVE DataOK'
  <2>1. pc' \in [Msgs -> Places]
    BY <1>10, EndQueryType DEF GeneratorEnds
  <2>2. /\ consumer' \in [Msgs -> ConsumerStates]
        /\ turn' \in [Msgs -> Msgs \cup {None}]
        /\ stdin' \in [Msgs -> Seq(Msgs)]
    BY <1>10 DEF GeneratorEnds, ConsumerStates
  <2>3. /\ q' \in Msgs \cup {None} /\ reader' \in Msgs \cup {None}
        /\ messageQueue' = messageQueue /\ subscribers' = subscribers
    BY <1>10 DEF GeneratorEnds, FinallyCleanup, fields
  <2> QED
    BY <1>10, <2>1, <2>2, <2>3 DEF GeneratorEnds, history
<1>11. ASSUME interrupt \/ restartOnNextMessage PROVE DataOK'
  BY <1>11 DEF interrupt, restartOnNextMessage, calls, queries, history
<1>12. ASSUME NEW kind \in {"clear", "strip"}, BeginTeardown(kind) PROVE DataOK'
  BY <1>12 DEF BeginTeardown, fields, queries, history
<1>13. ASSUME EndTeardown PROVE DataOK'
  BY <1>13 DEF EndTeardown, queries, history
<1>14. ASSUME NEW i \in 1 .. Len(messageQueue), removeQueueItem(i) PROVE DataOK'
  <2>1. pc' \in [Msgs -> Places]
    BY <1>14 DEF removeQueueItem, Places
  <2> QED
    BY <1>14, <2>1, RemoveAtType DEF removeQueueItem, queries, history
<1>15. ASSUME clearQueue PROVE DataOK'
  BY <1>15 DEF clearQueue, DropQueue, Places, queries, history
<1>16. ASSUME destroy PROVE DataOK'
  BY <1>16 DEF destroy, DropQueue, Places, queries, history
<1>17. ASSUME IdleTimeout PROVE DataOK'
  BY <1>16, <1>17 DEF IdleTimeout, calls, queries, history
<1>18. ASSUME EndDestroy PROVE DataOK'
  BY <1>18 DEF EndDestroy, queries, history
<1>19. ASSUME NEW s \in Sockets, BeginAttach(s) PROVE DataOK'
  BY <1>19 DEF BeginAttach, fields, queries, history
<1>20. ASSUME NEW s \in Sockets, Subscribe(s) PROVE DataOK'
  BY <1>20 DEF Subscribe, queries, history
<1>21. ASSUME NEW s \in Sockets, EndAttach(s) PROVE DataOK'
  BY <1>21 DEF EndAttach, queries, history
<1>22. ASSUME NEW s \in Sockets, detach(s) PROVE DataOK'
  BY <1>22 DEF detach, queries, history
<1>23. ASSUME UNCHANGED vars PROVE DataOK'
  BY <1>23 DEF vars, fields, calls, queries, history
<1> QED
  BY <1>1, <1>2, <1>3, <1>4, <1>5, <1>6, <1>7, <1>8, <1>9, <1>10, <1>11, <1>12,
     <1>13, <1>14, <1>15, <1>16, <1>17, <1>18, <1>19, <1>20, <1>21, <1>22, <1>23
     DEF Next, Server, Claude, Users, destroySession

\* Every field of the session, every call in progress and every query stays
\* within its declared range.
THEOREM TypeCorrect == Spec => []TypeOK
<1>1. Init => FlagsOK
  BY DEF Init, FlagsOK
<1>2. Init => DataOK
  BY DEF Init, DataOK, Places, ConsumerStates
<1>3. Init => TypeOK
  BY <1>1, <1>2, TypeParts
<1>4. TypeOK /\ [Next]_vars => TypeOK'
  <2> SUFFICES ASSUME TypeOK, [Next]_vars PROVE TypeOK'
    OBVIOUS
  <2>1. FlagsOK' /\ DataOK'
    BY TypeParts, FlagsStep, DataStep
  <2> QED
    BY <2>1 DEF TypeOK, DataOK
<1> QED
  BY <1>3, <1>4, PTL DEF Spec

-----------------------------------------------------------------------------
(* Where messages are.  Ledger is the inductive half of                    *)
(* MessagesAccountedFor: whatever is in the queue, on a stdin or in a turn *)
(* is there once and pc says so.                                           *)

Ledger ==
    /\ \A i \in DOMAIN messageQueue : pc[messageQueue[i]] = "queued"
    /\ \A i, j \in DOMAIN messageQueue : messageQueue[i] = messageQueue[j] => i = j
    /\ \A n \in Msgs : \A i \in DOMAIN stdin[n] : pc[stdin[n][i]] = "sent"
    /\ \A n1, n2 \in Msgs : \A i \in DOMAIN stdin[n1], j \in DOMAIN stdin[n2] :
            stdin[n1][i] = stdin[n2][j] => n1 = n2 /\ i = j
    /\ \A n \in Msgs : turn[n] # None => pc[turn[n]] = "turn"
    /\ \A n1, n2 \in Msgs : turn[n1] = turn[n2] /\ turn[n1] # None => n1 = n2

\* A message has a query of its own only once it has been through
\* ensureStarted(); only a query being consumed holds messages; and the current
\* query is being consumed and reads the current iterable.
Consumers ==
    /\ \A n \in Msgs : pc[n] \in {"new", "queued", "meta", "starting"} => consumer[n] = "none"
    /\ \A n \in Msgs : consumer[n] \in {"none", "ended"} => turn[n] = None /\ stdin[n] = << >>
    /\ q # None => reader = q /\ consumer[q] \in {"running", "boundary"}

LEMMA AppendFacts ==
    ASSUME NEW S, NEW s \in Seq(S), NEW e \in S
    PROVE  /\ DOMAIN Append(s, e) = 1 .. Len(s) + 1
           /\ \A i \in 1 .. Len(s) : Append(s, e)[i] = s[i]
           /\ Append(s, e)[Len(s) + 1] = e
           /\ DOMAIN s = 1 .. Len(s) /\ Len(s) \in Nat
OBVIOUS

LEMMA AppendNonEmpty ==
    ASSUME NEW S, NEW s \in Seq(S), NEW e \in S
    PROVE  Append(s, e) # << >>
<1>1. Len(Append(s, e)) = Len(s) + 1 /\ Len(s) \in Nat
  OBVIOUS
<1>2. Len(<< >>) = 0
  OBVIOUS
<1> QED
  BY <1>1, <1>2

LEMMA TailFacts ==
    ASSUME NEW S, NEW s \in Seq(S), s # << >>
    PROVE  /\ DOMAIN Tail(s) = 1 .. Len(s) - 1
           /\ \A i \in 1 .. Len(s) - 1 : Tail(s)[i] = s[i + 1]
           /\ Head(s) = s[1] /\ Head(s) \in S
           /\ DOMAIN s = 1 .. Len(s) /\ Len(s) \in Nat /\ Len(s) > 0
OBVIOUS

LEMMA ConcatFacts ==
    ASSUME NEW S, NEW a \in Seq(S), NEW b \in Seq(S)
    PROVE  /\ a \o b \in Seq(S) /\ Len(a \o b) = Len(a) + Len(b)
           /\ \A i \in 1 .. Len(a) + Len(b) :
                 (a \o b)[i] = IF i <= Len(a) THEN a[i] ELSE b[i - Len(a)]
OBVIOUS

LEMMA RemoveAtFacts ==
    ASSUME NEW S, NEW s \in Seq(S), NEW k \in DOMAIN s
    PROVE  /\ DOMAIN RemoveAt(s, k) = 1 .. Len(s) - 1
           /\ \A i \in 1 .. Len(s) - 1 : RemoveAt(s, k)[i] = IF i < k THEN s[i] ELSE s[i + 1]
           /\ DOMAIN s = 1 .. Len(s) /\ Len(s) \in Nat
<1> DEFINE a == SubSeq(s, 1, k - 1)
           b == SubSeq(s, k + 1, Len(s))
<1>1. k \in 1 .. Len(s) /\ Len(s) \in Nat
  OBVIOUS
<1>2. a \in Seq(S) /\ Len(a) = k - 1 /\ \A i \in 1 .. k - 1 : a[i] = s[i]
  BY <1>1
<1>3. b \in Seq(S) /\ Len(b) = Len(s) - k /\ \A i \in 1 .. Len(s) - k : b[i] = s[k + i]
  BY <1>1
<1>4. /\ a \o b \in Seq(S) /\ Len(a \o b) = Len(s) - 1
      /\ \A i \in 1 .. Len(s) - 1 : (a \o b)[i] = IF i <= k - 1 THEN a[i] ELSE b[i - (k - 1)]
  <2> HIDE DEF a, b
  <2>1. Len(a) \in Nat /\ Len(b) \in Nat /\ Len(a) + Len(b) = Len(s) - 1
    BY <1>1, <1>2, <1>3
  <2>2. /\ a \o b \in Seq(S) /\ Len(a \o b) = Len(a) + Len(b)
        /\ \A i \in 1 .. Len(a) + Len(b) :
              (a \o b)[i] = IF i <= Len(a) THEN a[i] ELSE b[i - Len(a)]
    BY <1>2, <1>3, ConcatFacts
  <2> QED
    BY <1>2, <2>1, <2>2
<1>5. \A i \in 1 .. Len(s) - 1 : (a \o b)[i] = IF i < k THEN s[i] ELSE s[i + 1]
  <2> SUFFICES ASSUME NEW i \in 1 .. Len(s) - 1
               PROVE  (a \o b)[i] = IF i < k THEN s[i] ELSE s[i + 1]
    OBVIOUS
  <2> HIDE DEF a, b
  <2>1. CASE i < k
    BY <2>1, <1>1, <1>2, <1>4
  <2>2. CASE ~(i < k)
    <3>1. i - (k - 1) \in 1 .. Len(s) - k /\ k + (i - (k - 1)) = i + 1
      BY <2>2, <1>1
    <3> QED
      BY <2>2, <3>1, <1>1, <1>3, <1>4
  <2> QED
    BY <2>1, <2>2
<1>6. RemoveAt(s, k) = a \o b
  BY DEF RemoveAt
<1> HIDE DEF a, b
<1>7. DOMAIN (a \o b) = 1 .. Len(s) - 1
  BY <1>4
<1>8. DOMAIN s = 1 .. Len(s)
  OBVIOUS
<1> QED
  BY <1>1, <1>5, <1>6, <1>7, <1>8

\* Pushing a message from a _pushUserMessage call keeps the ledger.
LEMMA PushKeepsLedger ==
    ASSUME DataOK, Ledger, NEW m \in Msgs, NEW n \in Msgs,
           pc[m] \in {"meta", "starting"}, Push(m, n),
           UNCHANGED <<messageQueue, turn>>
    PROVE  Ledger'
<1>1. /\ \A x \in Msgs : x # m => pc'[x] = pc[x]
      /\ pc'[m] = "sent"
  BY DEF Push, DataOK
<1>2. /\ \A k \in Msgs : k # n => stdin'[k] = stdin[k]
      /\ stdin'[n] = Append(stdin[n], m)
  BY DEF Push, DataOK
<1>3. /\ DOMAIN stdin'[n] = 1 .. Len(stdin[n]) + 1
      /\ \A i \in 1 .. Len(stdin[n]) : stdin'[n][i] = stdin[n][i]
      /\ stdin'[n][Len(stdin[n]) + 1] = m
      /\ DOMAIN stdin[n] = 1 .. Len(stdin[n]) /\ Len(stdin[n]) \in Nat
  BY <1>2, AppendFacts DEF DataOK
<1>4. \A k \in Msgs : \A i \in DOMAIN stdin[k] : stdin[k][i] # m /\ stdin[k][i] \in Msgs
  BY DEF Ledger, DataOK
<1>5. /\ \A i \in DOMAIN messageQueue : messageQueue[i] # m /\ messageQueue[i] \in Msgs
      /\ \A k \in Msgs : turn[k] # m /\ turn[k] \in Msgs \cup {None}
  BY ConstantsAssumption DEF Ledger, DataOK
<1>6. \A i \in DOMAIN messageQueue : pc'[messageQueue[i]] = "queued"
  BY <1>1, <1>5 DEF Ledger
<1>7. \A k \in Msgs : \A i \in DOMAIN stdin'[k] :
         \/ i \in DOMAIN stdin[k] /\ stdin'[k][i] = stdin[k][i]
         \/ k = n /\ i = Len(stdin[n]) + 1 /\ stdin'[k][i] = m
  BY <1>2, <1>3
<1>8. \A k \in Msgs : \A i \in DOMAIN stdin'[k] : pc'[stdin'[k][i]] = "sent"
  BY <1>1, <1>4, <1>7 DEF Ledger
<1>9. \A n1, n2 \in Msgs : \A i \in DOMAIN stdin'[n1], j \in DOMAIN stdin'[n2] :
            stdin'[n1][i] = stdin'[n2][j] => n1 = n2 /\ i = j
  BY <1>4, <1>7 DEF Ledger
<1>10. \A k \in Msgs : turn[k] # None => pc'[turn[k]] = "turn"
  BY <1>1, <1>5 DEF Ledger
<1> QED
  BY <1>6, <1>8, <1>9, <1>10 DEF Ledger

\* Any step that takes queries out of turns or empties stdins, and changes pc
\* only elsewhere, keeps the ledger: of the queue it may keep everything, take
\* the head, or take everything.
LEMMA ShrinkKeepsLedger ==
    ASSUME DataOK, Ledger,
           \/ messageQueue' = messageQueue
           \/ messageQueue # << >> /\ messageQueue' = Tail(messageQueue)
           \/ messageQueue' = << >>,
           \A i \in DOMAIN messageQueue' : pc'[messageQueue'[i]] = "queued",
           \A n \in Msgs : \/ stdin'[n] = << >>
                           \/ /\ stdin'[n] = stdin[n]
                              /\ \A i \in DOMAIN stdin[n] : pc'[stdin[n][i]] = "sent",
           \A n \in Msgs : \/ turn'[n] = None
                           \/ turn'[n] = turn[n] /\ pc'[turn[n]] = "turn"
    PROVE  Ledger'
<1>1. \A i, j \in DOMAIN messageQueue' : messageQueue'[i] = messageQueue'[j] => i = j
  <2>1. CASE messageQueue' = messageQueue
    BY <2>1 DEF Ledger
  <2>2. CASE messageQueue # << >> /\ messageQueue' = Tail(messageQueue)
    <3>1. messageQueue \in Seq(Msgs)
      BY DEF DataOK
    <3>2. /\ DOMAIN messageQueue' = 1 .. Len(messageQueue) - 1
          /\ \A i \in 1 .. Len(messageQueue) - 1 : messageQueue'[i] = messageQueue[i + 1]
          /\ DOMAIN messageQueue = 1 .. Len(messageQueue) /\ Len(messageQueue) \in Nat
      BY <2>2, <3>1, TailFacts
    <3>3. SUFFICES ASSUME NEW i \in DOMAIN messageQueue', NEW j \in DOMAIN messageQueue',
                          messageQueue'[i] = messageQueue'[j]
                   PROVE  i = j
      OBVIOUS
    <3>4. /\ i + 1 \in DOMAIN messageQueue /\ j + 1 \in DOMAIN messageQueue
          /\ messageQueue[i + 1] = messageQueue[j + 1] /\ i \in Nat /\ j \in Nat
      BY <3>2, <3>3
    <3>5. i + 1 = j + 1
      BY <3>4 DEF Ledger
    <3> QED
      BY <3>4, <3>5
  <2>3. CASE messageQueue' = << >>
    BY <2>3
  <2> QED
    BY <2>1, <2>2, <2>3
<1>2. \A n \in Msgs : \A i \in DOMAIN stdin'[n] :
         stdin'[n] = stdin[n] /\ i \in DOMAIN stdin[n] /\ pc'[stdin'[n][i]] = "sent"
  OBVIOUS
<1>3. \A n1, n2 \in Msgs : \A i \in DOMAIN stdin'[n1], j \in DOMAIN stdin'[n2] :
            stdin'[n1][i] = stdin'[n2][j] => n1 = n2 /\ i = j
  BY <1>2 DEF Ledger
<1>4. \A n \in Msgs : turn'[n] # None => pc'[turn'[n]] = "turn"
  OBVIOUS
<1>5. \A n1, n2 \in Msgs : turn'[n1] = turn'[n2] /\ turn'[n1] # None => n1 = n2
  BY DEF Ledger
<1> QED
  BY <1>1, <1>2, <1>3, <1>4, <1>5 DEF Ledger

\* What processNextInQueue does to the queue and to pc.
LEMMA ProcessNextFacts ==
    ASSUME DataOK, Ledger, NEW p \in [Msgs -> Places], processNextInQueue(p)
    PROVE  \/ /\ messageQueue = << >> /\ messageQueue' = << >>
              /\ pc' = p /\ via' = via /\ ~queueProcessing'
           \/ /\ messageQueue # << >> /\ messageQueue' = Tail(messageQueue)
              /\ queueProcessing'
              /\ Head(messageQueue) \in Msgs /\ pc[Head(messageQueue)] = "queued"
              /\ pc'[Head(messageQueue)] = "meta"
              /\ via'[Head(messageQueue)] = "queue"
              /\ \A x \in Msgs : x # Head(messageQueue) => pc'[x] = p[x] /\ via'[x] = via[x]
              /\ \A i \in DOMAIN messageQueue' :
                    /\ messageQueue'[i] \in Msgs /\ pc[messageQueue'[i]] = "queued"
                    /\ messageQueue'[i] # Head(messageQueue)
<1>1. CASE messageQueue = << >>
  BY <1>1 DEF processNextInQueue
<1>2. CASE messageQueue # << >>
  <2>1. /\ DOMAIN Tail(messageQueue) = 1 .. Len(messageQueue) - 1
        /\ \A i \in 1 .. Len(messageQueue) - 1 : Tail(messageQueue)[i] = messageQueue[i + 1]
        /\ Head(messageQueue) = messageQueue[1] /\ Head(messageQueue) \in Msgs
        /\ DOMAIN messageQueue = 1 .. Len(messageQueue)
        /\ Len(messageQueue) \in Nat /\ Len(messageQueue) > 0
    BY <1>2, TailFacts DEF DataOK
  <2>2. /\ queueProcessing' = TRUE
        /\ messageQueue' = Tail(messageQueue)
        /\ pc' = [p EXCEPT ![Head(messageQueue)] = "meta"]
        /\ via' = [via EXCEPT ![Head(messageQueue)] = "queue"]
    BY <1>2 DEF processNextInQueue
  <2>3. pc[Head(messageQueue)] = "queued"
    BY <2>1 DEF Ledger
  <2>4. ASSUME NEW i \in DOMAIN messageQueue'
        PROVE  /\ messageQueue'[i] \in Msgs /\ pc[messageQueue'[i]] = "queued"
               /\ messageQueue'[i] # Head(messageQueue)
    <3>1. i + 1 \in DOMAIN messageQueue /\ i + 1 # 1 /\ 1 \in DOMAIN messageQueue
          /\ messageQueue'[i] = messageQueue[i + 1]
      BY <2>1, <2>2
    <3>2. messageQueue[i + 1] \in Msgs
      BY <3>1 DEF DataOK
    <3>3. pc[messageQueue[i + 1]] = "queued" /\ messageQueue[i + 1] # messageQueue[1]
      BY <3>1 DEF Ledger
    <3> QED
      BY <2>1, <3>1, <3>2, <3>3
  <2>5. /\ pc'[Head(messageQueue)] = "meta"
        /\ via'[Head(messageQueue)] = "queue"
        /\ \A x \in Msgs : x # Head(messageQueue) => pc'[x] = p[x] /\ via'[x] = via[x]
    BY <2>1, <2>2 DEF DataOK
  <2> QED
    BY <1>2, <2>1, <2>2, <2>3, <2>4, <2>5
<1> QED
  BY <1>1, <1>2

\* The ledger, element by element.
LEMMA LedgerFacts ==
    ASSUME DataOK, Ledger
    PROVE  /\ \A i \in DOMAIN messageQueue :
                 messageQueue[i] \in Msgs /\ pc[messageQueue[i]] = "queued"
           /\ \A n \in Msgs : \A i \in DOMAIN stdin[n] :
                 stdin[n][i] \in Msgs /\ pc[stdin[n][i]] = "sent"
           /\ \A n \in Msgs : turn[n] # None => turn[n] \in Msgs /\ pc[turn[n]] = "turn"
BY DEF Ledger, DataOK

\* Ending query n touches only the messages it holds.
LEMMA EndQueryFacts ==
    ASSUME DataOK, Ledger, NEW n \in Msgs
    PROVE  /\ \A x \in Msgs : pc[x] \notin {"sent", "turn"} => EndQuery(pc, n)[x] = pc[x]
           /\ \A k \in Msgs : k # n => \A i \in DOMAIN stdin[k] : EndQuery(pc, n)[stdin[k][i]] = "sent"
           /\ \A k \in Msgs : k # n /\ turn[k] # None => EndQuery(pc, n)[turn[k]] = "turn"
<1>1. \A i \in DOMAIN stdin[n] : pc[stdin[n][i]] = "sent"
  BY DEF Ledger
<1>2. turn[n] = None \/ pc[turn[n]] = "turn"
  BY DEF Ledger
<1>3. \A x \in Msgs : /\ turn[n] # x
                      /\ ~(\E i \in DOMAIN stdin[n] : stdin[n][i] = x)
                      => EndQuery(pc, n)[x] = pc[x]
  BY DEF EndQuery
<1>4. \A x \in Msgs : pc[x] \notin {"sent", "turn"} => EndQuery(pc, n)[x] = pc[x]
  BY <1>1, <1>2, <1>3, ConstantsAssumption
<1>5. ASSUME NEW k \in Msgs, k # n, NEW i \in DOMAIN stdin[k]
      PROVE  EndQuery(pc, n)[stdin[k][i]] = "sent"
  <2>1. stdin[k][i] \in Msgs
    BY DEF DataOK
  <2>2. pc[stdin[k][i]] = "sent" /\ turn[n] # stdin[k][i]
    BY <1>2, <2>1, ConstantsAssumption DEF Ledger
  <2>3. ~(\E j \in DOMAIN stdin[n] : stdin[n][j] = stdin[k][i])
    BY <1>5 DEF Ledger
  <2> QED
    BY <1>3, <2>1, <2>2, <2>3
<1>6. ASSUME NEW k \in Msgs, k # n, turn[k] # None
      PROVE  EndQuery(pc, n)[turn[k]] = "turn"
  <2>1. turn[k] \in Msgs
    BY <1>6 DEF DataOK
  <2>2. pc[turn[k]] = "turn" /\ turn[n] # turn[k]
    BY <1>6 DEF Ledger
  <2> QED
    BY <1>1, <1>3, <2>1, <2>2
<1> QED
  BY <1>4, <1>5, <1>6

\* A step that leaves the queue, the stdins, the turns and pc alone.
LEMMA LedgerUnchanged ==
    ASSUME Ledger, UNCHANGED <<messageQueue, stdin, turn, pc>>
    PROVE  Ledger'
BY DEF Ledger

\* processNextInQueue keeps the ledger when its caller does.
LEMMA ProcessNextKeepsLedger ==
    ASSUME DataOK, Ledger, NEW p \in [Msgs -> Places], processNextInQueue(p),
           \A x \in Msgs : pc[x] = "queued" => p[x] = "queued",
           \A n \in Msgs : \/ stdin'[n] = << >>
                           \/ /\ stdin'[n] = stdin[n]
                              /\ \A i \in DOMAIN stdin[n] : p[stdin[n][i]] = "sent",
           \A n \in Msgs : \/ turn'[n] = None
                           \/ turn[n] # None /\ turn'[n] = turn[n] /\ p[turn[n]] = "turn"
    PROVE  Ledger'
<1>1. \/ messageQueue' = messageQueue
      \/ messageQueue # << >> /\ messageQueue' = Tail(messageQueue)
      \/ messageQueue' = << >>
  BY ProcessNextFacts
<1>2. \A x \in Msgs : pc[x] \in {"sent", "turn"} => pc'[x] = p[x]
  BY ProcessNextFacts
<1>3. \A i \in DOMAIN messageQueue' : pc'[messageQueue'[i]] = "queued"
  BY ProcessNextFacts
<1>4. \A n \in Msgs : \A i \in DOMAIN stdin[n] :
         stdin[n][i] \in Msgs /\ pc[stdin[n][i]] = "sent"
  BY DEF Ledger, DataOK
<1>5. \A n \in Msgs : turn[n] # None => turn[n] \in Msgs /\ pc[turn[n]] = "turn"
  BY DEF Ledger, DataOK
<1>6. \A n \in Msgs : \/ stdin'[n] = << >>
                      \/ /\ stdin'[n] = stdin[n]
                         /\ \A i \in DOMAIN stdin[n] : pc'[stdin[n][i]] = "sent"
  BY <1>2, <1>4
<1>7. \A n \in Msgs : \/ turn'[n] = None
                      \/ turn'[n] = turn[n] /\ pc'[turn[n]] = "turn"
  BY <1>2, <1>5
<1> QED
  BY <1>1, <1>3, <1>6, <1>7, ShrinkKeepsLedger

LEMMA LedgerStep == DataOK /\ Ledger /\ Consumers /\ [Next]_vars => Ledger'
<1> SUFFICES ASSUME DataOK, Ledger, Consumers, [Next]_vars
             PROVE  Ledger'
  OBVIOUS
<1>1. ASSUME NEW m \in Msgs, sendUserText(m) PROVE Ledger'
  <2>1. /\ pc[m] = "new" /\ UNCHANGED <<stdin, turn>>
        /\ pc'[m] \in {"queued", "meta"}
        /\ \A x \in Msgs : x # m => pc'[x] = pc[x]
    BY <1>1 DEF sendUserText, queries, DataOK
  <2>2. \A i \in DOMAIN messageQueue : messageQueue[i] \in Msgs /\ messageQueue[i] # m
    BY <2>1 DEF Ledger, DataOK
  <2>3. \A i \in DOMAIN messageQueue : pc'[messageQueue[i]] = "queued"
    BY <2>1, <2>2 DEF Ledger
  <2>4. \A n \in Msgs : /\ \A i \in DOMAIN stdin[n] : pc'[stdin[n][i]] = "sent"
                        /\ turn[n] # None => pc'[turn[n]] = "turn"
    BY <2>1 DEF Ledger, DataOK
  <2>5. CASE messageQueue' = messageQueue
    BY <2>1, <2>3, <2>4, <2>5 DEF Ledger
  <2>6. CASE pc'[m] = "queued" /\ messageQueue' = Append(messageQueue, m)
    <3>1. /\ DOMAIN messageQueue' = 1 .. Len(messageQueue) + 1
          /\ \A i \in 1 .. Len(messageQueue) : messageQueue'[i] = messageQueue[i]
          /\ messageQueue'[Len(messageQueue) + 1] = m
          /\ DOMAIN messageQueue = 1 .. Len(messageQueue) /\ Len(messageQueue) \in Nat
      BY <2>6, AppendFacts DEF DataOK
    <3>2. \A i \in DOMAIN messageQueue' :
             \/ i \in DOMAIN messageQueue /\ messageQueue'[i] = messageQueue[i]
             \/ i = Len(messageQueue) + 1 /\ messageQueue'[i] = m
      BY <3>1
    <3>3. \A i \in DOMAIN messageQueue' : pc'[messageQueue'[i]] = "queued"
      BY <2>3, <2>6, <3>2
    <3>4. \A i, j \in DOMAIN messageQueue' : messageQueue'[i] = messageQueue'[j] => i = j
      BY <2>2, <3>2 DEF Ledger
    <3> QED
      BY <2>1, <2>4, <3>3, <3>4 DEF Ledger
  <2>7. messageQueue' = messageQueue \/ (pc'[m] = "queued" /\ messageQueue' = Append(messageQueue, m))
    <3>1. CASE isBusy
      BY <1>1, <3>1 DEF sendUserText, DataOK
    <3>2. CASE ~isBusy
      BY <1>1, <3>2 DEF sendUserText, DataOK
    <3> QED
      BY <3>1, <3>2
  <2> QED
    BY <2>5, <2>6, <2>7
<1>2. ASSUME NEW m \in Msgs, PushToCurrent(m) PROVE Ledger'
  <2>1. reader \in Msgs
    BY <1>2 DEF PushToCurrent, Consumers, DataOK
  <2> QED
    BY <1>2, <2>1, PushKeepsLedger DEF PushToCurrent, fields
<1>3. ASSUME NEW m \in Msgs, BeginStart(m) PROVE Ledger'
  <2>1. /\ pc[m] = "meta" /\ \A x \in Msgs : x # m => pc'[x] = pc[x]
        /\ UNCHANGED <<messageQueue, stdin, turn>>
    BY <1>3 DEF BeginStart, fields, queries, DataOK
  <2>2. \A i \in DOMAIN messageQueue : pc'[messageQueue[i]] = "queued"
    BY <2>1 DEF Ledger, DataOK
  <2>3. \A n \in Msgs : /\ \A i \in DOMAIN stdin[n] : pc'[stdin[n][i]] = "sent"
                        /\ turn[n] # None => pc'[turn[n]] = "turn"
    BY <2>1 DEF Ledger, DataOK
  <2> QED
    BY <2>1, <2>2, <2>3 DEF Ledger
<1>4. ASSUME NEW m \in Msgs, Started(m) PROVE Ledger'
  BY <1>4, PushKeepsLedger DEF Started
<1>5. ASSUME NEW m \in Msgs, StartFailed(m) PROVE Ledger'
  <2> DEFINE p == [pc EXCEPT ![m] = "failed"]
  <2>1. /\ pc[m] = "starting" /\ UNCHANGED <<stdin, turn>>
        /\ p \in [Msgs -> Places] /\ \A x \in Msgs : x # m => p[x] = pc[x]
    BY <1>5 DEF StartFailed, queries, DataOK, Places
  <2>2. \/ pc' = p /\ messageQueue' = messageQueue
        \/ processNextInQueue(p)
    BY <1>5 DEF StartFailed
  <2> HIDE DEF p
  <2>3. \A n \in Msgs : \A i \in DOMAIN stdin[n] : p[stdin[n][i]] = "sent"
    BY <2>1 DEF Ledger, DataOK
  <2>4. \A n \in Msgs : turn[n] = None \/ (turn[n] # None /\ p[turn[n]] = "turn")
    BY <2>1 DEF Ledger, DataOK
  <2>5. CASE pc' = p /\ messageQueue' = messageQueue
    <3>1. \A i \in DOMAIN messageQueue : p[messageQueue[i]] = "queued"
      BY <2>1 DEF Ledger, DataOK
    <3> QED
      BY <2>1, <2>3, <2>4, <2>5, <3>1, ShrinkKeepsLedger
  <2>6. CASE processNextInQueue(p)
    BY <2>1, <2>3, <2>4, <2>6, ProcessNextKeepsLedger
  <2> QED
    BY <2>2, <2>5, <2>6
<1>6. ASSUME NEW n \in Msgs, TurnBegins(n) PROVE Ledger'
  <2> DEFINE h == Head(stdin[n])
  <2>1. stdin[n] \in Seq(Msgs) /\ stdin[n] # << >>
    BY <1>6 DEF TurnBegins, DataOK
  <2>2. /\ DOMAIN Tail(stdin[n]) = 1 .. Len(stdin[n]) - 1
        /\ \A i \in 1 .. Len(stdin[n]) - 1 : Tail(stdin[n])[i] = stdin[n][i + 1]
        /\ h = stdin[n][1] /\ h \in Msgs
        /\ DOMAIN stdin[n] = 1 .. Len(stdin[n]) /\ Len(stdin[n]) \in Nat /\ Len(stdin[n]) > 0
    BY <2>1, TailFacts
  <2> HIDE DEF h
  <2>3. /\ messageQueue' = messageQueue
        /\ turn'[n] = h /\ \A k \in Msgs : k # n => turn'[k] = turn[k]
        /\ stdin'[n] = Tail(stdin[n]) /\ \A k \in Msgs : k # n => stdin'[k] = stdin[k]
        /\ pc'[h] = "turn" /\ \A x \in Msgs : x # h => pc'[x] = pc[x]
    BY <1>6, <2>2 DEF TurnBegins, DataOK, h
  <2>4. pc[h] = "sent" /\ 1 \in DOMAIN stdin[n]
    BY <2>2 DEF Ledger
  <2>5. \A i \in DOMAIN messageQueue : messageQueue[i] \in Msgs /\ messageQueue[i] # h
    BY <2>4 DEF Ledger, DataOK
  <2>6. \A i \in DOMAIN messageQueue : pc'[messageQueue[i]] = "queued"
    BY <2>3, <2>5 DEF Ledger
  <2> DEFINE back(k, i) == IF k = n THEN i + 1 ELSE i
  <2>7. ASSUME NEW k \in Msgs, NEW i \in DOMAIN stdin'[k]
        PROVE  /\ back(k, i) \in DOMAIN stdin[k]
               /\ stdin'[k][i] = stdin[k][back(k, i)]
               /\ k = n => back(k, i) # 1 /\ i \in Nat
    <3>1. CASE k = n
      <4>1. stdin'[k] = Tail(stdin[n]) /\ i \in 1 .. Len(stdin[n]) - 1
        BY <2>2, <2>3, <3>1
      <4>2. i + 1 \in 1 .. Len(stdin[n]) /\ i + 1 # 1 /\ i \in Nat
        BY <2>2, <4>1
      <4> QED
        BY <2>2, <3>1, <4>1, <4>2
    <3>2. CASE k # n
      BY <2>3, <3>2
    <3> QED
      BY <3>1, <3>2
  <2>8. ASSUME NEW k1 \in Msgs, NEW k2 \in Msgs, NEW i, NEW j, back(k1, i) = back(k2, j), k1 = k2,
               k1 = n => i \in Nat /\ j \in Nat
        PROVE  i = j
    BY <2>8
  <2> HIDE DEF back
  <2>9. ASSUME NEW k \in Msgs, NEW i \in DOMAIN stdin'[k]
        PROVE  stdin'[k][i] # h /\ pc'[stdin'[k][i]] = "sent"
    <3>1. /\ stdin[k][back(k, i)] \in Msgs /\ pc[stdin[k][back(k, i)]] = "sent"
          /\ stdin'[k][i] = stdin[k][back(k, i)]
      BY <2>7, LedgerFacts
    <3>2. stdin[k][back(k, i)] # stdin[n][1]
      BY <2>4, <2>7 DEF Ledger
    <3> QED
      BY <2>2, <2>3, <3>1, <3>2
  <2>10. ASSUME NEW k1 \in Msgs, NEW k2 \in Msgs,
                NEW i \in DOMAIN stdin'[k1], NEW j \in DOMAIN stdin'[k2],
                stdin'[k1][i] = stdin'[k2][j]
         PROVE  k1 = k2 /\ i = j
    <3>1. /\ back(k1, i) \in DOMAIN stdin[k1] /\ stdin'[k1][i] = stdin[k1][back(k1, i)]
          /\ k1 = n => i \in Nat
      BY <2>7
    <3>2. /\ back(k2, j) \in DOMAIN stdin[k2] /\ stdin'[k2][j] = stdin[k2][back(k2, j)]
          /\ k2 = n => j \in Nat
      BY <2>7
    <3>3. k1 = k2 /\ back(k1, i) = back(k2, j)
      <4>1. stdin[k1][back(k1, i)] = stdin[k2][back(k2, j)]
        BY <2>10, <3>1, <3>2
      <4>2. \A a \in DOMAIN stdin[k1], b \in DOMAIN stdin[k2] :
               stdin[k1][a] = stdin[k2][b] => k1 = k2 /\ a = b
        BY DEF Ledger
      <4> QED
        BY <3>1, <3>2, <4>1, <4>2
    <3> QED
      BY <2>8, <3>1, <3>2, <3>3
  <2>11. \A k \in Msgs : turn[k] # h /\ turn[k] \in Msgs \cup {None}
    BY <2>2, <2>4, ConstantsAssumption DEF Ledger, DataOK
  <2>12. \A k \in Msgs : turn'[k] # None => pc'[turn'[k]] = "turn"
    BY <2>2, <2>3, <2>11 DEF Ledger
  <2>13. \A k1, k2 \in Msgs : turn'[k1] = turn'[k2] /\ turn'[k1] # None => k1 = k2
    BY <2>3, <2>11 DEF Ledger
  <2> QED
    BY <2>3, <2>6, <2>9, <2>10, <2>12, <2>13 DEF Ledger
<1>7. ASSUME NEW n \in Msgs, ResultReceived(n) PROVE Ledger'
  <2> DEFINE p == [pc EXCEPT ![turn[n]] = "done"]
  <2>1. turn[n] # None /\ turn[n] \in Msgs /\ pc[turn[n]] = "turn"
    BY <1>7 DEF ResultReceived, Ledger, DataOK
  <2>2. /\ p \in [Msgs -> Places] /\ \A x \in Msgs : x # turn[n] => p[x] = pc[x]
    BY <2>1 DEF DataOK, Places
  <2>3. /\ processNextInQueue(p) /\ stdin' = stdin
        /\ turn'[n] = None /\ \A k \in Msgs : k # n => turn'[k] = turn[k]
    BY <1>7 DEF ResultReceived, DataOK
  <2> HIDE DEF p
  <2>4. \A k \in Msgs : \A i \in DOMAIN stdin[k] : p[stdin[k][i]] = "sent"
    BY <2>1, <2>2 DEF Ledger, DataOK
  <2>5. \A k \in Msgs : k # n /\ turn[k] # None => p[turn[k]] = "turn"
    BY <2>1, <2>2 DEF Ledger, DataOK
  <2>6. \A x \in Msgs : pc[x] = "queued" => p[x] = "queued"
    BY <2>1, <2>2
  <2>7. \A k \in Msgs : \/ turn'[k] = None
                        \/ turn[k] # None /\ turn'[k] = turn[k] /\ p[turn[k]] = "turn"
    BY <2>3, <2>5
  <2> QED
    BY <2>2, <2>3, <2>4, <2>6, <2>7, ProcessNextKeepsLedger
<1>8. ASSUME NEW n \in Msgs, ToolBoundary(n) PROVE Ledger'
  BY <1>8, LedgerUnchanged DEF ToolBoundary, calls
<1>9. ASSUME NEW n \in Msgs, BoundaryInterrupted(n) PROVE Ledger'
  <2> DEFINE p == EndQuery(pc, n)
  <2>1. p \in [Msgs -> Places]
    BY EndQueryType
  <2>2. /\ \A x \in Msgs : pc[x] \notin {"sent", "turn"} => p[x] = pc[x]
        /\ \A k \in Msgs : k # n => \A i \in DOMAIN stdin[k] : p[stdin[k][i]] = "sent"
        /\ \A k \in Msgs : k # n /\ turn[k] # None => p[turn[k]] = "turn"
    BY EndQueryFacts
  <2>3. /\ turn'[n] = None /\ \A k \in Msgs : k # n => turn'[k] = turn[k]
        /\ stdin'[n] = << >> /\ \A k \in Msgs : k # n => stdin'[k] = stdin[k]
    BY <1>9 DEF BoundaryInterrupted, DataOK
  <2>4. processNextInQueue(p) \/ (pc' = p /\ messageQueue' = messageQueue)
    BY <1>9 DEF BoundaryInterrupted
  <2> HIDE DEF p
  <2>5. \A k \in Msgs : \/ stdin'[k] = << >>
                        \/ /\ stdin'[k] = stdin[k]
                           /\ \A i \in DOMAIN stdin[k] : p[stdin[k][i]] = "sent"
    BY <2>2, <2>3
  <2>6. \A k \in Msgs : \/ turn'[k] = None
                        \/ turn[k] # None /\ turn'[k] = turn[k] /\ p[turn[k]] = "turn"
    BY <2>2, <2>3
  <2>7. CASE processNextInQueue(p)
    BY <2>1, <2>2, <2>5, <2>6, <2>7, ProcessNextKeepsLedger
  <2>8. CASE pc' = p /\ messageQueue' = messageQueue
    <3>1. \A i \in DOMAIN messageQueue : pc'[messageQueue[i]] = "queued"
      BY <2>2, <2>8, LedgerFacts
    <3> QED
      BY <2>5, <2>6, <2>8, <3>1, ShrinkKeepsLedger
  <2> QED
    BY <2>4, <2>7, <2>8
<1>10. ASSUME NEW n \in Msgs, GeneratorEnds(n) PROVE Ledger'
  <2>1. /\ \A x \in Msgs : pc[x] \notin {"sent", "turn"} => pc'[x] = pc[x]
        /\ \A k \in Msgs : k # n => \A i \in DOMAIN stdin[k] : pc'[stdin[k][i]] = "sent"
        /\ \A k \in Msgs : k # n /\ turn[k] # None => pc'[turn[k]] = "turn"
    BY <1>10, EndQueryFacts DEF GeneratorEnds
  <2>2. /\ turn'[n] = None /\ \A k \in Msgs : k # n => turn'[k] = turn[k]
        /\ stdin'[n] = << >> /\ \A k \in Msgs : k # n => stdin'[k] = stdin[k]
    BY <1>10 DEF GeneratorEnds, DataOK
  <2>3. messageQueue' = messageQueue
    BY <1>10 DEF GeneratorEnds, FinallyCleanup, fields
  <2>4. \A i \in DOMAIN messageQueue : pc'[messageQueue[i]] = "queued"
    BY <2>1, LedgerFacts
  <2>5. \A k \in Msgs : turn'[k] = None \/ (turn'[k] = turn[k] /\ pc'[turn[k]] = "turn")
    BY <2>1, <2>2
  <2> QED
    BY <2>1, <2>2, <2>3, <2>4, <2>5, ShrinkKeepsLedger
<1>11. ASSUME interrupt \/ restartOnNextMessage PROVE Ledger'
  BY <1>11, LedgerUnchanged DEF interrupt, restartOnNextMessage, calls, queries
<1>12. ASSUME NEW kind, BeginTeardown(kind) PROVE Ledger'
  BY <1>12, LedgerUnchanged DEF BeginTeardown, fields, queries
<1>13. ASSUME EndTeardown \/ EndDestroy PROVE Ledger'
  BY <1>13, LedgerUnchanged DEF EndTeardown, EndDestroy, queries
<1>14. ASSUME NEW r \in 1 .. Len(messageQueue), removeQueueItem(r) PROVE Ledger'
  <2>1. /\ messageQueue' = RemoveAt(messageQueue, r) /\ UNCHANGED <<stdin, turn>>
        /\ r \in DOMAIN messageQueue /\ messageQueue[r] \in Msgs
        /\ pc'[messageQueue[r]] = "dropped"
        /\ \A x \in Msgs : x # messageQueue[r] => pc'[x] = pc[x]
    BY <1>14 DEF removeQueueItem, queries, DataOK
  <2>2. pc[messageQueue[r]] = "queued"
    BY <2>1 DEF Ledger
  <2>3. messageQueue \in Seq(Msgs)
    BY DEF DataOK
  <2>4. /\ DOMAIN messageQueue' = 1 .. Len(messageQueue) - 1
        /\ \A i \in 1 .. Len(messageQueue) - 1 :
              messageQueue'[i] = IF i < r THEN messageQueue[i] ELSE messageQueue[i + 1]
        /\ DOMAIN messageQueue = 1 .. Len(messageQueue) /\ Len(messageQueue) \in Nat
    BY <2>1, <2>3, RemoveAtFacts
  <2> DEFINE back(i) == IF i < r THEN i ELSE i + 1
  <2>5. ASSUME NEW i \in DOMAIN messageQueue'
        PROVE  /\ back(i) \in DOMAIN messageQueue /\ back(i) # r
               /\ messageQueue'[i] = messageQueue[back(i)]
    BY <2>1, <2>4
  <2>6. \A i, j \in DOMAIN messageQueue' : back(i) = back(j) => i = j
    BY <2>1, <2>4
  <2> HIDE DEF back
  <2>7. \A i \in DOMAIN messageQueue' :
           messageQueue'[i] \in Msgs /\ messageQueue'[i] # messageQueue[r]
    BY <2>1, <2>5, <2>3 DEF Ledger
  <2>8. \A i \in DOMAIN messageQueue' : pc'[messageQueue'[i]] = "queued"
    BY <2>1, <2>5, <2>7 DEF Ledger
  <2>9. \A i, j \in DOMAIN messageQueue' : messageQueue'[i] = messageQueue'[j] => i = j
    BY <2>5, <2>6 DEF Ledger
  <2>10. \A n \in Msgs : /\ \A i \in DOMAIN stdin[n] : pc'[stdin[n][i]] = "sent"
                         /\ turn[n] # None => pc'[turn[n]] = "turn"
    <3> SUFFICES ASSUME NEW n \in Msgs
                 PROVE  /\ \A i \in DOMAIN stdin[n] : pc'[stdin[n][i]] = "sent"
                        /\ turn[n] # None => pc'[turn[n]] = "turn"
      BY <2>1
    <3>1. /\ \A i \in DOMAIN stdin[n] : stdin[n][i] \in Msgs /\ pc[stdin[n][i]] = "sent"
          /\ turn[n] # None => turn[n] \in Msgs /\ pc[turn[n]] = "turn"
      BY DEF Ledger, DataOK
    <3> QED
      BY <2>1, <2>2, <3>1
  <2> QED
    BY <2>1, <2>8, <2>9, <2>10 DEF Ledger
<1>15. ASSUME clearQueue \/ destroy PROVE Ledger'
  <2>1. messageQueue' = << >> /\ pc' = DropQueue /\ UNCHANGED <<stdin, turn>>
    BY <1>15 DEF clearQueue, destroy, queries
  <2>2. \A x \in Msgs : pc[x] # "queued" => pc'[x] = pc[x]
    BY <2>1 DEF DropQueue, Ledger
  <2>3. \A n \in Msgs : \A i \in DOMAIN stdin[n] : pc'[stdin[n][i]] = "sent"
    BY <2>2 DEF Ledger, DataOK
  <2>4. \A n \in Msgs : turn[n] = None \/ pc'[turn[n]] = "turn"
    BY <2>2 DEF Ledger, DataOK
  <2> QED
    BY <2>1, <2>3, <2>4, ShrinkKeepsLedger
<1>16. ASSUME IdleTimeout PROVE Ledger'
  BY <1>15, <1>16, LedgerUnchanged DEF IdleTimeout, calls, queries
<1>17. ASSUME NEW s \in Sockets, BeginAttach(s) \/ Subscribe(s) \/ EndAttach(s) \/ detach(s)
       PROVE  Ledger'
  BY <1>17, LedgerUnchanged DEF BeginAttach, Subscribe, EndAttach, detach, fields, queries
<1>18. ASSUME UNCHANGED vars PROVE Ledger'
  BY <1>18, LedgerUnchanged DEF vars, fields, calls, queries
<1> QED
  BY <1>1, <1>2, <1>3, <1>4, <1>5, <1>6, <1>7, <1>8, <1>9, <1>10, <1>11, <1>12,
     <1>13, <1>14, <1>15, <1>16, <1>17, <1>18
     DEF Next, Server, Claude, Users, destroySession

\* processNextInQueue as seen by the invariants about consumers: a message that
\* has not been through ensureStarted() afterwards had not before either.
LEMMA ProcessNextUnstarted ==
    ASSUME DataOK, Ledger, NEW p \in [Msgs -> Places],
           processNextInQueue(p) \/ pc' = p,
           NEW x \in Msgs, pc'[x] \in {"new", "queued", "meta", "starting"}
    PROVE  pc[x] = "queued" \/ p[x] = pc'[x]
<1>1. CASE pc' = p
  BY <1>1
<1>2. CASE processNextInQueue(p)
  BY <1>2, ProcessNextFacts
<1> QED
  BY <1>1, <1>2

Unstarted == {"new", "queued", "meta", "starting"}

LEMMA ConsumersStep == DataOK /\ Ledger /\ Consumers /\ [Next]_vars => Consumers'
<1> SUFFICES ASSUME DataOK, Ledger, Consumers, [Next]_vars
             PROVE  Consumers'
  OBVIOUS
<1>a. ASSUME UNCHANGED <<consumer, turn, stdin>>,
             \A x \in Msgs : pc'[x] \in Unstarted => pc[x] \in Unstarted,
             q' = None \/ (q' = q /\ reader' = reader)
      PROVE  Consumers'
  <2>1. \A n \in Msgs : pc'[n] \in Unstarted => consumer'[n] = "none"
    BY <1>a DEF Consumers, Unstarted
  <2>2. \A n \in Msgs : consumer'[n] \in {"none", "ended"} => turn'[n] = None /\ stdin'[n] = << >>
    BY <1>a DEF Consumers
  <2>3. q' # None => reader' = q' /\ consumer'[q'] \in {"running", "boundary"}
    BY <1>a DEF Consumers
  <2> QED
    BY <2>1, <2>2, <2>3 DEF Consumers, Unstarted
<1>1. ASSUME NEW m \in Msgs, sendUserText(m) PROVE Consumers'
  <2>1. /\ UNCHANGED <<consumer, turn, stdin, q, reader>>
        /\ \A x \in Msgs : x # m => pc'[x] = pc[x]
        /\ pc[m] = "new"
    BY <1>1 DEF sendUserText, queries, DataOK
  <2>2. \A x \in Msgs : pc'[x] \in Unstarted => pc[x] \in Unstarted
    BY <2>1 DEF Unstarted
  <2> QED
    BY <1>a, <2>1, <2>2
<1>2. ASSUME NEW m \in Msgs, PushToCurrent(m) PROVE Consumers'
  <2>1. /\ UNCHANGED <<consumer, turn, q, reader>>
        /\ \A x \in Msgs : x # m => pc'[x] = pc[x]
        /\ pc'[m] = "sent"
        /\ \A k \in Msgs : k # q => stdin'[k] = stdin[k]
        /\ q \in Msgs /\ consumer[q] \in {"running", "boundary"}
    BY <1>2 DEF PushToCurrent, Push, fields, DataOK, Consumers
  <2>2. \A n \in Msgs : pc'[n] \in Unstarted => consumer'[n] = "none"
    BY <2>1 DEF Consumers, Unstarted
  <2>3. \A n \in Msgs : consumer'[n] \in {"none", "ended"} => turn'[n] = None /\ stdin'[n] = << >>
    BY <2>1 DEF Consumers
  <2>4. q' # None => reader' = q' /\ consumer'[q'] \in {"running", "boundary"}
    BY <2>1 DEF Consumers
  <2> QED
    BY <2>2, <2>3, <2>4 DEF Consumers, Unstarted
<1>3. ASSUME NEW m \in Msgs, BeginStart(m) PROVE Consumers'
  <2>1. /\ UNCHANGED <<consumer, turn, stdin, q, reader>>
        /\ \A x \in Msgs : x # m => pc'[x] = pc[x]
        /\ pc[m] = "meta"
    BY <1>3 DEF BeginStart, fields, queries, DataOK
  <2>2. \A x \in Msgs : pc'[x] \in Unstarted => pc[x] \in Unstarted
    BY <2>1 DEF Unstarted
  <2> QED
    BY <1>a, <2>1, <2>2
<1>4. ASSUME NEW m \in Msgs, Started(m) PROVE Consumers'
  <2>1. /\ q' = m /\ reader' = m /\ turn' = turn
        /\ \A x \in Msgs : x # m => pc'[x] = pc[x] /\ consumer'[x] = consumer[x]
        /\ pc'[m] = "sent" /\ consumer'[m] = "running"
        /\ \A k \in Msgs : k # m => stdin'[k] = stdin[k]
    BY <1>4 DEF Started, Push, DataOK
  <2>2. \A n \in Msgs : pc'[n] \in Unstarted => consumer'[n] = "none"
    BY <2>1 DEF Consumers, Unstarted
  <2>3. \A n \in Msgs : consumer'[n] \in {"none", "ended"} => turn'[n] = None /\ stdin'[n] = << >>
    BY <2>1 DEF Consumers
  <2> QED
    BY <2>1, <2>2, <2>3 DEF Consumers, Unstarted
<1>5. ASSUME NEW m \in Msgs, StartFailed(m) PROVE Consumers'
  <2> DEFINE p == [pc EXCEPT ![m] = "failed"]
  <2>1. /\ UNCHANGED <<consumer, turn, stdin, q, reader>>
        /\ p \in [Msgs -> Places] /\ p[m] = "failed"
        /\ \A x \in Msgs : x # m => p[x] = pc[x]
    BY <1>5 DEF StartFailed, queries, DataOK, Places
  <2>2. processNextInQueue(p) \/ pc' = p
    BY <1>5 DEF StartFailed
  <2> HIDE DEF p
  <2>3. \A x \in Msgs : pc'[x] \in Unstarted => pc[x] \in Unstarted
    BY <2>1, <2>2, ProcessNextUnstarted DEF Unstarted
  <2> QED
    BY <1>a, <2>1, <2>3
<1>6. ASSUME NEW n \in Msgs, TurnBegins(n) PROVE Consumers'
  <2>1. Head(stdin[n]) \in Msgs
    <3>1. stdin[n] \in Seq(Msgs) /\ stdin[n] # << >>
      BY <1>6 DEF TurnBegins, DataOK
    <3> QED
      BY <3>1, TailFacts
  <2>2. /\ UNCHANGED <<consumer, q, reader>> /\ consumer[n] = "running"
        /\ \A k \in Msgs : k # n => turn'[k] = turn[k] /\ stdin'[k] = stdin[k]
        /\ pc'[Head(stdin[n])] = "turn"
        /\ \A x \in Msgs : x # Head(stdin[n]) => pc'[x] = pc[x]
    BY <1>6, <2>1 DEF TurnBegins, DataOK
  <2>3. \A k \in Msgs : pc'[k] \in Unstarted => consumer'[k] = "none"
    BY <2>1, <2>2 DEF Consumers, Unstarted
  <2>4. \A k \in Msgs : consumer'[k] \in {"none", "ended"} => turn'[k] = None /\ stdin'[k] = << >>
    BY <2>2 DEF Consumers
  <2>5. q' # None => reader' = q' /\ consumer'[q'] \in {"running", "boundary"}
    BY <2>2 DEF Consumers
  <2> QED
    BY <2>3, <2>4, <2>5 DEF Consumers, Unstarted
<1>7. ASSUME NEW n \in Msgs, ResultReceived(n) PROVE Consumers'
  <2> DEFINE p == [pc EXCEPT ![turn[n]] = "done"]
  <2>1. turn[n] # None /\ turn[n] \in Msgs
    BY <1>7 DEF ResultReceived, DataOK
  <2>2. /\ UNCHANGED <<consumer, stdin>> /\ q' = None
        /\ turn'[n] = None /\ \A k \in Msgs : k # n => turn'[k] = turn[k]
        /\ p \in [Msgs -> Places] /\ p[turn[n]] = "done"
        /\ \A x \in Msgs : x # turn[n] => p[x] = pc[x]
    BY <1>7, <2>1 DEF ResultReceived, DataOK, Places
  <2>3. processNextInQueue(p)
    BY <1>7 DEF ResultReceived
  <2> HIDE DEF p
  <2>4. \A x \in Msgs : pc'[x] \in Unstarted => pc[x] \in Unstarted
    BY <2>2, <2>3, ProcessNextUnstarted DEF Unstarted
  <2>5. \A k \in Msgs : pc'[k] \in Unstarted => consumer'[k] = "none"
    BY <2>2, <2>4 DEF Consumers, Unstarted
  <2>6. \A k \in Msgs : consumer'[k] \in {"none", "ended"} => turn'[k] = None /\ stdin'[k] = << >>
    BY <2>2 DEF Consumers
  <2> QED
    BY <2>2, <2>5, <2>6 DEF Consumers, Unstarted
<1>8. ASSUME NEW n \in Msgs, ToolBoundary(n) PROVE Consumers'
  <2>1. /\ UNCHANGED <<turn, stdin, pc, q, reader>>
        /\ consumer[n] = "running" /\ consumer'[n] = "boundary"
        /\ \A k \in Msgs : k # n => consumer'[k] = consumer[k]
    BY <1>8 DEF ToolBoundary, calls, DataOK
  <2> QED
    BY <2>1 DEF Consumers, DataOK
<1>9. ASSUME NEW n \in Msgs, pc' = EndQuery(pc, n) \/ processNextInQueue(EndQuery(pc, n)),
             consumer' = [consumer EXCEPT ![n] = "ended"],
             consumer[n] \in {"running", "boundary"},
             turn' = [turn EXCEPT ![n] = None],
             stdin' = [stdin EXCEPT ![n] = << >>],
             q' = None \/ (q # n /\ q' = q /\ reader' = reader)
      PROVE  Consumers'
  <2> DEFINE p == EndQuery(pc, n)
  <2>1. /\ \A k \in Msgs : k # n => /\ turn'[k] = turn[k] /\ stdin'[k] = stdin[k]
                                    /\ consumer'[k] = consumer[k]
        /\ turn'[n] = None /\ stdin'[n] = << >> /\ consumer'[n] = "ended"
    BY <1>9 DEF DataOK
  <2>2. p \in [Msgs -> Places] /\ \A x \in Msgs : p[x] = pc[x] \/ p[x] \in {"cut", "lost"}
    BY EndQueryType DEF EndQuery
  <2>3. processNextInQueue(p) \/ pc' = p
    BY <1>9
  <2> HIDE DEF p
  <2>4. \A x \in Msgs : pc'[x] \in Unstarted => pc[x] \in Unstarted
    BY <2>2, <2>3, ProcessNextUnstarted DEF Unstarted
  <2>5. \A k \in Msgs : pc'[k] \in Unstarted => consumer'[k] = "none"
    BY <1>9, <2>1, <2>4 DEF Consumers, Unstarted
  <2>6. \A k \in Msgs : consumer'[k] \in {"none", "ended"} => turn'[k] = None /\ stdin'[k] = << >>
    BY <2>1 DEF Consumers
  <2>7. q' # None => reader' = q' /\ consumer'[q'] \in {"running", "boundary"}
    BY <1>9, <2>1 DEF Consumers, DataOK
  <2> QED
    BY <2>5, <2>6, <2>7 DEF Consumers, Unstarted
<1>10. ASSUME NEW n \in Msgs, BoundaryInterrupted(n) PROVE Consumers'
  <2>1. pc' = EndQuery(pc, n) \/ processNextInQueue(EndQuery(pc, n))
    BY <1>10 DEF BoundaryInterrupted
  <2> QED
    BY <1>9, <1>10, <2>1 DEF BoundaryInterrupted
<1>11. ASSUME NEW n \in Msgs, GeneratorEnds(n) PROVE Consumers'
  <2>1. q' = None \/ (q # n /\ q' = q /\ reader' = reader)
    BY <1>11 DEF GeneratorEnds, FinallyCleanup, fields
  <2> QED
    BY <1>9, <1>11, <2>1 DEF GeneratorEnds
<1>12. ASSUME interrupt \/ restartOnNextMessage PROVE Consumers'
  BY <1>a, <1>12 DEF interrupt, restartOnNextMessage, calls, queries
<1>13. ASSUME NEW kind, BeginTeardown(kind) PROVE Consumers'
  BY <1>a, <1>13 DEF BeginTeardown, fields, queries
<1>14. ASSUME EndTeardown \/ EndDestroy PROVE Consumers'
  BY <1>a, <1>14 DEF EndTeardown, EndDestroy, queries
<1>15. ASSUME NEW r \in 1 .. Len(messageQueue), removeQueueItem(r) PROVE Consumers'
  <2>1. \A x \in Msgs : pc'[x] = pc[x] \/ pc'[x] = "dropped"
    BY <1>15 DEF removeQueueItem, DataOK
  <2>2. \A x \in Msgs : pc'[x] \in Unstarted => pc[x] \in Unstarted
    BY <2>1 DEF Unstarted
  <2> QED
    BY <1>a, <1>15, <2>2 DEF removeQueueItem, queries
<1>16. ASSUME clearQueue \/ destroy PROVE Consumers'
  <2>1. \A x \in Msgs : pc'[x] = pc[x] \/ pc'[x] = "dropped"
    BY <1>16 DEF clearQueue, destroy, DropQueue
  <2>2. \A x \in Msgs : pc'[x] \in Unstarted => pc[x] \in Unstarted
    BY <2>1 DEF Unstarted
  <2> QED
    BY <1>a, <1>16, <2>2 DEF clearQueue, destroy, queries
<1>17. ASSUME IdleTimeout PROVE Consumers'
  BY <1>a, <1>16, <1>17 DEF IdleTimeout, calls, queries
<1>18. ASSUME NEW s \in Sockets, BeginAttach(s) \/ Subscribe(s) \/ EndAttach(s) \/ detach(s)
       PROVE  Consumers'
  BY <1>a, <1>18 DEF BeginAttach, Subscribe, EndAttach, detach, fields, queries
<1>19. ASSUME UNCHANGED vars PROVE Consumers'
  BY <1>a, <1>19 DEF vars, fields, calls, queries
<1> QED
  BY <1>1, <1>2, <1>3, <1>4, <1>5, <1>6, <1>7, <1>8, <1>10, <1>11, <1>12,
     <1>13, <1>14, <1>15, <1>16, <1>17, <1>18, <1>19
     DEF Next, Server, Claude, Users, destroySession

-----------------------------------------------------------------------------
CoreInv == DataOK /\ Ledger /\ Consumers

LEMMA CoreInvariant == Spec => []CoreInv
<1>1. Init => CoreInv
  BY ConstantsAssumption
     DEF Init, CoreInv, DataOK, Ledger, Consumers, Places, ConsumerStates
<1>2. CoreInv /\ [Next]_vars => CoreInv'
  BY DataStep, LedgerStep, ConsumersStep DEF CoreInv
<1> QED
  BY <1>1, <1>2, PTL DEF Spec

\* this.q never names a query whose consume() loop has returned.
THEOREM CurrentQueryConsumed == Spec => []CurrentQueryIsConsumed
<1>1. CoreInv => CurrentQueryIsConsumed
  BY DEF CoreInv, Consumers, CurrentQueryIsConsumed
<1> QED
  BY <1>1, CoreInvariant, PTL

-----------------------------------------------------------------------------
(* The queue is never stranded, as long as a child ends its turns with a   *)
(* result and ensureStarted() does not throw.  The invariant is stronger   *)
(* than QueueHasDrainer: a message that entered ensureStarted() directly   *)
(* does not count as carrying the queue, since if it failed nobody would   *)
(* call processNextInQueue; and a query at a tool boundary may be this.q   *)
(* only while queueProcessing is FALSE, since it will otherwise leave the  *)
(* queue alone.                                                            *)

Reliable == ~SdkMayDie /\ ~StartMayFail

Carries(x) ==
    \/ InFlight(x) /\ via[x] = "queue"
    \/ consumer[x] = "running" /\ (turn[x] # None \/ stdin[x] # << >>)

Carried ==
    /\ generating => \E n \in Msgs : turn[n] # None /\ consumer[n] = "running"
    /\ queueProcessing => \E x \in Msgs : Carries(x)
    /\ q # None => ~(consumer[q] = "boundary" /\ queueProcessing)
    /\ messageQueue # << >> => \E x \in Msgs : Carries(x) \/ consumer[x] = "boundary"
    /\ \A x \in Msgs : consumer[x] = "boundary" => turn[x] # None

\* processNextInQueue leaves the queue empty, or carried by its old head.
LEMMA ProcessNextCarries ==
    ASSUME DataOK, Ledger, NEW p \in [Msgs -> Places], processNextInQueue(p)
    PROVE  \/ messageQueue' = << >> /\ ~queueProcessing'
           \/ \E x \in Msgs : Carries(x)'
<1>1. CASE messageQueue = << >>
  BY <1>1, ProcessNextFacts
<1>2. CASE messageQueue # << >>
  <2>1. /\ Head(messageQueue) \in Msgs
        /\ pc'[Head(messageQueue)] = "meta" /\ via'[Head(messageQueue)] = "queue"
    BY <1>2, ProcessNextFacts
  <2> QED
    BY <2>1 DEF Carries, InFlight
<1> QED
  BY <1>1, <1>2

LEMMA CarriedStep ==
    ASSUME Reliable
    PROVE  CoreInv /\ Carried /\ [Next]_vars => Carried'
<1> SUFFICES ASSUME CoreInv, Carried, [Next]_vars
             PROVE  Carried'
  OBVIOUS
<1>a. DataOK /\ Ledger /\ Consumers
  BY DEF CoreInv
\* Steps that leave the queries and the calls in flight alone.
<1>b. ASSUME UNCHANGED <<consumer, turn, stdin, pc, via>>,
             generating' => generating,
             queueProcessing' => queueProcessing,
             q' = None \/ q' = q,
             messageQueue' # << >> => messageQueue # << >>
      PROVE  Carried'
  BY <1>b DEF Carried, Carries, InFlight
<1>1. ASSUME NEW m \in Msgs, sendUserText(m) PROVE Carried'
  <2>1. /\ UNCHANGED <<consumer, turn, stdin, q, generating, queueProcessing>>
        /\ pc[m] = "new" /\ \A x \in Msgs : x # m => pc'[x] = pc[x] /\ via'[x] = via[x]
    <3>1. CASE isBusy
      BY <1>1, <1>a, <3>1 DEF sendUserText, queries, DataOK
    <3>2. CASE ~isBusy
      BY <1>1, <1>a, <3>2 DEF sendUserText, queries, DataOK
    <3> QED
      BY <3>1, <3>2
  <2>2. \A x \in Msgs : Carries(x) => Carries(x)'
    BY <2>1 DEF Carries, InFlight
  <2>3. messageQueue' # << >> => generating \/ messageQueue # << >> \/ queueProcessing
    BY <1>1 DEF sendUserText, isBusy
  <2>4. messageQueue' # << >> => \E x \in Msgs : Carries(x) \/ consumer[x] = "boundary"
    <3>1. generating => \E x \in Msgs : Carries(x)
      BY DEF Carried, Carries
    <3> QED
      BY <2>3, <3>1 DEF Carried
  <2> QED
    BY <2>1, <2>2, <2>4 DEF Carried
<1>2. ASSUME NEW m \in Msgs, PushToCurrent(m) PROVE Carried'
  <2>1. /\ UNCHANGED <<consumer, turn, q, generating, queueProcessing, messageQueue, via>>
        /\ q \in Msgs /\ stdin'[q] # << >> /\ consumer[q] \in {"running", "boundary"}
        /\ \A k \in Msgs : k # q => stdin'[k] = stdin[k]
        /\ \A x \in Msgs : x # m => pc'[x] = pc[x]
    <3>1. reader = q /\ q \in Msgs /\ consumer[q] \in {"running", "boundary"}
      BY <1>2, <1>a DEF PushToCurrent, Consumers, DataOK
    <3>2. stdin[q] \in Seq(Msgs)
      BY <3>1, <1>a DEF DataOK
    <3>3. Append(stdin[q], m) # << >>
      BY <3>2, AppendNonEmpty
    <3> QED
      BY <1>2, <1>a, <3>1, <3>3 DEF PushToCurrent, Push, fields, DataOK
  <2>2. \A x \in Msgs : Carries(x) => Carries(x)' \/ x = m
    BY <2>1 DEF Carries, InFlight
  <2>3. consumer[q] = "running" => Carries(q)'
    BY <2>1 DEF Carries
  <2>4. (\E x \in Msgs : Carries(x)) =>
           (\E x \in Msgs : Carries(x)') \/ consumer[q] = "boundary"
    BY <2>1, <2>2, <2>3
  <2>5. queueProcessing' => \E x \in Msgs : Carries(x)'
    BY <1>2, <2>1, <2>4 DEF Carried, PushToCurrent
  <2> QED
    BY <2>1, <2>4, <2>5 DEF Carried
<1>3. ASSUME NEW m \in Msgs, BeginStart(m) PROVE Carried'
  <2>1. /\ UNCHANGED <<consumer, turn, stdin, q, generating, queueProcessing, messageQueue, via>>
        /\ pc'[m] = "starting" /\ \A x \in Msgs : x # m => pc'[x] = pc[x]
    BY <1>3, <1>a DEF BeginStart, fields, queries, DataOK
  <2>2. \A x \in Msgs : Carries(x) => Carries(x)'
    BY <2>1 DEF Carries, InFlight
  <2> QED
    BY <2>1, <2>2 DEF Carried
<1>4. ASSUME NEW m \in Msgs, Started(m) PROVE Carried'
  <2>1. /\ UNCHANGED <<turn, generating, queueProcessing, messageQueue, via>>
        /\ q' = m /\ consumer[m] = "none" /\ consumer'[m] = "running" /\ stdin'[m] # << >>
        /\ \A x \in Msgs : x # m => /\ pc'[x] = pc[x] /\ stdin'[x] = stdin[x]
                                    /\ consumer'[x] = consumer[x]
    <3>1. stdin[m] \in Seq(Msgs)
      BY <1>a DEF DataOK
    <3>2. Append(stdin[m], m) # << >>
      BY <3>1, AppendNonEmpty
    <3> QED
      BY <1>4, <1>a, <3>2 DEF Started, Push, DataOK, Consumers
  <2>2. \A x \in Msgs : Carries(x) => Carries(x)'
    BY <2>1 DEF Carries, InFlight
  <2>3. \A x \in Msgs : consumer'[x] = "boundary" <=> consumer[x] = "boundary"
    BY <2>1
  <2> QED
    BY <2>1, <2>2, <2>3 DEF Carried
<1>5. ASSUME NEW m \in Msgs, StartFailed(m) PROVE Carried'
  BY <1>5 DEF StartFailed, Reliable
<1>6. ASSUME NEW n \in Msgs, TurnBegins(n) PROVE Carried'
  <2>1. Head(stdin[n]) \in Msgs /\ Head(stdin[n]) # None /\ pc[Head(stdin[n])] = "sent"
    <3>1. stdin[n] \in Seq(Msgs) /\ stdin[n] # << >>
      BY <1>6, <1>a DEF TurnBegins, DataOK
    <3>2. Head(stdin[n]) \in Msgs /\ Head(stdin[n]) = stdin[n][1] /\ 1 \in DOMAIN stdin[n]
      BY <3>1, TailFacts
    <3> QED
      BY <1>a, <3>2, ConstantsAssumption DEF Ledger
  <2>2. /\ UNCHANGED <<consumer, q, queueProcessing, messageQueue, via>>
        /\ consumer[n] = "running" /\ turn'[n] # None
        /\ \A k \in Msgs : k # n => turn'[k] = turn[k] /\ stdin'[k] = stdin[k]
        /\ \A x \in Msgs : x # Head(stdin[n]) => pc'[x] = pc[x]
    BY <1>6, <1>a, <2>1 DEF TurnBegins, DataOK
  <2>3. \A x \in Msgs : Carries(x) => Carries(x)'
    BY <2>1, <2>2 DEF Carries, InFlight
  <2> QED
    BY <2>2, <2>3 DEF Carried
<1>7. ASSUME NEW n \in Msgs, ResultReceived(n) PROVE Carried'
  <2> DEFINE p == [pc EXCEPT ![turn[n]] = "done"]
  <2>1. /\ consumer' = consumer /\ q' = None /\ ~generating' /\ consumer[n] = "running"
        /\ \A k \in Msgs : k # n => turn'[k] = turn[k]
        /\ processNextInQueue(p)
    BY <1>7, <1>a DEF ResultReceived, StopGenerating, DataOK
  <2>2. p \in [Msgs -> Places]
    BY <1>a DEF DataOK, Places
  <2> HIDE DEF p
  <2>3. \/ messageQueue' = << >> /\ ~queueProcessing'
        \/ \E x \in Msgs : Carries(x)'
    BY <1>a, <2>1, <2>2, ProcessNextCarries
  <2> QED
    BY <2>1, <2>3 DEF Carried
<1>8. ASSUME NEW n \in Msgs, ToolBoundary(n) PROVE Carried'
  <2>1. /\ ~generating' /\ ~queueProcessing' /\ q' = q /\ turn' = turn
        /\ turn[n] # None /\ consumer'[n] = "boundary"
        /\ \A k \in Msgs : k # n => consumer'[k] = consumer[k]
    BY <1>8, <1>a DEF ToolBoundary, StopGenerating, DataOK
  <2> QED
    BY <2>1 DEF Carried
<1>9. ASSUME NEW n \in Msgs, BoundaryInterrupted(n) PROVE Carried'
  <2>1. /\ q' = None /\ generating' = generating /\ consumer[n] = "boundary"
        /\ consumer'[n] = "ended"
        /\ \A k \in Msgs : k # n => /\ turn'[k] = turn[k] /\ stdin'[k] = stdin[k]
                                    /\ consumer'[k] = consumer[k]
    BY <1>9, <1>a DEF BoundaryInterrupted, DataOK
  <2>2. EndQuery(pc, n) \in [Msgs -> Places]
    BY <1>a, EndQueryType
  <2>3. CASE ~queueProcessing
    <3>1. \/ messageQueue' = << >> /\ ~queueProcessing'
          \/ \E x \in Msgs : Carries(x)'
      BY <1>9, <1>a, <2>2, <2>3, ProcessNextCarries DEF BoundaryInterrupted
    <3> QED
      BY <2>1, <3>1 DEF Carried
  <2>4. CASE queueProcessing
    <3>1. pc' = EndQuery(pc, n) /\ UNCHANGED <<messageQueue, queueProcessing, via>>
      BY <1>9, <2>4 DEF BoundaryInterrupted
    <3>2. \A x \in Msgs : InFlight(x) => pc'[x] = pc[x]
      BY <1>a, <3>1, EndQueryFacts DEF InFlight
    <3>3. \A x \in Msgs : Carries(x) => Carries(x)'
      BY <2>1, <3>1, <3>2 DEF Carries, InFlight
    <3>4. \E x \in Msgs : Carries(x)'
      BY <2>4, <3>3 DEF Carried
    <3> QED
      BY <2>1, <3>1, <3>4 DEF Carried
  <2> QED
    BY <2>3, <2>4
<1>10. ASSUME NEW n \in Msgs, GeneratorEnds(n) PROVE Carried'
  <2>1. /\ consumer[n] = "running" /\ turn[n] = None /\ stdin[n] = << >>
        /\ messageQueue' = messageQueue /\ via' = via
        /\ consumer'[n] = "ended"
        /\ \A k \in Msgs : k # n => /\ turn'[k] = turn[k] /\ stdin'[k] = stdin[k]
                                    /\ consumer'[k] = consumer[k]
    BY <1>10, <1>a DEF GeneratorEnds, FinallyCleanup, Reliable, DataOK, fields
  <2>a. \/ /\ q' = q /\ q # n
           /\ generating' = generating /\ queueProcessing' = queueProcessing
        \/ q' = None /\ ~generating' /\ ~queueProcessing'
    BY <1>10 DEF GeneratorEnds, FinallyCleanup, fields
  <2>2. \A x \in Msgs : InFlight(x) => pc'[x] = pc[x]
    BY <1>10, <1>a, EndQueryFacts DEF InFlight, GeneratorEnds
  <2>3. \A x \in Msgs : Carries(x) => Carries(x)'
    BY <2>1, <2>2 DEF Carries, InFlight
  <2> QED
    <3>1. \A x \in Msgs : consumer[x] = "boundary" <=> consumer'[x] = "boundary"
      BY <2>1
    <3>2. messageQueue' # << >> => \E x \in Msgs : Carries(x)' \/ consumer'[x] = "boundary"
      BY <2>1, <2>3, <3>1 DEF Carried
    <3>3. queueProcessing' => \E x \in Msgs : Carries(x)'
      BY <2>a, <2>3 DEF Carried
    <3>4. generating' => \E k \in Msgs : turn'[k] # None /\ consumer'[k] = "running"
      BY <2>1, <2>a DEF Carried
    <3>5. q' # None => ~(consumer'[q'] = "boundary" /\ queueProcessing')
      <4>1. SUFFICES ASSUME q' # None, q' = q PROVE ~(consumer'[q] = "boundary" /\ queueProcessing')
        BY <2>a
      <4>2. q \in Msgs /\ queueProcessing' = queueProcessing
        BY <1>a, <2>a, <4>1 DEF DataOK
      <4> QED
        BY <3>1, <4>1, <4>2 DEF Carried
    <3>6. \A x \in Msgs : consumer'[x] = "boundary" => turn'[x] # None
      BY <2>1 DEF Carried
    <3> QED
      BY <3>2, <3>3, <3>4, <3>5, <3>6 DEF Carried
<1>11. ASSUME interrupt \/ restartOnNextMessage PROVE Carried'
  BY <1>b, <1>11 DEF interrupt, restartOnNextMessage, calls, queries
<1>12. ASSUME NEW kind, BeginTeardown(kind) PROVE Carried'
  BY <1>b, <1>12 DEF BeginTeardown, fields, queries
<1>13. ASSUME EndTeardown \/ EndDestroy PROVE Carried'
  BY <1>b, <1>13 DEF EndTeardown, EndDestroy, queries
<1>14. ASSUME UNCHANGED <<consumer, turn, stdin, via, q>>,
              generating' => generating,
              queueProcessing' => queueProcessing,
              messageQueue' # << >> => messageQueue # << >>,
              \A x \in Msgs : pc[x] = "queued" \/ pc'[x] = pc[x]
       PROVE  Carried'
  <2>1. \A x \in Msgs : Carries(x) => Carries(x)'
    BY <1>14 DEF Carries, InFlight
  <2> QED
    BY <1>14, <2>1 DEF Carried
<1>15. ASSUME NEW r \in 1 .. Len(messageQueue), removeQueueItem(r) PROVE Carried'
  <2>1. messageQueue # << >>
    BY <1>15, <1>a DEF DataOK
  <2>2. \A x \in Msgs : pc[x] = "queued" \/ pc'[x] = pc[x]
    BY <1>15, <1>a, LedgerFacts DEF removeQueueItem, DataOK
  <2> QED
    BY <1>14, <1>15, <2>1, <2>2 DEF removeQueueItem, queries
<1>16. ASSUME clearQueue \/ destroy PROVE Carried'
  <2>1. \A x \in Msgs : pc[x] = "queued" \/ pc'[x] = pc[x]
    BY <1>16, <1>a, LedgerFacts DEF clearQueue, destroy, DropQueue
  <2>2. messageQueue' = << >> /\ ~queueProcessing' /\ UNCHANGED <<consumer, turn, stdin, via, q>>
    BY <1>16 DEF clearQueue, destroy, queries
  <2>3. generating' => generating
    BY <1>16 DEF clearQueue, destroy
  <2> QED
    BY <1>14, <2>1, <2>2, <2>3
<1>17. ASSUME IdleTimeout PROVE Carried'
  BY <1>b, <1>16, <1>17 DEF IdleTimeout, calls, queries
<1>18. ASSUME NEW s \in Sockets, BeginAttach(s) \/ Subscribe(s) \/ EndAttach(s) \/ detach(s)
       PROVE  Carried'
  BY <1>b, <1>18 DEF BeginAttach, Subscribe, EndAttach, detach, fields, queries
<1>19. ASSUME UNCHANGED vars PROVE Carried'
  BY <1>b, <1>19 DEF vars, fields, calls, queries
<1> QED
  BY <1>1, <1>2, <1>3, <1>4, <1>5, <1>6, <1>7, <1>8, <1>9, <1>10, <1>11, <1>12,
     <1>13, <1>15, <1>16, <1>17, <1>18, <1>19
     DEF Next, Server, Claude, Users, destroySession

\* With children that end every turn with a result and starts that succeed, the
\* message queue is never left without somebody who will drain it, for any number
\* of messages and any overlap of sends, interrupts, restarts and teardowns.
THEOREM QueueNeverStranded ==
    ASSUME Reliable
    PROVE  Spec => []QueueHasDrainer
<1>1. Init => Carried
  BY DEF Init, Carried
<1>2. CoreInv /\ Carried /\ [Next]_vars => Carried'
  BY CarriedStep
<1>3. Carried => QueueHasDrainer
  BY DEF Carried, Carries, QueueHasDrainer, Drainer
<1> QED
  BY <1>1, <1>2, <1>3, CoreInvariant, PTL DEF Spec

\* Under the same assumptions the session says "generating" only during a turn.
THEOREM GeneratingIsTruthful ==
    ASSUME Reliable
    PROVE  Spec => []GeneratingMeansTurn
<1>1. Init => Carried
  BY DEF Init, Carried
<1>2. CoreInv /\ Carried /\ [Next]_vars => Carried'
  BY CarriedStep
<1>3. Carried => GeneratingMeansTurn
  BY DEF Carried, GeneratingMeansTurn
<1> QED
  BY <1>1, <1>2, <1>3, CoreInvariant, PTL DEF Spec
-----------------------------------------------------------------------------
(***************************************************************************)
(* LoopSession implements Mailbox, and the invariants about the whereabouts*)
(* of messages that rest on it, for any set of messages and of websockets, *)
(* with children dying and starts failing at any point.                    *)
(***************************************************************************)
\* The steps of the mailbox by which no new message comes in.
Inside ==
    \/ \E m \in Msgs : Box!Begin(m)
    \/ \E S \in SUBSET Msgs : Box!Settle(S) \/ Box!SettleAndCall(S)
    \/ \E i \in DOMAIN messageQueue : Box!Withdraw(i)
    \/ Box!WithdrawAll
    \/ UNCHANGED <<stages, messageQueue>>

LEMMA StageValues ==
    /\ Stage("new") = "unsent" /\ Stage("queued") = "waiting"
    /\ Stage("meta") = "taken" /\ Stage("starting") = "taken" /\ Stage("sent") = "taken"
    /\ Stage("turn") = "running" /\ Stage("dropped") = "withdrawn"
    /\ Stage("done") = "settled" /\ Stage("cut") = "settled"
    /\ Stage("lost") = "settled" /\ Stage("failed") = "settled"
BY DEF Stage

\* A step that leaves every message in its stage, and the queue alone.
LEMMA StutterStep ==
    ASSUME messageQueue' = messageQueue,
           \A x \in Msgs : Stage(pc'[x]) = Stage(pc[x])
    PROVE  Inside
<1>1. stages' = stages
  BY DEF stages
<1> QED
  BY <1>1 DEF Inside

\* Messages S come to their end, the others stay in their stage.
LEMMA SettleStep ==
    ASSUME NEW S \in SUBSET Msgs,
           messageQueue' = messageQueue,
           \A x \in S : Stage(pc[x]) \in {"taken", "running"} /\ Stage(pc'[x]) = "settled",
           \A x \in Msgs \ S : Stage(pc'[x]) = Stage(pc[x])
    PROVE  Inside
<1>1. \A x \in S : stages[x] \in {"taken", "running"}
  BY DEF stages
<1>2. stages' = Box!Settled(S)
  <2>1. \A x \in Msgs : Stage(pc'[x]) = IF x \in S THEN "settled" ELSE stages[x]
    BY DEF stages
  <2> QED
    BY <2>1 DEF stages, Box!Settled
<1>3. Box!Settle(S)
  BY <1>1, <1>2 DEF Box!Settle
<1> QED
  BY <1>3 DEF Inside

\* ... and the line moves.
LEMMA CallStep ==
    ASSUME NEW S \in SUBSET Msgs,
           messageQueue # << >>, messageQueue' = Tail(messageQueue),
           Head(messageQueue) \in Msgs, pc'[Head(messageQueue)] = "meta",
           \A x \in S : Stage(pc[x]) \in {"taken", "running"},
           \A x \in S : x # Head(messageQueue) => Stage(pc'[x]) = "settled",
           \A x \in Msgs \ S : x # Head(messageQueue) => Stage(pc'[x]) = Stage(pc[x])
    PROVE  Inside
<1> DEFINE h == Head(messageQueue)
<1>1. \A x \in S : stages[x] \in {"taken", "running"}
  BY DEF stages
<1>2. \A x \in Msgs : Stage(pc'[x]) = IF x = h THEN "taken" ELSE IF x \in S THEN "settled" ELSE stages[x]
  BY StageValues DEF stages
<1>3. stages' = [Box!Settled(S) EXCEPT ![h] = "taken"]
  BY <1>2 DEF stages, Box!Settled
<1>4. Box!SettleAndCall(S)
  BY <1>1, <1>3 DEF Box!SettleAndCall
<1> QED
  BY <1>4 DEF Inside

\* A handler that ends messages S and calls processNextInQueue.
LEMMA ProcessNextStep ==
    ASSUME DataOK, Ledger, NEW p \in [Msgs -> Places], processNextInQueue(p),
           NEW S \in SUBSET Msgs,
           \A x \in S : Stage(pc[x]) \in {"taken", "running"} /\ Stage(p[x]) = "settled",
           \A x \in Msgs \ S : Stage(p[x]) = Stage(pc[x])
    PROVE  Inside
<1>1. CASE messageQueue = << >>
  <2>1. messageQueue' = messageQueue /\ pc' = p
    BY <1>1, ProcessNextFacts
  <2> QED
    BY <2>1, SettleStep
<1>2. CASE messageQueue # << >>
  <2>1. /\ messageQueue' = Tail(messageQueue)
        /\ Head(messageQueue) \in Msgs /\ pc'[Head(messageQueue)] = "meta"
        /\ \A x \in Msgs : x # Head(messageQueue) => pc'[x] = p[x]
    BY <1>2, ProcessNextFacts
  <2> QED
    BY <1>2, <2>1, CallStep
<1> QED
  BY <1>1, <1>2

\* What a query that ends leaves of the messages it held.
LEMMA EndQueryStages ==
    ASSUME DataOK, Ledger, NEW n \in Msgs
    PROVE  \E S \in SUBSET Msgs :
               /\ \A x \in S : /\ Stage(pc[x]) \in {"taken", "running"}
                               /\ Stage(EndQuery(pc, n)[x]) = "settled"
               /\ \A x \in Msgs \ S : EndQuery(pc, n)[x] = pc[x]
<1> DEFINE S == {x \in Msgs : turn[n] = x \/ \E i \in DOMAIN stdin[n] : stdin[n][i] = x}
<1>1. ASSUME NEW x \in S
      PROVE  Stage(pc[x]) \in {"taken", "running"} /\ Stage(EndQuery(pc, n)[x]) = "settled"
  <2>1. pc[x] \in {"sent", "turn"}
    BY LedgerFacts, ConstantsAssumption
  <2>2. EndQuery(pc, n)[x] \in {"cut", "lost"}
    BY DEF EndQuery
  <2> QED
    BY <2>1, <2>2 DEF Stage
<1>2. ASSUME NEW x \in Msgs \ S PROVE EndQuery(pc, n)[x] = pc[x]
  BY DEF EndQuery
<1>3. S \in SUBSET Msgs
  OBVIOUS
<1> QED
  BY <1>1, <1>2, <1>3

\* A message that is sent joins the line, or passes an empty one.
LEMMA SendStep ==
    ASSUME DataOK, NEW m \in Msgs, sendUserText(m)
    PROVE  (isBusy /\ Box!Join(m)) \/ (~isBusy /\ Box!Pass(m))
<1>1. /\ stages[m] = "unsent" /\ \A x \in Msgs : x # m => pc'[x] = pc[x]
      /\ pc'[m] = IF isBusy THEN "queued" ELSE "meta"
  BY StageValues DEF sendUserText, stages, DataOK
<1>2. ASSUME NEW s, s = Stage(pc'[m]) PROVE Box!Move(m, s)
  BY <1>1, <1>2 DEF Box!Move, stages
<1>3. CASE isBusy
  BY <1>1, <1>2, <1>3, StageValues DEF sendUserText, Box!Join
<1>4. CASE ~isBusy
  BY <1>1, <1>2, <1>4, StageValues DEF sendUserText, isBusy, Box!Pass
<1> QED
  BY <1>3, <1>4

\* Every other step of the session is a step of the mailbox by which nothing comes
\* in, or leaves it alone.
LEMMA OtherStep ==
    ASSUME CoreInv, [Next]_vars, \A m \in Msgs : ~sendUserText(m)
    PROVE  Inside /\ UNCHANGED history
<1>a. DataOK /\ Ledger /\ Consumers
  BY DEF CoreInv
<1>b. ASSUME UNCHANGED <<messageQueue, pc>> PROVE Inside
  BY <1>b, StutterStep
<1>2. ASSUME NEW m \in Msgs, PushToCurrent(m) \/ BeginStart(m) \/ Started(m) PROVE Inside
  <2>1. /\ pc[m] \in {"meta", "starting"} /\ pc'[m] \in {"starting", "sent"}
        /\ \A x \in Msgs : x # m => pc'[x] = pc[x]
        /\ messageQueue' = messageQueue
    BY <1>2, <1>a DEF PushToCurrent, BeginStart, Started, Push, fields, DataOK
  <2> QED
    BY <2>1, StutterStep DEF Stage
<1>3. ASSUME NEW m \in Msgs, StartFailed(m) PROVE Inside
  <2> DEFINE p == [pc EXCEPT ![m] = "failed"]
  <2>1. /\ pc[m] = "starting" /\ p[m] = "failed" /\ p \in [Msgs -> Places]
        /\ \A x \in Msgs : x # m => p[x] = pc[x]
    BY <1>3, <1>a DEF StartFailed, DataOK, Places
  <2>2. (pc' = p /\ messageQueue' = messageQueue) \/ processNextInQueue(p)
    BY <1>3 DEF StartFailed
  <2> HIDE DEF p
  <2>3. /\ \A x \in {m} : Stage(pc[x]) \in {"taken", "running"} /\ Stage(p[x]) = "settled"
        /\ \A x \in Msgs \ {m} : Stage(p[x]) = Stage(pc[x])
    BY <2>1 DEF Stage
  <2>4. CASE pc' = p /\ messageQueue' = messageQueue
    BY <2>3, <2>4, SettleStep
  <2>5. CASE processNextInQueue(p)
    BY <1>a, <2>1, <2>3, <2>5, ProcessNextStep
  <2> QED
    BY <2>2, <2>4, <2>5
<1>4. ASSUME NEW n \in Msgs, TurnBegins(n) PROVE Inside
  <2> DEFINE h == Head(stdin[n])
  <2>1. h \in Msgs /\ pc[h] = "sent"
    <3>1. stdin[n] \in Seq(Msgs) /\ stdin[n] # << >>
      BY <1>4, <1>a DEF TurnBegins, DataOK
    <3>2. h \in Msgs /\ h = stdin[n][1] /\ 1 \in DOMAIN stdin[n]
      BY <3>1, TailFacts
    <3> QED
      BY <1>a, <3>2, LedgerFacts
  <2>2. /\ pc'[h] = "turn" /\ \A x \in Msgs : x # h => pc'[x] = pc[x]
        /\ messageQueue' = messageQueue
    BY <1>4, <1>a, <2>1 DEF TurnBegins, DataOK
  <2> HIDE DEF h
  <2>3. stages[h] = "taken" /\ Box!Move(h, "running")
    <3>1. \A x \in Msgs : Stage(pc'[x]) = IF x = h THEN "running" ELSE stages[x]
      BY <2>1, <2>2, StageValues DEF stages
    <3>2. stages[h] = "taken"
      BY <2>1 DEF stages, Stage
    <3> QED
      BY <3>1, <3>2 DEF stages, Box!Move
  <2>4. Box!Begin(h)
    BY <2>2, <2>3 DEF Box!Begin
  <2> QED
    BY <2>1, <2>4 DEF Inside
<1>5. ASSUME NEW n \in Msgs, ResultReceived(n) PROVE Inside
  <2> DEFINE p == [pc EXCEPT ![turn[n]] = "done"]
  <2>1. turn[n] \in Msgs /\ pc[turn[n]] = "turn"
    BY <1>5, <1>a, LedgerFacts DEF ResultReceived
  <2>2. /\ p[turn[n]] = "done" /\ p \in [Msgs -> Places] /\ processNextInQueue(p)
        /\ \A x \in Msgs : x # turn[n] => p[x] = pc[x]
    BY <1>5, <1>a, <2>1 DEF ResultReceived, DataOK, Places
  <2> HIDE DEF p
  <2>3. /\ \A x \in {turn[n]} : Stage(pc[x]) \in {"taken", "running"} /\ Stage(p[x]) = "settled"
        /\ \A x \in Msgs \ {turn[n]} : Stage(p[x]) = Stage(pc[x])
    BY <2>1, <2>2 DEF Stage
  <2> QED
    BY <1>a, <2>1, <2>2, <2>3, ProcessNextStep
<1>6. ASSUME NEW n \in Msgs, ToolBoundary(n) PROVE Inside
  BY <1>b, <1>6 DEF ToolBoundary, calls
<1>7. ASSUME NEW n \in Msgs, BoundaryInterrupted(n) \/ GeneratorEnds(n) PROVE Inside
  <2> DEFINE p == EndQuery(pc, n)
  <2>1. PICK S \in SUBSET Msgs :
            /\ \A x \in S : Stage(pc[x]) \in {"taken", "running"} /\ Stage(p[x]) = "settled"
            /\ \A x \in Msgs \ S : p[x] = pc[x]
    BY <1>a, EndQueryStages
  <2>2. p \in [Msgs -> Places]
    BY <1>a, EndQueryType
  <2>3. (pc' = p /\ messageQueue' = messageQueue) \/ processNextInQueue(p)
    BY <1>7 DEF BoundaryInterrupted, GeneratorEnds, FinallyCleanup, fields
  <2> HIDE DEF p
  <2>4. CASE pc' = p /\ messageQueue' = messageQueue
    BY <2>1, <2>4, SettleStep
  <2>5. CASE processNextInQueue(p)
    BY <1>a, <2>1, <2>2, <2>5, ProcessNextStep
  <2> QED
    BY <2>3, <2>4, <2>5
<1>8. ASSUME interrupt \/ restartOnNextMessage \/ EndTeardown \/ EndDestroy PROVE Inside
  BY <1>b, <1>8 DEF interrupt, restartOnNextMessage, EndTeardown, EndDestroy, calls
<1>9. ASSUME NEW kind, BeginTeardown(kind) PROVE Inside
  BY <1>b, <1>9 DEF BeginTeardown, fields
<1>10. ASSUME NEW r \in 1 .. Len(messageQueue), removeQueueItem(r) PROVE Inside
  <2>1. /\ r \in DOMAIN messageQueue /\ messageQueue[r] \in Msgs
        /\ messageQueue' = RemoveAt(messageQueue, r)
        /\ pc' = [pc EXCEPT ![messageQueue[r]] = "dropped"]
    BY <1>10, <1>a DEF removeQueueItem, DataOK
  <2>2. \A x \in Msgs : Stage(pc'[x]) = IF x = messageQueue[r] THEN "withdrawn" ELSE stages[x]
    <3>1. pc'[messageQueue[r]] = "dropped" /\ \A x \in Msgs : x # messageQueue[r] => pc'[x] = pc[x]
      BY <1>a, <2>1 DEF DataOK
    <3> QED
      BY <3>1, StageValues DEF stages
  <2>3. Box!Withdraw(r)
    <3>1. stages' = [stages EXCEPT ![messageQueue[r]] = "withdrawn"]
      BY <2>2 DEF stages
    <3> QED
      BY <2>1, <3>1 DEF Box!Move, Box!Withdraw, RemoveAt, Box!RemoveAt
  <2> QED
    BY <2>1, <2>3 DEF Inside
<1>11. ASSUME clearQueue \/ destroy PROVE Inside
  <2>1. messageQueue' = << >> /\ pc' = DropQueue
    BY <1>11 DEF clearQueue, destroy
  <2>2. \A x \in Msgs : Stage(pc'[x]) = IF \E i \in DOMAIN messageQueue : messageQueue[i] = x
                                        THEN "withdrawn" ELSE stages[x]
    BY <2>1, StageValues DEF stages, DropQueue
  <2>3. Box!WithdrawAll
    BY <2>1, <2>2 DEF stages, Box!WithdrawAll
  <2> QED
    BY <2>3 DEF Inside
<1>12. ASSUME IdleTimeout PROVE Inside
  BY <1>b, <1>11, <1>12 DEF IdleTimeout, calls
<1>13. ASSUME NEW s \in Sockets, BeginAttach(s) \/ Subscribe(s) \/ EndAttach(s) \/ detach(s)
       PROVE  Inside
  BY <1>b, <1>13 DEF BeginAttach, Subscribe, EndAttach, detach, fields
<1>14. ASSUME UNCHANGED vars PROVE Inside
  BY <1>b, <1>14 DEF vars, fields, calls
<1>15. Inside
  BY <1>2, <1>3, <1>4, <1>5, <1>6, <1>7, <1>8, <1>9, <1>10, <1>11, <1>12,
     <1>13, <1>14
     DEF Next, Server, Claude, Users, destroySession
<1>16. UNCHANGED history
  <2>1. ASSUME NEW m \in Msgs, PushToCurrent(m) \/ BeginStart(m) \/ Started(m) \/ StartFailed(m)
        PROVE  UNCHANGED history
    BY <2>1 DEF PushToCurrent, BeginStart, Started, StartFailed
  <2>2. ASSUME NEW n \in Msgs,
               \/ TurnBegins(n) \/ ResultReceived(n) \/ ToolBoundary(n)
               \/ BoundaryInterrupted(n) \/ GeneratorEnds(n)
        PROVE  UNCHANGED history
    BY <2>2 DEF TurnBegins, ResultReceived, ToolBoundary, BoundaryInterrupted, GeneratorEnds
  <2>3. ASSUME \/ interrupt \/ restartOnNextMessage \/ EndTeardown \/ EndDestroy
               \/ clearQueue \/ destroy \/ IdleTimeout
        PROVE  UNCHANGED history
    BY <2>3 DEF interrupt, restartOnNextMessage, EndTeardown, EndDestroy, clearQueue,
                destroy, IdleTimeout
  <2>4. ASSUME NEW i, BeginTeardown(i) \/ removeQueueItem(i)
        PROVE  UNCHANGED history
    BY <2>4 DEF BeginTeardown, removeQueueItem
  <2>5. ASSUME NEW s \in Sockets, BeginAttach(s) \/ Subscribe(s) \/ EndAttach(s) \/ detach(s)
        PROVE  UNCHANGED history
    BY <2>5 DEF BeginAttach, Subscribe, EndAttach, detach
  <2>6. ASSUME UNCHANGED vars PROVE UNCHANGED history
    BY <2>6 DEF vars
  <2> QED
    BY <2>1, <2>2, <2>3, <2>4, <2>5, <2>6 DEF Next, Server, Claude, Users, destroySession
<1> QED
  BY <1>15, <1>16

LEMMA MailboxStep == CoreInv /\ [Next]_vars => [Box!Next]_(Box!vars)
<1>1. ASSUME CoreInv, NEW m \in Msgs, sendUserText(m) PROVE Box!Next
  BY <1>1, SendStep DEF CoreInv, Box!Next
<1>2. Inside => [Box!Next]_(Box!vars)
  BY DEF Inside, Box!Next, Box!vars
<1> QED
  BY <1>1, <1>2, OtherStep

\* The session implements the mailbox, with every fault allowed.
THEOREM SessionImplementsMailbox == Spec => ImplementsMailbox
<1>1. Init => Box!Init
  BY DEF Init, Box!Init, stages, Stage
<1>2. CoreInv /\ [Next]_vars => [Box!Next]_(Box!vars)
  BY MailboxStep
<1> QED
  BY <1>1, <1>2, CoreInvariant, PTL DEF Spec, ImplementsMailbox, Box!Spec
-----------------------------------------------------------------------------
(* NoOvertaking, from the mailbox: the line is in the order of sending.    *)

Waiting(x) == stages[x] = "waiting"

Line ==
    /\ \A x \in Msgs : Waiting(x) => \E i \in DOMAIN messageQueue : messageQueue[i] = x
    /\ \A i, j \in DOMAIN messageQueue : i < j => rank[messageQueue[i]] < rank[messageQueue[j]]
    /\ \A x \in Msgs : rank[x] <= sends
    /\ \A x \in Msgs : stages[x] = "unsent" => rank[x] = 0
    /\ \A x, y \in Msgs : Waiting(x) /\ rank[x] < rank[y] => stages[y] \in {"waiting", "withdrawn"}

\* Whatever leaves the line, if it leaves from the head or was withdrawn, those who
\* stay keep their order.
LEMMA LeaveLine ==
    ASSUME DataOK, Line, UNCHANGED history,
           \A x \in Msgs : Waiting(x)' => Waiting(x),
           \A x \in Msgs : stages'[x] = "unsent" => stages[x] = "unsent",
           \A x, y \in Msgs : /\ stages[y] \in {"waiting", "withdrawn"}
                              /\ Waiting(x)' /\ rank[x] < rank[y]
                              => stages'[y] \in {"waiting", "withdrawn"},
           \A x \in Msgs : Waiting(x)' => \E i \in DOMAIN messageQueue' : messageQueue'[i] = x,
           \A i, j \in DOMAIN messageQueue' :
               i < j => rank[messageQueue'[i]] < rank[messageQueue'[j]]
    PROVE  Line'
<1>1. rank' = rank /\ sends' = sends
  BY DEF history
<1>2. \A x, y \in Msgs : Waiting(x)' /\ rank[x] < rank[y] => stages'[y] \in {"waiting", "withdrawn"}
  BY DEF Line
<1>3. \A x \in Msgs : stages'[x] = "unsent" => rank[x] = 0
  BY DEF Line
<1>4. \A x \in Msgs : rank[x] <= sends
  BY DEF Line
<1> QED
  BY <1>1, <1>2, <1>3, <1>4 DEF Line

LEMMA LineInside ==
    ASSUME DataOK, Ledger, Line, Inside, UNCHANGED history
    PROVE  Line'
<1>a. /\ messageQueue \in Seq(Msgs) /\ DOMAIN messageQueue = 1 .. Len(messageQueue)
      /\ Len(messageQueue) \in Nat /\ rank \in [Msgs -> Nat]
  BY DEF DataOK
<1>b. /\ \A i \in DOMAIN messageQueue : messageQueue[i] \in Msgs /\ Waiting(messageQueue[i])
      /\ \A i, j \in DOMAIN messageQueue : messageQueue[i] = messageQueue[j] => i = j
  BY LedgerFacts, StageValues DEF Waiting, stages, Ledger
\* The line does not move.
<1>c. ASSUME messageQueue' = messageQueue,
             \A x \in Msgs : \/ stages'[x] = stages[x]
                             \/ /\ stages[x] \in {"taken", "running"}
                                /\ stages'[x] \in {"running", "settled"}
      PROVE  Line'
  <2>1. \A x \in Msgs : Waiting(x)' <=> Waiting(x)
    BY <1>c DEF Waiting
  <2>2. \A x \in Msgs : Waiting(x)' => \E i \in DOMAIN messageQueue' : messageQueue'[i] = x
    BY <1>c, <2>1 DEF Line
  <2>3. \A i, j \in DOMAIN messageQueue' : i < j => rank[messageQueue'[i]] < rank[messageQueue'[j]]
    BY <1>c DEF Line
  <2>4. \A y \in Msgs : stages[y] \in {"waiting", "withdrawn"} => stages'[y] = stages[y]
    BY <1>c
  <2>5. \A x \in Msgs : stages'[x] = "unsent" => stages[x] = "unsent"
    BY <1>c
  <2> QED
    BY <2>1, <2>2, <2>3, <2>4, <2>5, LeaveLine
<1>1. ASSUME NEW m \in Msgs, Box!Begin(m) PROVE Line'
  <2>1. \A x \in Msgs : stages'[x] = IF x = m THEN "running" ELSE stages[x]
    BY <1>1 DEF Box!Begin, Box!Move, stages
  <2>2. stages[m] = "taken" /\ messageQueue' = messageQueue
    BY <1>1 DEF Box!Begin
  <2> QED
    BY <1>c, <2>1, <2>2
<1>2. ASSUME NEW S \in SUBSET Msgs, Box!Settle(S) PROVE Line'
  <2>1. \A x \in Msgs : stages'[x] = IF x \in S THEN "settled" ELSE stages[x]
    BY <1>2 DEF Box!Settle, Box!Settled
  <2>2. /\ \A x \in S : stages[x] \in {"taken", "running"}
        /\ messageQueue' = messageQueue
    BY <1>2 DEF Box!Settle
  <2> QED
    BY <1>c, <2>1, <2>2
<1>3. ASSUME NEW S \in SUBSET Msgs, Box!SettleAndCall(S) PROVE Line'
  <2> DEFINE h == Head(messageQueue)
  <2>1. /\ DOMAIN messageQueue' = 1 .. Len(messageQueue) - 1
        /\ \A i \in 1 .. Len(messageQueue) - 1 : messageQueue'[i] = messageQueue[i + 1]
        /\ h = messageQueue[1] /\ h \in Msgs /\ Len(messageQueue) > 0
    BY <1>3, <1>a, TailFacts DEF Box!SettleAndCall
  <2> HIDE DEF h
  <2>2. /\ \A x \in Msgs : stages'[x] = IF x = h THEN "taken"
                                        ELSE IF x \in S THEN "settled" ELSE stages[x]
        /\ \A x \in S : stages[x] \in {"taken", "running"}
    BY <1>3, <2>1 DEF Box!SettleAndCall, Box!Settled, h
  <2>3. \A x \in Msgs : Waiting(x)' => Waiting(x) /\ x # h
    BY <2>2 DEF Waiting
  <2>4. ASSUME NEW x \in Msgs, Waiting(x)'
        PROVE  /\ \E i \in DOMAIN messageQueue' : messageQueue'[i] = x
               /\ rank[h] < rank[x]
    <3>1. PICK k \in DOMAIN messageQueue : messageQueue[k] = x
      BY <2>3, <2>4 DEF Line
    <3>2. k # 1 /\ k \in Nat /\ k > 1
      BY <1>a, <2>1, <2>3, <2>4, <3>1
    <3>3. k - 1 \in DOMAIN messageQueue' /\ messageQueue'[k - 1] = x
      BY <1>a, <2>1, <3>1, <3>2
    <3>4. rank[messageQueue[1]] < rank[messageQueue[k]]
      BY <1>a, <2>1, <3>1, <3>2 DEF Line
    <3> QED
      BY <2>1, <3>1, <3>3, <3>4
  <2>5. ASSUME NEW i \in DOMAIN messageQueue', NEW j \in DOMAIN messageQueue', i < j
        PROVE  rank[messageQueue'[i]] < rank[messageQueue'[j]]
    <3>1. /\ i + 1 \in DOMAIN messageQueue /\ j + 1 \in DOMAIN messageQueue /\ i + 1 < j + 1
          /\ messageQueue'[i] = messageQueue[i + 1] /\ messageQueue'[j] = messageQueue[j + 1]
      BY <1>a, <2>1, <2>5
    <3> QED
      BY <3>1 DEF Line
  <2>6. ASSUME NEW x \in Msgs, NEW y \in Msgs, stages[y] \in {"waiting", "withdrawn"},
               Waiting(x)', rank[x] < rank[y]
        PROVE  stages'[y] \in {"waiting", "withdrawn"}
    <3>1. y # h
      BY <1>a, <2>1, <2>4, <2>6
    <3> QED
      BY <2>2, <2>6, <3>1
  <2>7. \A x \in Msgs : stages'[x] = "unsent" => stages[x] = "unsent"
    BY <2>2
  <2> QED
    BY <2>3, <2>4, <2>5, <2>6, <2>7, LeaveLine
<1>4. ASSUME NEW r \in DOMAIN messageQueue, Box!Withdraw(r) PROVE Line'
  <2>1. /\ DOMAIN messageQueue' = 1 .. Len(messageQueue) - 1
        /\ \A i \in 1 .. Len(messageQueue) - 1 :
              messageQueue'[i] = IF i < r THEN messageQueue[i] ELSE messageQueue[i + 1]
    BY <1>4, <1>a, RemoveAtFacts DEF Box!Withdraw, Box!RemoveAt, RemoveAt
  <2>2. \A x \in Msgs : stages'[x] = IF x = messageQueue[r] THEN "withdrawn" ELSE stages[x]
    BY <1>4, <1>b DEF Box!Withdraw, Box!Move, stages
  <2>3. \A x \in Msgs : Waiting(x)' => Waiting(x) /\ x # messageQueue[r]
    BY <2>2 DEF Waiting
  <2>4. ASSUME NEW x \in Msgs, Waiting(x)'
        PROVE  \E i \in DOMAIN messageQueue' : messageQueue'[i] = x
    <3>1. PICK k \in DOMAIN messageQueue : messageQueue[k] = x
      BY <2>3, <2>4 DEF Line
    <3>2. k # r
      BY <2>3, <2>4, <3>1
    <3>3. CASE k < r
      <4>1. k \in DOMAIN messageQueue'
        BY <1>a, <2>1, <3>3
      <4> QED
        BY <2>1, <3>1, <3>3, <4>1
    <3>4. CASE k > r
      <4>1. k - 1 \in DOMAIN messageQueue' /\ ~(k - 1 < r) /\ (k - 1) + 1 = k
        BY <1>a, <2>1, <3>4
      <4> QED
        BY <2>1, <3>1, <4>1
    <3> QED
      BY <1>a, <3>2, <3>3, <3>4
  <2>5. ASSUME NEW i \in DOMAIN messageQueue', NEW j \in DOMAIN messageQueue', i < j
        PROVE  rank[messageQueue'[i]] < rank[messageQueue'[j]]
    <3> DEFINE back(k) == IF k < r THEN k ELSE k + 1
    <3>2. ASSUME NEW k \in DOMAIN messageQueue'
          PROVE  back(k) \in DOMAIN messageQueue /\ messageQueue'[k] = messageQueue[back(k)]
      BY <1>a, <2>1
    <3>3. back(i) < back(j)
      BY <1>a, <2>1, <2>5
    <3> HIDE DEF back
    <3>1. /\ back(i) \in DOMAIN messageQueue /\ back(j) \in DOMAIN messageQueue /\ back(i) < back(j)
          /\ messageQueue'[i] = messageQueue[back(i)] /\ messageQueue'[j] = messageQueue[back(j)]
      BY <3>2, <3>3
    <3> QED
      BY <3>1 DEF Line
  <2>6. \A y \in Msgs : /\ stages[y] \in {"waiting", "withdrawn"} => stages'[y] \in {"waiting", "withdrawn"}
                        /\ stages'[y] = "unsent" => stages[y] = "unsent"
    BY <2>2
  <2> QED
    BY <2>3, <2>4, <2>5, <2>6, LeaveLine
<1>5. ASSUME Box!WithdrawAll PROVE Line'
  <2>1. /\ messageQueue' = << >>
        /\ \A x \in Msgs : stages'[x] = IF \E i \in DOMAIN messageQueue : messageQueue[i] = x
                                        THEN "withdrawn" ELSE stages[x]
    BY <1>5 DEF Box!WithdrawAll
  <2>2. \A x \in Msgs : ~Waiting(x)'
    BY <2>1 DEF Line, Waiting
  <2>3. \A x \in Msgs : stages'[x] = "unsent" => stages[x] = "unsent"
    BY <2>1
  <2>4. DOMAIN messageQueue' = {}
    BY <2>1
  <2> QED
    BY <2>2, <2>3, <2>4, LeaveLine
<1>6. ASSUME UNCHANGED <<stages, messageQueue>> PROVE Line'
  BY <1>6, <1>c
<1> QED
  BY <1>1, <1>2, <1>3, <1>4, <1>5, <1>6 DEF Inside

\* A message that is sent is the last in rank, and goes to the end of the line.
LEMMA LineSend ==
    ASSUME DataOK, Ledger, Line, NEW m \in Msgs, sendUserText(m)
    PROVE  Line'
<1>1. /\ rank' = [rank EXCEPT ![m] = sends + 1] /\ sends' = sends + 1
      /\ rank \in [Msgs -> Nat] /\ sends \in Nat
  BY DEF sendUserText, DataOK
<1>2. /\ rank'[m] = sends + 1 /\ \A x \in Msgs : x # m => rank'[x] = rank[x]
      /\ \A x \in Msgs : rank[x] <= sends /\ rank[x] \in Nat
  BY <1>1 DEF Line
<1>3. /\ stages[m] = "unsent" /\ stages'[m] \in {"waiting", "taken"}
      /\ \A x \in Msgs : x # m => stages'[x] = stages[x]
  BY SendStep DEF Box!Join, Box!Pass, Box!Move, stages
<1>4. \A i \in DOMAIN messageQueue : messageQueue[i] \in Msgs /\ messageQueue[i] # m
  BY <1>3, LedgerFacts, StageValues DEF stages
<1>5. \A x \in Msgs : rank'[x] <= sends'
  BY <1>1, <1>2
<1>6. \A x \in Msgs : stages'[x] = "unsent" => rank'[x] = 0
  BY <1>2, <1>3 DEF Line
<1>7. CASE isBusy
  <2>1. messageQueue' = Append(messageQueue, m) /\ Waiting(m)'
    BY <1>3, <1>7, SendStep DEF Box!Join, Box!Move, Waiting, stages
  <2>2. /\ DOMAIN messageQueue' = 1 .. Len(messageQueue) + 1
        /\ \A i \in 1 .. Len(messageQueue) : messageQueue'[i] = messageQueue[i]
        /\ messageQueue'[Len(messageQueue) + 1] = m
        /\ DOMAIN messageQueue = 1 .. Len(messageQueue) /\ Len(messageQueue) \in Nat
    BY <2>1, AppendFacts DEF DataOK
  <2>3. ASSUME NEW x \in Msgs, Waiting(x)'
        PROVE  \E i \in DOMAIN messageQueue' : messageQueue'[i] = x
    <3>1. CASE x = m
      BY <2>2, <3>1
    <3>2. CASE x # m
      <4>1. PICK i \in DOMAIN messageQueue : messageQueue[i] = x
        BY <1>3, <2>3, <3>2 DEF Line, Waiting
      <4> QED
        BY <2>2, <4>1
    <3> QED
      BY <3>1, <3>2
  <2>4. ASSUME NEW i \in DOMAIN messageQueue', NEW j \in DOMAIN messageQueue', i < j
        PROVE  rank'[messageQueue'[i]] < rank'[messageQueue'[j]]
    <3>1. i \in DOMAIN messageQueue /\ messageQueue'[i] = messageQueue[i]
      BY <2>2, <2>4
    <3>2. rank'[messageQueue'[i]] = rank[messageQueue[i]]
      BY <1>2, <1>4, <3>1
    <3>3. CASE j = Len(messageQueue) + 1
      BY <1>1, <1>2, <1>4, <2>2, <3>1, <3>2, <3>3
    <3>4. CASE j \in DOMAIN messageQueue
      BY <1>2, <1>4, <2>2, <2>4, <3>1, <3>2, <3>4 DEF Line
    <3> QED
      BY <2>2, <3>3, <3>4
  <2>5. ASSUME NEW x \in Msgs, NEW y \in Msgs, Waiting(x)', rank'[x] < rank'[y]
        PROVE  stages'[y] \in {"waiting", "withdrawn"}
    <3>1. CASE y = m
      BY <2>1, <3>1 DEF Waiting
    <3>2. CASE y # m
      <4>1. x # m
        BY <1>1, <1>2, <2>5, <3>2
      <4> QED
        BY <1>2, <1>3, <2>5, <3>2, <4>1 DEF Line, Waiting
    <3> QED
      BY <3>1, <3>2
  <2> QED
    BY <1>5, <1>6, <2>3, <2>4, <2>5 DEF Line
<1>8. CASE ~isBusy
  <2>1. messageQueue' = messageQueue /\ messageQueue = << >> /\ ~Waiting(m)'
    BY <1>3, <1>8, SendStep DEF Box!Pass, Box!Move, Waiting, stages
  <2>2. DOMAIN messageQueue = {}
    BY <2>1
  <2>3. \A x \in Msgs : ~Waiting(x)'
    BY <1>3, <2>1, <2>2 DEF Line, Waiting
  <2> QED
    BY <1>5, <1>6, <2>1, <2>2, <2>3 DEF Line
<1> QED
  BY <1>7, <1>8

LEMMA LineInvariant == Spec => []Line
<1>1. Init => Line
  BY StageValues DEF Init, Line, Waiting, stages
<1>2. CoreInv /\ Line /\ [Next]_vars => Line'
  <2> SUFFICES ASSUME CoreInv, Line, [Next]_vars PROVE Line'
    OBVIOUS
  <2>1. DataOK /\ Ledger
    BY DEF CoreInv
  <2>2. CASE \E m \in Msgs : sendUserText(m)
    BY <2>1, <2>2, LineSend
  <2>3. CASE \A m \in Msgs : ~sendUserText(m)
    BY <2>1, <2>3, OtherStep, LineInside
  <2> QED
    BY <2>2, <2>3
<1> QED
  BY <1>1, <1>2, CoreInvariant, PTL DEF Spec

\* What a stage says of the place.
LEMMA StageInverse ==
    ASSUME NEW p \in Places
    PROVE  /\ p = "queued" => Stage(p) = "waiting"
           /\ Stage(p) \in {"waiting", "withdrawn"} => p \in {"queued", "dropped"}
BY StageValues DEF Places

\* No message overtakes one that waits, with every fault allowed.
THEOREM NothingOvertakes == Spec => []NoOvertaking
<1>1. CoreInv /\ Line => NoOvertaking
  <2> SUFFICES ASSUME CoreInv, Line, NEW m1 \in Msgs, NEW m2 \in Msgs,
                      pc[m1] = "queued", rank[m1] < rank[m2]
               PROVE  pc[m2] \in {"queued", "dropped"}
    BY DEF NoOvertaking
  <2>1. Waiting(m1)
    BY StageValues DEF Waiting, stages
  <2>2. Stage(pc[m2]) \in {"waiting", "withdrawn"}
    BY <2>1 DEF Line, stages
  <2>3. pc[m2] \in Places
    BY DEF CoreInv, DataOK
  <2> QED
    BY <2>2, <2>3, StageInverse
<1> QED
  BY <1>1, CoreInvariant, LineInvariant, PTL
-----------------------------------------------------------------------------
(* MessagesAccountedFor: Ledger, and its converse.                         *)

Held ==
    /\ \A x \in Msgs : pc[x] = "sent" => \E n \in Msgs : \E i \in DOMAIN stdin[n] : stdin[n][i] = x
    /\ \A x \in Msgs : pc[x] = "turn" => \E n \in Msgs : turn[n] = x

\* A step that sends or begins nothing, and changes no query that holds a message
\* that stays where it is.
LEMMA HeldKept ==
    ASSUME Held,
           \A x \in Msgs : pc'[x] = "sent" =>
               /\ pc[x] = "sent"
               /\ \A n \in Msgs : \A i \in DOMAIN stdin[n] :
                     stdin[n][i] = x => stdin'[n] = stdin[n],
           \A x \in Msgs : pc'[x] = "turn" =>
               /\ pc[x] = "turn"
               /\ \A n \in Msgs : turn[n] = x => turn'[n] = turn[n]
    PROVE  Held'
<1>1. ASSUME NEW x \in Msgs, pc'[x] = "sent"
      PROVE  \E n \in Msgs : \E i \in DOMAIN stdin'[n] : stdin'[n][i] = x
  <2>1. PICK n \in Msgs : \E i \in DOMAIN stdin[n] : stdin[n][i] = x
    BY <1>1 DEF Held
  <2>2. stdin'[n] = stdin[n]
    BY <1>1, <2>1
  <2> QED
    BY <2>1, <2>2
<1>2. ASSUME NEW x \in Msgs, pc'[x] = "turn"
      PROVE  \E n \in Msgs : turn'[n] = x
  BY <1>2 DEF Held
<1> QED
  BY <1>1, <1>2 DEF Held

\* A message that is pushed is on the stdin it was pushed to.
LEMMA HeldPush ==
    ASSUME DataOK, Held, NEW m \in Msgs, NEW n \in Msgs, Push(m, n), turn' = turn
    PROVE  Held'
<1>1. /\ stdin'[n] = Append(stdin[n], m) /\ \A k \in Msgs : k # n => stdin'[k] = stdin[k]
      /\ pc'[m] = "sent" /\ \A x \in Msgs : x # m => pc'[x] = pc[x]
  BY DEF Push, DataOK
<1>2. /\ DOMAIN stdin'[n] = 1 .. Len(stdin[n]) + 1
      /\ \A i \in 1 .. Len(stdin[n]) : stdin'[n][i] = stdin[n][i]
      /\ stdin'[n][Len(stdin[n]) + 1] = m
      /\ DOMAIN stdin[n] = 1 .. Len(stdin[n]) /\ Len(stdin[n]) \in Nat
  BY <1>1, AppendFacts DEF DataOK
<1>3. ASSUME NEW x \in Msgs, pc'[x] = "sent"
      PROVE  \E k \in Msgs : \E i \in DOMAIN stdin'[k] : stdin'[k][i] = x
  <2>1. CASE x = m
    <3>1. Len(stdin[n]) + 1 \in DOMAIN stdin'[n]
      BY <1>2
    <3> QED
      BY <1>2, <2>1, <3>1
  <2>2. CASE x # m
    <3>1. PICK k \in Msgs : \E i \in DOMAIN stdin[k] : stdin[k][i] = x
      BY <1>1, <1>3, <2>2 DEF Held
    <3>2. PICK i \in DOMAIN stdin[k] : stdin[k][i] = x
      BY <3>1
    <3>3. i \in DOMAIN stdin'[k] /\ stdin'[k][i] = x
      BY <1>1, <1>2, <3>2
    <3> QED
      BY <3>3
  <2> QED
    BY <2>1, <2>2
<1>4. \A x \in Msgs : pc'[x] = "turn" => \E k \in Msgs : turn'[k] = x
  BY <1>1 DEF Held
<1> QED
  BY <1>3, <1>4 DEF Held

LEMMA HeldStep == CoreInv /\ Held /\ [Next]_vars => Held'
<1> SUFFICES ASSUME CoreInv, Held, [Next]_vars
             PROVE  Held'
  OBVIOUS
<1>a. DataOK /\ Ledger /\ Consumers
  BY DEF CoreInv
\* Steps that leave the queries alone.
<1>b. ASSUME UNCHANGED <<stdin, turn>>,
             \A x \in Msgs : pc'[x] \in {"sent", "turn"} => pc'[x] = pc[x]
      PROVE  Held'
  BY <1>b, HeldKept
<1>1. ASSUME NEW m \in Msgs, sendUserText(m) \/ BeginStart(m) PROVE Held'
  <2>1. /\ UNCHANGED <<stdin, turn>> /\ pc'[m] \in {"queued", "meta", "starting"}
        /\ \A x \in Msgs : x # m => pc'[x] = pc[x]
    BY <1>1, <1>a DEF sendUserText, BeginStart, queries, DataOK
  <2> QED
    BY <1>b, <2>1
<1>2. ASSUME NEW m \in Msgs, PushToCurrent(m) PROVE Held'
  <2>1. reader \in Msgs
    BY <1>2, <1>a DEF PushToCurrent, Consumers, DataOK
  <2> QED
    BY <1>2, <1>a, <2>1, HeldPush DEF PushToCurrent
<1>3. ASSUME NEW m \in Msgs, Started(m) PROVE Held'
  BY <1>3, <1>a, HeldPush DEF Started
<1>4. ASSUME NEW m \in Msgs, StartFailed(m) PROVE Held'
  <2> DEFINE p == [pc EXCEPT ![m] = "failed"]
  <2>1. /\ p \in [Msgs -> Places] /\ p[m] = "failed" /\ \A x \in Msgs : x # m => p[x] = pc[x]
        /\ UNCHANGED <<stdin, turn>>
    BY <1>4, <1>a DEF StartFailed, queries, DataOK, Places
  <2>2. pc' = p \/ processNextInQueue(p)
    BY <1>4 DEF StartFailed
  <2> HIDE DEF p
  <2>3. \A x \in Msgs : pc'[x] \in {"sent", "turn"} => pc'[x] = p[x]
    BY <1>a, <2>1, <2>2, ProcessNextFacts
  <2> QED
    BY <1>b, <2>1, <2>3
<1>5. ASSUME NEW n \in Msgs, TurnBegins(n) PROVE Held'
  <2> DEFINE h == Head(stdin[n])
  <2>1. stdin[n] \in Seq(Msgs) /\ stdin[n] # << >>
    BY <1>5, <1>a DEF TurnBegins, DataOK
  <2>2. /\ DOMAIN Tail(stdin[n]) = 1 .. Len(stdin[n]) - 1
        /\ \A i \in 1 .. Len(stdin[n]) - 1 : Tail(stdin[n])[i] = stdin[n][i + 1]
        /\ h = stdin[n][1] /\ h \in Msgs
        /\ DOMAIN stdin[n] = 1 .. Len(stdin[n]) /\ Len(stdin[n]) \in Nat
    BY <2>1, TailFacts
  <2> HIDE DEF h
  <2>3. /\ turn[n] = None /\ turn'[n] = h /\ \A k \in Msgs : k # n => turn'[k] = turn[k]
        /\ stdin'[n] = Tail(stdin[n]) /\ \A k \in Msgs : k # n => stdin'[k] = stdin[k]
        /\ pc'[h] = "turn" /\ \A x \in Msgs : x # h => pc'[x] = pc[x]
    BY <1>5, <1>a, <2>2 DEF TurnBegins, DataOK, h
  <2>4. ASSUME NEW x \in Msgs, pc'[x] = "sent"
        PROVE  \E k \in Msgs : \E i \in DOMAIN stdin'[k] : stdin'[k][i] = x
    <3>1. x # h /\ pc[x] = "sent"
      BY <2>3, <2>4
    <3>2. PICK k \in Msgs : \E i \in DOMAIN stdin[k] : stdin[k][i] = x
      BY <3>1 DEF Held
    <3>3. PICK i \in DOMAIN stdin[k] : stdin[k][i] = x
      BY <3>2
    <3>4. CASE k = n
      <4>1. i # 1 /\ i \in 1 .. Len(stdin[n])
        BY <2>2, <3>1, <3>3, <3>4
      <4>2. i - 1 \in 1 .. Len(stdin[n]) - 1 /\ (i - 1) + 1 = i
        BY <2>2, <4>1
      <4>3. i - 1 \in DOMAIN stdin'[n] /\ stdin'[n][i - 1] = x
        BY <2>2, <2>3, <3>3, <3>4, <4>2
      <4> QED
        BY <4>3
    <3>5. CASE k # n
      BY <2>3, <3>2, <3>5
    <3> QED
      BY <3>4, <3>5
  <2>5. ASSUME NEW x \in Msgs, pc'[x] = "turn"
        PROVE  \E k \in Msgs : turn'[k] = x
    <3>1. CASE x = h
      BY <2>3, <3>1
    <3>2. CASE x # h
      <4>1. PICK k \in Msgs : turn[k] = x
        BY <2>3, <2>5, <3>2 DEF Held
      <4>2. k # n
        BY <2>3, <4>1, ConstantsAssumption
      <4> QED
        BY <2>3, <4>1, <4>2
    <3> QED
      BY <3>1, <3>2
  <2> QED
    BY <2>4, <2>5 DEF Held
<1>6. ASSUME NEW n \in Msgs, ResultReceived(n) PROVE Held'
  <2> DEFINE p == [pc EXCEPT ![turn[n]] = "done"]
  <2>1. turn[n] \in Msgs /\ pc[turn[n]] = "turn"
    BY <1>6, <1>a, LedgerFacts DEF ResultReceived
  <2>2. /\ p[turn[n]] = "done" /\ p \in [Msgs -> Places] /\ processNextInQueue(p)
        /\ \A x \in Msgs : x # turn[n] => p[x] = pc[x]
        /\ stdin' = stdin /\ \A k \in Msgs : k # n => turn'[k] = turn[k]
    BY <1>6, <1>a, <2>1 DEF ResultReceived, DataOK, Places
  <2> HIDE DEF p
  <2>3. \A x \in Msgs : pc'[x] \in {"sent", "turn"} => pc'[x] = pc[x] /\ x # turn[n]
    BY <1>a, <2>2, ProcessNextFacts
  <2> QED
    BY <2>2, <2>3, HeldKept
<1>7. ASSUME NEW n \in Msgs, ToolBoundary(n) PROVE Held'
  BY <1>b, <1>7 DEF ToolBoundary, calls
<1>8. ASSUME NEW n \in Msgs, BoundaryInterrupted(n) \/ GeneratorEnds(n) PROVE Held'
  <2> DEFINE p == EndQuery(pc, n)
  <2>1. \A x \in Msgs : p[x] \in {"sent", "turn"} =>
            /\ p[x] = pc[x] /\ turn[n] # x
            /\ \A i \in DOMAIN stdin[n] : stdin[n][i] # x
    BY DEF EndQuery
  <2>2. p \in [Msgs -> Places]
    BY <1>a, EndQueryType
  <2>3. pc' = p \/ processNextInQueue(p)
    BY <1>8 DEF BoundaryInterrupted, GeneratorEnds
  <2>4. \A k \in Msgs : k # n => turn'[k] = turn[k] /\ stdin'[k] = stdin[k]
    BY <1>8, <1>a DEF BoundaryInterrupted, GeneratorEnds, DataOK
  <2> HIDE DEF p
  <2>5. \A x \in Msgs : pc'[x] \in {"sent", "turn"} => pc'[x] = p[x]
    BY <1>a, <2>2, <2>3, ProcessNextFacts
  <2> QED
    BY <2>1, <2>4, <2>5, HeldKept
<1>9. ASSUME interrupt \/ restartOnNextMessage \/ EndTeardown \/ EndDestroy PROVE Held'
  BY <1>b, <1>9 DEF interrupt, restartOnNextMessage, EndTeardown, EndDestroy, calls, queries
<1>10. ASSUME NEW kind, BeginTeardown(kind) PROVE Held'
  BY <1>b, <1>10 DEF BeginTeardown, fields, queries
<1>11. ASSUME NEW r \in 1 .. Len(messageQueue), removeQueueItem(r) PROVE Held'
  <2>1. messageQueue[r] \in Msgs
    BY <1>a DEF DataOK
  <2>2. /\ pc'[messageQueue[r]] = "dropped"
        /\ \A x \in Msgs : x # messageQueue[r] => pc'[x] = pc[x]
        /\ UNCHANGED <<stdin, turn>>
    BY <1>11, <1>a, <2>1 DEF removeQueueItem, queries, DataOK
  <2> QED
    BY <1>b, <2>2
<1>12. ASSUME clearQueue \/ destroy PROVE Held'
  <2>1. pc' = DropQueue /\ UNCHANGED <<stdin, turn>>
    BY <1>12 DEF clearQueue, destroy, queries
  <2>2. \A x \in Msgs : pc'[x] \in {"sent", "turn"} => pc'[x] = pc[x]
    BY <2>1 DEF DropQueue
  <2> QED
    BY <1>b, <2>1, <2>2
<1>13. ASSUME IdleTimeout PROVE Held'
  BY <1>b, <1>12, <1>13 DEF IdleTimeout, calls, queries
<1>14. ASSUME NEW s \in Sockets, BeginAttach(s) \/ Subscribe(s) \/ EndAttach(s) \/ detach(s)
       PROVE  Held'
  BY <1>b, <1>14 DEF BeginAttach, Subscribe, EndAttach, detach, fields, queries
<1>15. ASSUME UNCHANGED vars PROVE Held'
  BY <1>b, <1>15 DEF vars, fields, calls, queries
<1> QED
  BY <1>1, <1>2, <1>3, <1>4, <1>5, <1>6, <1>7, <1>8, <1>9, <1>10, <1>11, <1>12,
     <1>13, <1>14, <1>15
     DEF Next, Server, Claude, Users, destroySession

\* Every message that was sent is in exactly one place, with every fault allowed.
THEOREM EveryMessageAccountedFor == Spec => []MessagesAccountedFor
<1>1. Init => Held
  BY DEF Init, Held
<1>2. CoreInv /\ Held /\ [Next]_vars => Held'
  BY HeldStep
<1>3. CoreInv /\ Held /\ Line => MessagesAccountedFor
  <2> SUFFICES ASSUME CoreInv, Held, Line PROVE MessagesAccountedFor
    OBVIOUS
  <2>1. DataOK /\ Ledger
    BY DEF CoreInv
  <2>2. \A m \in Msgs : pc[m] = "queued" <=> \E i \in DOMAIN messageQueue : messageQueue[i] = m
    BY <2>1, LedgerFacts, StageValues DEF Line, Waiting, stages
  <2>3. \A m \in Msgs : pc[m] = "sent" <=>
            \E n \in Msgs : \E i \in DOMAIN stdin[n] : stdin[n][i] = m
    BY <2>1, LedgerFacts DEF Held
  <2>4. \A m \in Msgs : pc[m] = "turn" <=> \E n \in Msgs : turn[n] = m
    BY <2>1, LedgerFacts, ConstantsAssumption DEF Held
  <2> QED
    BY <2>1, <2>2, <2>3, <2>4 DEF Ledger, MessagesAccountedFor
<1> QED
  BY <1>1, <1>2, <1>3, CoreInvariant, LineInvariant, PTL DEF Spec

-----------------------------------------------------------------------------
\* A registered session with a live query keeps the loop's container active,
\* however starts, idle timers and teardowns overlap.
THEOREM LiveQueriesHoldContainer == Spec => []LiveQueryHoldsContainer
<1> DEFINE Live(n) == consumer[n] \in {"running", "boundary"}
<1>1. Init => LiveQueryHoldsContainer
  BY DEF Init, LiveQueryHoldsContainer
<1>2. CoreInv /\ LiveQueryHoldsContainer /\ [Next]_vars => LiveQueryHoldsContainer'
  <2> SUFFICES ASSUME CoreInv, LiveQueryHoldsContainer, [Next]_vars
               PROVE  LiveQueryHoldsContainer'
    OBVIOUS
  <2>a. consumer \in [Msgs -> ConsumerStates]
    BY DEF CoreInv, DataOK
  <2>b. ASSUME registered' = registered, sdkActive' = sdkActive,
               \A n \in Msgs : Live(n)' => Live(n)
        PROVE  LiveQueryHoldsContainer'
    BY <2>b DEF LiveQueryHoldsContainer
  <2>c. ASSUME UNCHANGED <<registered, sdkActive, consumer>> PROVE LiveQueryHoldsContainer'
    BY <2>b, <2>c
  <2>1. ASSUME NEW m \in Msgs, sendUserText(m) \/ PushToCurrent(m) \/ BeginStart(m) \/ StartFailed(m)
        PROVE  LiveQueryHoldsContainer'
    BY <2>c, <2>1 DEF sendUserText, PushToCurrent, BeginStart, StartFailed, queries
  <2>2. ASSUME NEW m \in Msgs, Started(m) PROVE LiveQueryHoldsContainer'
    BY <2>2 DEF Started, markActive, LiveQueryHoldsContainer
  <2>3. ASSUME NEW n \in Msgs, TurnBegins(n) \/ ResultReceived(n) PROVE LiveQueryHoldsContainer'
    BY <2>c, <2>3 DEF TurnBegins, ResultReceived
  <2>4. ASSUME NEW n \in Msgs, ToolBoundary(n) \/ BoundaryInterrupted(n) \/ GeneratorEnds(n)
        PROVE  LiveQueryHoldsContainer'
    <3>1. /\ UNCHANGED <<registered, sdkActive>> /\ Live(n)
          /\ \A k \in Msgs : k # n => consumer'[k] = consumer[k]
      BY <2>4, <2>a DEF ToolBoundary, BoundaryInterrupted, GeneratorEnds
    <3> QED
      BY <2>b, <3>1
  <2>5. ASSUME \/ interrupt \/ restartOnNextMessage \/ EndTeardown \/ EndDestroy \/ clearQueue
        PROVE  LiveQueryHoldsContainer'
    BY <2>c, <2>5 DEF interrupt, restartOnNextMessage, EndTeardown, EndDestroy, clearQueue, queries
  <2>6. ASSUME NEW i, BeginTeardown(i) \/ removeQueueItem(i) PROVE LiveQueryHoldsContainer'
    BY <2>c, <2>6 DEF BeginTeardown, removeQueueItem, queries
  <2>7. ASSUME destroy PROVE LiveQueryHoldsContainer'
    BY <2>7 DEF destroy, LiveQueryHoldsContainer
  <2>8. ASSUME IdleTimeout PROVE LiveQueryHoldsContainer'
    BY <2>c, <2>7, <2>8 DEF IdleTimeout, queries
  <2>9. ASSUME NEW s \in Sockets, BeginAttach(s) \/ Subscribe(s) \/ EndAttach(s) \/ detach(s)
        PROVE  LiveQueryHoldsContainer'
    BY <2>c, <2>9 DEF BeginAttach, Subscribe, EndAttach, detach, queries
  <2>10. ASSUME UNCHANGED vars PROVE LiveQueryHoldsContainer'
    BY <2>c, <2>10 DEF vars, queries
  <2> QED
    BY <2>1, <2>2, <2>3, <2>4, <2>5, <2>6, <2>7, <2>8, <2>9, <2>10
       DEF Next, Server, Claude, Users, destroySession
<1> QED
  BY <1>1, <1>2, CoreInvariant, PTL DEF Spec
=============================================================================
