----------------------------- MODULE LoopSession -----------------------------
(***************************************************************************)
(* One LoopSession object of server/src/session.ts: the user messages that *)
(* reach it, its message queue, the claude queries it spawns, the flags    *)
(* (generating, queueProcessing, consuming) that decide what runs next,    *)
(* and its teardown by destroy() or by the idle timer.                     *)
(*                                                                         *)
(* The server is one JavaScript thread, so the code between two awaits is  *)
(* one action here and every await is a point where other actions run.     *)
(*                                                                         *)
(* A query is named by the message whose ensureStarted() created it: a     *)
(* message enters ensureStarted() at most once, so the names are unique.   *)
(*                                                                         *)
(* The claude child and the SDK that drives it are external: a live query  *)
(* reads its standard input, announces a turn (init), may report a tool    *)
(* result, and ends the turn with a result.  With SdkMayDie the child may  *)
(* also exit in the middle of a turn, without a result; with StartMayFail  *)
(* ensureStarted() may throw.                                              *)
(***************************************************************************)
EXTENDS Naturals, Sequences, FiniteSets, Functions, SequencesExt

CONSTANTS
    Msgs,       \* the user messages ever sent (also the names of queries)
    Sockets,    \* the websockets that ever attach; each attaches once
    None,       \* "null"
    SdkMayDie,    \* may a query end in the middle of a turn?
    StartMayFail  \* may ensureStarted() throw?

ASSUME ConstantsAssumption ==
    /\ None \notin Msgs
    /\ SdkMayDie \in BOOLEAN /\ StartMayFail \in BOOLEAN

VARIABLES
    \* -- fields of the LoopSession object --
    q,                \* this.q: the current query, or None
    reader,           \* the query registered last on this.input.iter, or None
    generating,       \* this.generating
    consuming,        \* this.consuming
    messageQueue,     \* this.messageQueue
    queueProcessing,  \* this.queueProcessing
    idleTimer,        \* this.idleTimer # null
    subscribers,      \* the keys of this.subscribers
    \* -- async calls in progress --
    pc,               \* where each message is (see Places)
    via,              \* who called _pushUserMessage for it
    attach,           \* the attach() call of each websocket
    closed,           \* the websockets whose close handler has run
    teardown,         \* a clear() or stripThinkingBlocks() awaiting interrupt
    destroying,       \* a destroy() awaiting interrupt
    \* -- the session registry and the container registry --
    registered,       \* is the object in the sessions map?
    sdkActive,        \* has the loop an "sdk" source in the activity registry?
    \* -- queries --
    consumer,         \* the consume() call of each query
    stdin,            \* messages a query was given and has not begun
    turn,             \* the message a query is working on, or None
    \* -- history --
    sends,            \* how many messages were sent
    rank              \* which of them each message was; 0 is unsent

fields  == <<q, reader, generating, consuming, messageQueue, queueProcessing,
             idleTimer, subscribers>>
calls   == <<pc, via, attach, closed, teardown, destroying>>
queries == <<consumer, stdin, turn>>
history == <<sends, rank>>
vars    == <<fields, calls, registered, sdkActive, queries, history>>

-----------------------------------------------------------------------------
(* The places a message can be in.  "meta" and "starting" are the two      *)
(* awaits of _pushUserMessage: reading the loop's metadata, then           *)
(* ensureStarted().  The last five are final.                              *)
Places == {"new", "queued", "meta", "starting", "sent", "turn",
           "done",      \* its turn ended with a result
           "cut",       \* its turn ended without one
           "lost",      \* its query ended before it began
           "dropped",   \* removed from the queue
           "failed"}    \* ensureStarted() threw

InFlight(m) == pc[m] \in {"meta", "starting"}

ConsumerStates == {"none", "running", "boundary", "ended"}

Init ==
    /\ q = None /\ reader = None
    /\ generating = FALSE /\ consuming = FALSE
    /\ messageQueue = << >> /\ queueProcessing = FALSE
    /\ idleTimer = FALSE /\ subscribers = {}
    /\ pc = [m \in Msgs |-> "new"]
    /\ via = [m \in Msgs |-> "direct"]
    /\ attach = [s \in Sockets |-> "none"]
    /\ closed = {}
    /\ teardown = "none" /\ destroying = FALSE
    /\ registered = TRUE /\ sdkActive = FALSE
    /\ consumer = [n \in Msgs |-> "none"]
    /\ stdin = [n \in Msgs |-> << >>]
    /\ turn = [n \in Msgs |-> None]
    /\ sends = 0 /\ rank = [m \in Msgs |-> 0]

-----------------------------------------------------------------------------
(* Pieces of handlers.  A definition whose name begins with Seeded is a    *)
(* wrong version of the one after it, with a bug the code might have had:  *)
(* a property is worth stating only if some such bug breaks it.            *)

\* The head is read but not shifted.
SeededPeek(p) ==
    IF messageQueue = << >> THEN /\ queueProcessing' = FALSE /\ pc' = p
                                 /\ UNCHANGED <<messageQueue, via>>
    ELSE /\ queueProcessing' = TRUE /\ UNCHANGED messageQueue
         /\ pc' = [p EXCEPT ![Head(messageQueue)] = "meta"]
         /\ via' = [via EXCEPT ![Head(messageQueue)] = "queue"]

\* The call is forgotten.
SeededNoDrain(p) == queueProcessing' = FALSE /\ pc' = p /\ UNCHANGED <<messageQueue, via>>

\* queueProcessing is not reset before the call.
SeededStaleFlag(p) ==
    IF messageQueue = << >> \/ queueProcessing
    THEN pc' = p /\ UNCHANGED <<queueProcessing, messageQueue, via>>
    ELSE /\ queueProcessing' = TRUE
         /\ messageQueue' = Tail(messageQueue)
         /\ pc' = [p EXCEPT ![Head(messageQueue)] = "meta"]
         /\ via' = [via EXCEPT ![Head(messageQueue)] = "queue"]

\* processNextInQueue() called with queueProcessing just reset: shift the head
\* of the queue into _pushUserMessage, or leave an empty queue alone.  p is pc
\* as the caller has updated it so far.
processNextInQueue(p) ==
    \/ /\ messageQueue = << >>
       /\ queueProcessing' = FALSE
       /\ pc' = p
       /\ UNCHANGED <<messageQueue, via>>
    \/ /\ messageQueue # << >>
       /\ queueProcessing' = TRUE
       /\ messageQueue' = Tail(messageQueue)
       /\ pc' = [p EXCEPT ![Head(messageQueue)] = "meta"]
       /\ via' = [via EXCEPT ![Head(messageQueue)] = "queue"]

\* Push message m to the query reading query n's iterable.
Push(m, n) ==
    /\ stdin' = [stdin EXCEPT ![n] = Append(@, m)]
    /\ pc' = [pc EXCEPT ![m] = "sent"]

\* The message it was working on is sent again.
SeededRetry(p, n) ==
    [m \in Msgs |-> IF turn[n] = m THEN "meta"
                    ELSE IF \E i \in DOMAIN stdin[n] : stdin[n][i] = m THEN "lost"
                    ELSE p[m]]

\* Query n's process is gone: what it was given and has not finished ends here.
EndQuery(p, n) ==
    [m \in Msgs |-> IF turn[n] = m THEN "cut"
                    ELSE IF \E i \in DOMAIN stdin[n] : stdin[n][i] = m THEN "lost"
                    ELSE p[m]]

SeededGenerating == UNCHANGED generating

\* The end of a turn, for the flag the user interface shows.
StopGenerating == generating' = FALSE

SeededUnmarked == UNCHANGED sdkActive

\* markActive(loopId, "sdk").
markActive == sdkActive' = TRUE

\* scheduleIdleCleanup() as seen by a caller that leaves `consuming` at c and
\* the subscribers at subs.
scheduleIdleCleanup(subs, c) ==
    idleTimer' = (idleTimer \/ (subs = {} /\ ~c))

\* The current query is not dropped.
SeededFinally ==
    /\ consuming' = FALSE /\ generating' = FALSE /\ queueProcessing' = FALSE
    /\ scheduleIdleCleanup(subscribers, FALSE)
    /\ UNCHANGED <<q, reader, messageQueue, subscribers>>

\* consume()'s finally block for the query that is still this.q.
FinallyCleanup ==
    /\ consuming' = FALSE /\ generating' = FALSE /\ queueProcessing' = FALSE
    /\ q' = None /\ reader' = None
    /\ scheduleIdleCleanup(subscribers, FALSE)
    /\ UNCHANGED <<messageQueue, subscribers>>

-----------------------------------------------------------------------------
(* Sending messages *)

\* The queue itself is not looked at.
SeededBusy == generating \/ queueProcessing

isBusy == generating \/ messageQueue # << >> \/ queueProcessing

\* sendUserText: a busy session queues the message, another pushes it at once.
\* Callers take the object from the sessions map, so they do not reach one that
\* destroy() has removed.
sendUserText(m) ==
    /\ registered
    /\ pc[m] = "new"
    /\ sends' = sends + 1
    /\ rank' = [rank EXCEPT ![m] = sends + 1]
    /\ \/ /\ isBusy
          /\ messageQueue' = Append(messageQueue, m)
          /\ pc' = [pc EXCEPT ![m] = "queued"]
          /\ UNCHANGED via
       \/ /\ ~isBusy
          /\ pc' = [pc EXCEPT ![m] = "meta"]
          /\ via' = [via EXCEPT ![m] = "direct"]
          /\ UNCHANGED messageQueue
    /\ UNCHANGED <<q, reader, generating, consuming, queueProcessing, idleTimer,
                   subscribers, attach, closed, teardown, destroying,
                   registered, sdkActive, queries>>

\* _pushUserMessage after its metadata awaits, where ensureStarted() returns at
\* once because there is a query: the message goes to the current iterable.
PushToCurrent(m) ==
    /\ pc[m] = "meta"
    /\ q # None
    /\ Push(m, reader)
    /\ UNCHANGED <<fields, via, attach, closed, teardown, destroying,
                   registered, sdkActive, consumer, turn, history>>

\* ... and where it does not: ensureStarted() begins its own awaits.
BeginStart(m) ==
    /\ pc[m] = "meta"
    /\ q = None
    /\ pc' = [pc EXCEPT ![m] = "starting"]
    /\ UNCHANGED <<fields, via, attach, closed, teardown, destroying,
                   registered, sdkActive, queries, history>>

\* ensureStarted() is through its awaits: mark the container active, create the
\* query, start consume() on it, and push the message.  this.q is not looked
\* at again.
Started(m) ==
    /\ pc[m] = "starting"
    /\ markActive
    /\ q' = m /\ reader' = m
    /\ consumer' = [consumer EXCEPT ![m] = "running"]
    /\ consuming' = TRUE
    /\ Push(m, m)
    /\ UNCHANGED <<generating, messageQueue, queueProcessing, idleTimer,
                   subscribers, via, attach, closed, teardown, destroying,
                   registered, turn, history>>

\* ensureStarted() throws (no metadata, no provider, no container): sendUserText
\* reports the error, processNextInQueue goes on to the next queued message.
StartFailed(m) ==
    /\ StartMayFail
    /\ pc[m] = "starting"
    /\ \/ /\ via[m] = "direct"
          /\ generating' = FALSE
          /\ pc' = [pc EXCEPT ![m] = "failed"]
          /\ UNCHANGED <<via, messageQueue, queueProcessing>>
       \/ /\ via[m] = "queue"
          /\ processNextInQueue([pc EXCEPT ![m] = "failed"])
          /\ UNCHANGED generating
    /\ UNCHANGED <<q, reader, consuming, idleTimer, subscribers, attach, closed,
                   teardown, destroying, registered, sdkActive, queries, history>>

-----------------------------------------------------------------------------
(* consume(): what each message of a query does to the session *)

\* system/init: the query begins the turn of the next message on its stdin.
TurnBegins(n) ==
    /\ consumer[n] = "running"
    /\ turn[n] = None /\ stdin[n] # << >>
    /\ turn' = [turn EXCEPT ![n] = Head(stdin[n])]
    /\ stdin' = [stdin EXCEPT ![n] = Tail(@)]
    /\ pc' = [pc EXCEPT ![Head(stdin[n])] = "turn"]
    /\ generating' = TRUE
    /\ UNCHANGED <<q, reader, consuming, messageQueue, queueProcessing,
                   idleTimer, subscribers, via, attach, closed, teardown,
                   destroying, registered, sdkActive, consumer, history>>

\* result: the turn is over, whichever query it is from; the next queued
\* message is started.  The query stays alive, waiting on its stdin.
ResultReceived(n) ==
    /\ consumer[n] = "running"
    /\ turn[n] # None
    /\ StopGenerating
    /\ q' = None
    /\ processNextInQueue([pc EXCEPT ![turn[n]] = "done"])
    /\ turn' = [turn EXCEPT ![n] = None]
    /\ UNCHANGED <<reader, consuming, idleTimer, subscribers, attach, closed,
                   teardown, destroying, registered, sdkActive, consumer, stdin,
                   history>>

\* A tool result while messages are queued: give up this turn and await the
\* query's interrupt before the queue is drained.
ToolBoundary(n) ==
    /\ consumer[n] = "running"
    /\ turn[n] # None
    /\ messageQueue # << >>
    /\ StopGenerating
    /\ queueProcessing' = FALSE
    /\ consumer' = [consumer EXCEPT ![n] = "boundary"]
    /\ UNCHANGED <<q, reader, consuming, messageQueue, idleTimer, subscribers,
                   calls, registered, sdkActive, stdin, turn, history>>

\* ... the interrupt is acknowledged: drop the query, start the next queued
\* message, and leave the loop over the query, which closes it.
\* processNextInQueue does nothing if another caller is processing the queue.
BoundaryInterrupted(n) ==
    /\ consumer[n] = "boundary"
    /\ q' = None
    /\ \/ /\ ~queueProcessing
          /\ processNextInQueue(EndQuery(pc, n))
       \/ /\ queueProcessing
          /\ pc' = EndQuery(pc, n)
          /\ UNCHANGED <<messageQueue, queueProcessing, via>>
    /\ consumer' = [consumer EXCEPT ![n] = "ended"]
    /\ turn' = [turn EXCEPT ![n] = None]
    /\ stdin' = [stdin EXCEPT ![n] = << >>]
    /\ UNCHANGED <<reader, generating, consuming, idleTimer, subscribers, attach,
                   closed, teardown, destroying, registered, sdkActive, history>>

\* The generator ends, or throws: an idle child may be reaped at any time, a
\* busy one only if SdkMayDie.  consume()'s finally block cleans up unless
\* this.q is no longer this query.
GeneratorEnds(n) ==
    /\ consumer[n] = "running"
    /\ SdkMayDie \/ (turn[n] = None /\ stdin[n] = << >>)
    /\ \/ q # n /\ UNCHANGED fields
       \/ q = n /\ FinallyCleanup
    /\ pc' = EndQuery(pc, n)
    /\ consumer' = [consumer EXCEPT ![n] = "ended"]
    /\ turn' = [turn EXCEPT ![n] = None]
    /\ stdin' = [stdin EXCEPT ![n] = << >>]
    /\ UNCHANGED <<via, attach, closed, teardown, destroying, registered,
                   sdkActive, history>>

-----------------------------------------------------------------------------
(* Operations of users and of other parts of the server.  An interrupt of  *)
(* a query has no effect of its own on the session: it makes the child end *)
(* its turn, which the steps of consume() above allow at any time.         *)

interrupt ==
    /\ registered
    /\ generating' = FALSE
    /\ UNCHANGED <<q, reader, consuming, messageQueue, queueProcessing, idleTimer,
                   subscribers, calls, registered, sdkActive, queries, history>>

\* restartOnNextMessage, behind setProvider, setGoal and restartSession.
restartOnNextMessage ==
    /\ registered
    /\ q # None
    /\ q' = None /\ reader' = None
    /\ UNCHANGED <<generating, consuming, messageQueue, queueProcessing,
                   idleTimer, subscribers, calls, registered, sdkActive, queries,
                   history>>

\* clear() or stripThinkingBlocks() with a query to interrupt first.
BeginTeardown(kind) ==
    /\ registered
    /\ q # None /\ teardown = "none"
    /\ teardown' = kind
    /\ UNCHANGED <<fields, pc, via, attach, closed, destroying, registered,
                   sdkActive, queries, history>>

\* ... after the await: whatever this.q is now is dropped.  Only
\* stripThinkingBlocks replaces the iterable.
EndTeardown ==
    /\ teardown # "none"
    /\ q' = None
    /\ reader' = IF teardown = "strip" THEN None ELSE reader
    /\ teardown' = "none"
    /\ UNCHANGED <<generating, consuming, messageQueue, queueProcessing,
                   idleTimer, subscribers, pc, via, attach, closed, destroying,
                   registered, sdkActive, queries, history>>

removeQueueItem(i) ==
    /\ registered
    /\ i \in DOMAIN messageQueue
    /\ messageQueue' = RemoveAt(messageQueue, i)
    /\ pc' = [pc EXCEPT ![messageQueue[i]] = "dropped"]
    /\ UNCHANGED <<q, reader, generating, consuming, queueProcessing, idleTimer,
                   subscribers, via, attach, closed, teardown, destroying,
                   registered, sdkActive, queries, history>>

\* Every message of the queue, given up.
DropQueue == [m \in Msgs |-> IF \E i \in DOMAIN messageQueue : messageQueue[i] = m
                             THEN "dropped" ELSE pc[m]]

clearQueue ==
    /\ registered
    /\ messageQueue' = << >> /\ queueProcessing' = FALSE
    /\ pc' = DropQueue
    /\ UNCHANGED <<q, reader, generating, consuming, idleTimer, subscribers, via,
                   attach, closed, teardown, destroying, registered, sdkActive,
                   queries, history>>

-----------------------------------------------------------------------------
(* Teardown and the idle timer *)

\* The queue is set to null.
SeededDestroy ==
    /\ idleTimer' = FALSE
    /\ generating' = FALSE /\ queueProcessing' = FALSE
    /\ messageQueue' = None
    /\ pc' = DropQueue
    /\ registered' = FALSE
    /\ sdkActive' = FALSE
    /\ destroying' = (destroying \/ q # None)
    /\ subscribers' = IF q = None THEN {} ELSE subscribers
    /\ UNCHANGED <<q, reader, consuming, via, attach, closed, teardown, queries,
                   history>>

\* destroy() up to its await, or to its end when there is no query.
destroy ==
    /\ idleTimer' = FALSE
    /\ generating' = FALSE /\ queueProcessing' = FALSE
    /\ messageQueue' = << >>
    /\ pc' = DropQueue
    /\ registered' = FALSE
    /\ sdkActive' = FALSE
    /\ destroying' = (destroying \/ q # None)
    /\ subscribers' = IF q = None THEN {} ELSE subscribers
    /\ UNCHANGED <<q, reader, consuming, via, attach, closed, teardown, queries,
                   history>>

\* destroySession: archive, request-drive, a change of the shared ports.
destroySession == registered /\ destroy

\* The idle timer runs out.
IdleTimeout ==
    /\ idleTimer
    /\ \/ subscribers = {} /\ destroy
       \/ /\ subscribers # {}
          /\ idleTimer' = FALSE
          /\ UNCHANGED <<q, reader, generating, consuming, messageQueue,
                         queueProcessing, subscribers, calls, registered,
                         sdkActive, queries, history>>

\* destroy() after its await.
EndDestroy ==
    /\ destroying
    /\ destroying' = FALSE
    /\ q' = None
    /\ subscribers' = {}
    /\ UNCHANGED <<reader, generating, consuming, messageQueue, queueProcessing,
                   idleTimer, pc, via, attach, closed, teardown, registered,
                   sdkActive, queries, history>>

-----------------------------------------------------------------------------
(* Websockets.  attach() awaits the history, registers the subscriber,     *)
(* awaits the metadata while it replays, and cancels the idle timer last.  *)

BeginAttach(s) ==
    /\ registered
    /\ attach[s] = "none"
    /\ attach' = [attach EXCEPT ![s] = "loading"]
    /\ UNCHANGED <<fields, pc, via, closed, teardown, destroying, registered,
                   sdkActive, queries, history>>

Subscribe(s) ==
    /\ attach[s] = "loading"
    /\ attach' = [attach EXCEPT ![s] = "replaying"]
    /\ subscribers' = subscribers \cup {s}
    /\ UNCHANGED <<q, reader, generating, consuming, messageQueue, queueProcessing,
                   idleTimer, pc, via, closed, teardown, destroying, registered,
                   sdkActive, queries, history>>

EndAttach(s) ==
    /\ attach[s] = "replaying"
    /\ attach' = [attach EXCEPT ![s] = "attached"]
    /\ idleTimer' = FALSE
    /\ UNCHANGED <<q, reader, generating, consuming, messageQueue, queueProcessing,
                   subscribers, pc, via, closed, teardown, destroying, registered,
                   sdkActive, queries, history>>

\* The close handler of a websocket; it may come while attach() is under way.
detach(s) ==
    /\ attach[s] # "none" /\ s \notin closed
    /\ closed' = closed \cup {s}
    /\ subscribers' = subscribers \ {s}
    /\ scheduleIdleCleanup(subscribers \ {s}, consuming)
    /\ UNCHANGED <<q, reader, generating, consuming, messageQueue, queueProcessing,
                   pc, via, attach, teardown, destroying, registered, sdkActive,
                   queries, history>>

-----------------------------------------------------------------------------
\* The awaits of the server's own calls, which the event loop completes.
Server ==
    \/ \E m \in Msgs : PushToCurrent(m) \/ BeginStart(m) \/ Started(m) \/ StartFailed(m)
    \/ \E n \in Msgs : BoundaryInterrupted(n)
    \/ EndTeardown \/ EndDestroy
    \/ \E s \in Sockets : Subscribe(s) \/ EndAttach(s)

\* What the claude children do.
Claude == \E n \in Msgs : \/ TurnBegins(n) \/ ResultReceived(n)
                          \/ ToolBoundary(n) \/ GeneratorEnds(n)

Users ==
    \/ \E m \in Msgs : sendUserText(m)
    \/ interrupt \/ restartOnNextMessage
    \/ \E kind \in {"clear", "strip"} : BeginTeardown(kind)
    \/ \E i \in 1 .. Len(messageQueue) : removeQueueItem(i)
    \/ clearQueue
    \/ destroySession
    \/ \E s \in Sockets : BeginAttach(s) \/ detach(s)

Next == Server \/ Claude \/ Users \/ IdleTimeout

Spec == Init /\ [][Next]_vars

\* The event loop completes every await it is given; a live child that has a
\* message begins its turn and ends the turn it is in; a timer that stays armed
\* runs out.  Users owe nothing.
Fairness ==
    /\ \A m \in Msgs :
        /\ WF_vars(PushToCurrent(m) \/ BeginStart(m))
        /\ WF_vars(Started(m) \/ StartFailed(m))
        /\ WF_vars(BoundaryInterrupted(m))
        /\ WF_vars(TurnBegins(m))
        /\ WF_vars(ResultReceived(m) \/ ToolBoundary(m) \/ GeneratorEnds(m))
    /\ \A s \in Sockets : WF_vars(Subscribe(s)) /\ WF_vars(EndAttach(s))
    /\ WF_vars(EndTeardown) /\ WF_vars(EndDestroy) /\ WF_vars(IdleTimeout)

FairSpec == Spec /\ Fairness

-----------------------------------------------------------------------------
FlagsOK == {generating, consuming, queueProcessing, idleTimer, destroying,
            registered, sdkActive} \subseteq BOOLEAN

TypeOK ==
    /\ FlagsOK
    /\ q \in Msgs \cup {None} /\ reader \in Msgs \cup {None}
    /\ messageQueue \in Seq(Msgs)
    /\ subscribers \subseteq Sockets /\ closed \subseteq Sockets
    /\ pc \in [Msgs -> Places]
    /\ via \in [Msgs -> {"direct", "queue"}]
    /\ attach \in [Sockets -> {"none", "loading", "replaying", "attached"}]
    /\ teardown \in {"none", "clear", "strip"}
    /\ consumer \in [Msgs -> ConsumerStates]
    /\ stdin \in [Msgs -> Seq(Msgs)]
    /\ turn \in [Msgs -> Msgs \cup {None}]
    /\ sends \in Nat /\ rank \in [Msgs -> Nat]

\* The session never points at a query nobody reads: as long as this.q names a
\* query, its consume() loop has not returned, whatever interrupts, restarts,
\* clears and teardowns overlapped.  A message pushed to it is not pushed into
\* the void.
CurrentQueryIsConsumed == q # None => consumer[q] \in {"running", "boundary"}

\* Every message that was sent is in exactly one place: in the queue once, in
\* one call of _pushUserMessage, once on the stdin of one query, in one turn, or
\* settled.  Nothing runs twice and nothing disappears without being settled,
\* although three different flags and two callers decide when the queue moves.
MessagesAccountedFor ==
    /\ \A m \in Msgs : pc[m] = "queued" <=> \E i \in DOMAIN messageQueue : messageQueue[i] = m
    /\ \A i, j \in DOMAIN messageQueue : messageQueue[i] = messageQueue[j] => i = j
    /\ \A m \in Msgs : pc[m] = "sent" <=>
            \E n \in Msgs : \E i \in DOMAIN stdin[n] : stdin[n][i] = m
    /\ \A n1, n2 \in Msgs : \A i \in DOMAIN stdin[n1], j \in DOMAIN stdin[n2] :
            stdin[n1][i] = stdin[n2][j] => n1 = n2 /\ i = j
    /\ \A m \in Msgs : pc[m] = "turn" <=> \E n \in Msgs : turn[n] = m
    /\ \A n1, n2 \in Msgs : turn[n1] = turn[n2] /\ turn[n1] # None => n1 = n2

\* While a message waits in the queue, no message sent after it has been started:
\* later messages wait too (or were taken out of the queue).  sendUserText must
\* look at the queue itself for this, because generating is FALSE with a
\* non-empty queue after an interrupt, at a tool boundary and after a crash.
NoOvertaking ==
    \A m1, m2 \in Msgs :
        pc[m1] = "queued" /\ rank[m1] < rank[m2] => pc[m2] \in {"queued", "dropped"}

\* Some step that will call processNextInQueue is still to come: a turn, or a
\* message on its way to one.
Drainer(n) == turn[n] # None \/ stdin[n] # << >> \/ InFlight(n)

\* While the queue is not empty somebody is going to drain it.
QueueHasDrainer == messageQueue # << >> => \E n \in Msgs : Drainer(n)

\* The session says it is generating only while some query is in a turn.
GeneratingMeansTurn == generating => \E n \in Msgs : turn[n] # None

\* Every message that is sent ends: its turn is over, or it was removed, cut off
\* or failed to start.  Nothing waits for ever behind a flag nobody resets.
Final == {"done", "cut", "lost", "dropped", "failed"}
MessagesSettle == \A m \in Msgs : pc[m] # "new" ~> pc[m] \in Final

\* The loop's container has its "sdk" activity source as long as a registered
\* session has a query alive in it: no overlap of starts, idle timers and
\* teardowns lets the container's idle stop fire under a live query.
LiveQueryHoldsContainer ==
    registered /\ (\E n \in Msgs : consumer[n] \in {"running", "boundary"}) => sdkActive

-----------------------------------------------------------------------------
(* The session as a mailbox.                                               *)

Stage(place) ==
    CASE place = "new"                            -> "unsent"
      [] place = "queued"                         -> "waiting"
      [] place \in {"meta", "starting", "sent"}   -> "taken"
      [] place = "turn"                           -> "running"
      [] place = "dropped"                        -> "withdrawn"
      [] place \in {"done", "cut", "lost", "failed"} -> "settled"

stages == [m \in Msgs |-> Stage(pc[m])]

Box == INSTANCE Mailbox WITH stage <- stages, waiting <- messageQueue

\* Every step of the session is a step of the mailbox or none: the line moves from
\* its head only, nobody passes it, no message is begun twice, and what has settled
\* or was withdrawn stays so, with children dying and starts failing at any point.
ImplementsMailbox == Box!Spec

-----------------------------------------------------------------------------
(* What comments and documents of the repository say, which some schedules *)
(* of the code contradict.  QueueHasDrainer and GeneratingMeansTurn join   *)
(* them once children may die or starts may fail.                          *)

\* "When the loop is busy, a message is queued" (docs/api-v1.md): two turns of
\* one loop never run at the same time.
OneTurnAtATime == \A n1, n2 \in Msgs : turn[n1] # None /\ turn[n2] # None => n1 = n2

\* "When the loop is idle, the message becomes the next turn" (docs/api-v1.md):
\* without faults, no message is handed to a query that ends before beginning it.
NoMessageLost == \A m \in Msgs : pc[m] # "lost"

\* "Never interrupt an active generation" (scheduleIdleCleanup): with nobody
\* subscribed, an armed idle timer and a turn do not coexist, since the timer
\* looks at nothing but the subscribers when it runs out.
IdleTimerSparesGenerations ==
    idleTimer /\ subscribers = {} => \A n \in Msgs : turn[n] = None

\* destroy() leaves "no orphaned processes": once it is through, the object has
\* no query and does not keep the loop's container active.
DestroyLeavesNothing == ~registered /\ ~destroying => q = None /\ ~sdkActive

\* "A loop without turn activity for 30 minutes has its sandbox reclaimed"
\* (docs/api-v1.md): once nothing is queued or running and nobody is connected,
\* the session's hold on the container is eventually released, unless the loop is
\* used again.
Quiet == /\ subscribers = {} /\ \A s \in Sockets : attach[s] \in {"none", "attached"}
         /\ messageQueue = << >> /\ \A n \in Msgs : ~Drainer(n)
SandboxReleased == (registered /\ sdkActive /\ Quiet) ~> (~sdkActive \/ ~Quiet)
=============================================================================
