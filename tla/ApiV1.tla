------------------------------- MODULE ApiV1 -------------------------------
(***************************************************************************)
(* The public API of a loop: POST messages answers with the event stream   *)
(* of the turn, an Idempotency-Key lets a client that lost its stream      *)
(* repeat the request, GET events only watches, choices and interrupt act  *)
(* on the running turn.  Streams listen to the session (onMessage), which  *)
(* runs the accepted messages one after the other.                         *)
(***************************************************************************)
EXTENDS Naturals, Sequences, FiniteSets

CONSTANTS
    Posts,         \* requests of POST messages
    Watchers,      \* requests of GET events
    Keys,          \* idempotency keys
    Bodies,        \* message contents
    Choices,       \* tool uses that need a decision
    None,
    Fallible,      \* the messages whose start may fail: "direct", "queued"
    MaxEvents,     \* bound on the events of a key's record
    MayDisconnect  \* whether a client may close its stream before it ends

ASSUME ApiV1Assumption ==
    /\ IsFiniteSet(Posts)
    /\ None \notin Posts \union Keys \union Bodies
    /\ Fallible \subseteq {"direct", "queued"}
    /\ MaxEvents \in Nat /\ MayDisconnect \in BOOLEAN

VARIABLES
    waiting,   \* the messages the session has yet to run, as [of, how]
    turn,      \* the post whose turn runs, or None
    begun,     \* its init arrived: the session is busy
    stopping,  \* it was interrupted
    ended,     \* history: the posts whose turn ended
    req,       \* req[c]: [pc, key, replay, read, over]
    sent,      \* history: the posts that handed a message to the session
    idem,      \* idem[k]: the idempotency record of a key
    tracked,   \* runtime.currentTurnId: a post, or None
    choice,    \* choice[x]: what became of a choice
    accepted   \* accepted[x]: the answer the API acknowledged

session == <<waiting, turn, begun, stopping, ended>>
vars == <<session, req, sent, idem, tracked, choice, accepted>>
----------------------------------------------------------------------------
SeededTerminal == {"done", "interrupted"}

Terminal == {"done", "interrupted", "error"}

Requests == Posts \union Watchers
Fresh == [pc |-> "new", key |-> None, read |-> 0, over |-> FALSE]
NoRecord == [body |-> None, events |-> <<>>, done |-> FALSE]

Init ==
    /\ waiting = <<>> /\ turn = None /\ begun = FALSE
    /\ stopping = FALSE /\ ended = {} /\ sent = {} /\ tracked = None
    /\ req = [c \in Requests |-> Fresh]
    /\ idem = [k \in Keys |-> NoRecord]
    /\ choice = [x \in Choices |-> "none"]
    /\ accepted = [x \in Choices |-> "none"]

\* isBusy: a turn that has begun, or messages in the queue.
Busy == begun \/ \E i \in 1..Len(waiting) : waiting[i].how = "queued"

\* emit: the event goes into the record of the key, and to the client.
Emitted(k, ev) == IF k = None THEN idem ELSE [idem EXCEPT ![k].events = Append(@, ev)]

\* What the session reports reaches every stream that listens.  A terminal
\* event ends the streams of the posts, once it is written out.
Broadcast(ev) ==
    LET hears == {c \in Requests : req[c].pc = "streaming"}
        over(c) == c \in hears /\ ev \in Terminal
        copies(k) == Cardinality({c \in hears \intersect Posts : req[c].key = k})
    IN
    /\ req' = [c \in Requests |->
                 [req[c] EXCEPT !.over = @ \/ over(c),
                                !.pc = IF over(c) /\ c \in Posts THEN "ending" ELSE @]]
    /\ idem' = [k \in Keys |->
                  [idem[k] EXCEPT !.events = @ \o [i \in 1..copies(k) |-> ev]]]
----------------------------------------------------------------------------
(***************************************************************************)
(* POST messages.                                                          *)
(***************************************************************************)
\* The record of the key is looked up and created, and the first event of
\* the answer recorded, in one step: queued or started, or else the replay
\* of what another request with the key has recorded.
SeededPost(c, k, b) ==
    LET finished == k # None /\ idem[k].done
        first == IF Busy THEN "queued" ELSE "started"
    IN
    /\ req[c].pc = "new"
    /\ req' = [req EXCEPT ![c].key = k,
                          ![c].pc = IF finished THEN "replay" ELSE IF Busy THEN "queued" ELSE "send"]
    /\ idem' = IF k = None \/ finished THEN idem
               ELSE [idem EXCEPT ![k].body = b, ![k].events = Append(@, first)]
    /\ tracked' = IF finished \/ Busy THEN tracked ELSE c
    /\ UNCHANGED <<session, sent, choice, accepted>>

Post(c, k, b) ==
    LET known == k # None /\ idem[k].body # None
        replay == known /\ idem[k].events # <<>>
        first == IF Busy THEN "queued" ELSE "started"
    IN
    /\ req[c].pc = "new"
    /\ IF known /\ idem[k].body # b
       THEN req' = [req EXCEPT ![c].pc = "refused"] /\ UNCHANGED <<idem, tracked>>
       ELSE /\ req' = [req EXCEPT ![c].key = k,
                         ![c].pc = IF replay THEN "replay" ELSE IF Busy THEN "queued" ELSE "send"]
            /\ idem' = IF k = None \/ replay THEN idem
                       ELSE [idem EXCEPT ![k].body = b, ![k].events = Append(@, first)]
            /\ tracked' = IF replay \/ Busy THEN tracked ELSE c
    /\ UNCHANGED <<session, sent, choice, accepted>>

\* The queued event is written: started follows, whatever the session runs.
Queued(c) ==
    /\ req[c].pc = "queued"
    /\ req' = [req EXCEPT ![c].pc = "send"]
    /\ idem' = Emitted(req[c].key, "started")
    /\ tracked' = c
    /\ UNCHANGED <<session, sent, choice, accepted>>

\* Listen, then sendUserText: behind the running turn, or at once.
Send(c) ==
    /\ req[c].pc = "send"
    /\ req' = [req EXCEPT ![c].pc = "streaming"]
    /\ waiting' = Append(waiting, [of |-> c, how |-> IF Busy THEN "queued" ELSE "direct"])
    /\ sent' = sent \union {c}
    /\ UNCHANGED <<turn, begun, stopping, ended, idem, tracked, choice, accepted>>

\* One recorded event after the other, those that arrive meanwhile included.
Replay(c) ==
    LET rec == idem[req[c].key] IN
    /\ req[c].pc = "replay" /\ req[c].read < Len(rec.events)
    /\ req' = [req EXCEPT ![c].read = @ + 1,
                          ![c].over = @ \/ rec.events[req[c].read + 1] \in Terminal]
    /\ UNCHANGED <<session, sent, idem, tracked, choice, accepted>>

\* The record is finished: so is the answer.  Else go on with the live events.
Replayed(c) ==
    LET rec == idem[req[c].key] IN
    /\ req[c].pc = "replay" /\ req[c].read = Len(rec.events)
    /\ req' = [req EXCEPT ![c].pc = IF rec.done THEN "closed" ELSE "streaming"]
    /\ UNCHANGED <<session, sent, idem, tracked, choice, accepted>>

\* finishStream: the last event is written, or the client has gone.  The
\* record counts as finished either way.
FinishStream(c) ==
    /\ req[c].pc \in {"ending"} \union (IF MayDisconnect THEN {"streaming"} ELSE {})
    /\ req' = [req EXCEPT ![c].pc = IF @ = "ending" THEN "closed" ELSE "gone"]
    /\ idem' = IF req[c].key = None THEN idem ELSE [idem EXCEPT ![req[c].key].done = TRUE]
    /\ UNCHANGED <<session, sent, tracked, choice, accepted>>

\* GET events only listens.
Watch(c) ==
    /\ req[c].pc = "new"
    /\ req' = [req EXCEPT ![c].pc = "streaming"]
    /\ UNCHANGED <<session, sent, idem, tracked, choice, accepted>>

Unwatch(c) ==
    /\ req[c].pc = "streaming"
    /\ req' = [req EXCEPT ![c].pc = "gone"]
    /\ UNCHANGED <<session, sent, idem, tracked, choice, accepted>>
----------------------------------------------------------------------------
(***************************************************************************)
(* The session runs one message after the other.                           *)
(***************************************************************************)
Begin ==
    /\ turn = None /\ waiting # <<>>
    /\ turn' = Head(waiting).of /\ waiting' = Tail(waiting)
    /\ begun' = TRUE /\ stopping' = FALSE
    /\ UNCHANGED <<ended, req, sent, idem, tracked, choice, accepted>>

\* The start of a message fails.  sendUserText reports it; a message taken
\* from the queue is only logged.
StartFails ==
    /\ turn = None /\ waiting # <<>>
    /\ Head(waiting).how \in Fallible
    /\ waiting' = Tail(waiting)
    /\ ended' = ended \union {Head(waiting).of}
    /\ IF Head(waiting).how = "direct" THEN Broadcast("error") ELSE UNCHANGED <<req, idem>>
    /\ UNCHANGED <<turn, begun, stopping, sent, tracked, choice, accepted>>

Pending == {x \in Choices : choice[x] = "pending"}

\* The end of a turn, good or bad.  A result also forgets the tracked turn,
\* if any stream maps it.
End(e) ==
    /\ turn # None /\ Pending = {}
    /\ Broadcast(e)
    /\ ended' = ended \union {turn}
    /\ turn' = None /\ begun' = FALSE
    /\ tracked' = IF e = "done" /\ \E c \in Requests : req[c].pc = "streaming" THEN None ELSE tracked
    /\ UNCHANGED <<waiting, stopping, sent, choice, accepted>>

\* POST interrupt: the session is told; the streams are, if a turn is tracked.
Interrupt ==
    /\ turn # None /\ ~stopping
    /\ stopping' = TRUE /\ begun' = FALSE
    /\ choice' = [x \in Choices |-> IF x \in Pending THEN "aborted" ELSE choice[x]]
    /\ IF tracked # None THEN Broadcast("interrupted") ELSE UNCHANGED <<req, idem>>
    /\ UNCHANGED <<waiting, turn, ended, sent, tracked, accepted>>
----------------------------------------------------------------------------
(***************************************************************************)
(* Choices: canUseTool waits for the first of an answer, a timeout and the *)
(* abort of its turn.                                                      *)
(***************************************************************************)
Ask(x) ==
    /\ turn # None /\ ~stopping /\ choice[x] = "none" /\ Pending = {}
    /\ \A k \in Keys : Len(idem[k].events) < MaxEvents
    /\ choice' = [choice EXCEPT ![x] = "pending"]
    /\ Broadcast("requires_choice")
    /\ UNCHANGED <<session, sent, tracked, accepted>>

TimeOut(x) ==
    /\ choice[x] = "pending"
    /\ choice' = [choice EXCEPT ![x] = "expired"]
    /\ UNCHANGED <<session, req, sent, idem, tracked, accepted>>

\* POST choices: 404 unless the session still waits for it, else it settles.
SeededDecide(x, yes) ==
    /\ choice[x] # "none" /\ accepted[x] = "none"
    /\ choice' = [choice EXCEPT ![x] = IF @ = "pending" THEN yes ELSE @]
    /\ accepted' = [accepted EXCEPT ![x] = yes]
    /\ Broadcast("choice_resolved")
    /\ UNCHANGED <<session, sent, tracked>>

Decide(x, yes) ==
    /\ choice[x] = "pending"
    /\ choice' = [choice EXCEPT ![x] = yes]
    /\ accepted' = [accepted EXCEPT ![x] = yes]
    /\ Broadcast("choice_resolved")
    /\ UNCHANGED <<session, sent, tracked>>

Serve(c) == Queued(c) \/ Send(c) \/ Replay(c) \/ Replayed(c)

Next ==
    \/ \E c \in Posts : Serve(c) \/ FinishStream(c)
    \/ \E c \in Posts, k \in Keys \union {None}, b \in Bodies : Post(c, k, b)
    \/ \E c \in Watchers : Watch(c) \/ Unwatch(c)
    \/ Begin \/ StartFails \/ Interrupt \/ \E e \in {"done", "error"} : End(e)
    \/ \E x \in Choices : Ask(x) \/ TimeOut(x) \/ \E yes \in {"allow", "deny"} : Decide(x, yes)

Spec == Init /\ [][Next]_vars

\* Handlers go on and streams are written out; the SDK runs what it was given
\* and ends what it runs; a choice nobody answers times out.
FairSpec ==
    /\ Spec
    /\ \A c \in Posts : WF_vars(Serve(c)) /\ WF_vars(FinishStream(c) /\ req[c].pc = "ending")
    /\ WF_vars(Begin) /\ WF_vars(\E e \in {"done", "error"} : End(e))
    /\ \A x \in Choices : WF_vars(TimeOut(x))
----------------------------------------------------------------------------
\* Requests with one idempotency key hand at most one message to the
\* session, however they overlap.
SentOnce ==
    \A c, d \in sent : req[c].key = req[d].key /\ req[c].key # None => c = d

\* An answer that the API acknowledged is the one the tool use got.
AcknowledgedAnswerCounts == \A x \in Choices : accepted[x] # "none" => choice[x] = accepted[x]

\* The stream of a request that handed its message to the session does not
\* stay open for ever, whatever becomes of the turn.
StreamsEnd == \A c \in Posts : c \in sent ~> req[c].pc \in {"closed", "gone"}

\* The stream of a POST ends with the end of the turn of its own message.
StreamEndsWithItsTurn ==
    \A c \in sent : req[c].pc = "closed" => c \in ended \/ (turn = c /\ stopping)

\* A client that lost its stream and repeats the request with the same key
\* gets the events up to the end of the turn.
RepeatedRequestIsComplete == \A c \in Posts : req[c].pc = "closed" => req[c].over

\* Neither does the stream of a repeated request.
RepeatedStreamsEnd == \A c \in Posts : req[c].pc = "replay" ~> req[c].pc \in {"closed", "gone"}
============================================================================
