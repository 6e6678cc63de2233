------------------------------ MODULE Viewers ------------------------------
(***************************************************************************)
(* What the browsers watching a loop show.  LoopSession.attach registers a *)
(* websocket, replays the history to it and goes live; broadcast feeds     *)
(* every subscriber meanwhile.  In the tab, useLoopRuntime buffers frames  *)
(* until history_end, drops what it has seen and derives the running flag  *)
(* and the permission prompt.  The turns themselves are LoopSession's; here *)
(* they are the source of what is broadcast.  A tab that reconnects starts *)
(* from nothing, so a socket stands for one connection of one tab.         *)
(***************************************************************************)
EXTENDS Naturals, Sequences, FiniteSets, Functions

CONSTANTS
    Sockets,
    Writers,        \* the connections of the driver, who alone may write
    Prompts,        \* tool uses that need the user's permission
    None,
    MaxRecords,     \* bound on the history
    MaxSends,       \* bound on the messages the tabs send
    MaxClears,      \* bound on the times the context is cleared
    ManyPrompts,    \* whether two prompts may be open at once
    PostMayFail     \* whether a POST of a tab may be refused or get lost

ASSUME ViewersAssumption ==
    /\ Writers \subseteq Sockets /\ MaxRecords \in Nat /\ MaxSends \in Nat /\ MaxClears \in Nat
    /\ {ManyPrompts, PostMayFail} \subseteq BOOLEAN

VARIABLES
    history,     \* the session's records: what replay sends
    turn,        \* [on, streamed, generating]: the SDK query's turn
    inputs,      \* messages pushed to the SDK whose turn has not begun
    queued,      \* messages waiting in messageQueue
    pending,     \* pendingPermissions
    asked,       \* the prompts ever raised
    sub,         \* sub[s]: "none", "pending" or "live"
    held,        \* held[s]: SubscriberState.pending, what broadcast kept back
    at,          \* at[s]: where attach(s) awaits
    sock,        \* sock[s]: "new", "open" or "closed"
    wire,        \* wire[s]: frames on their way to the tab
    tab,         \* tab[s]: the state of useLoopRuntime
    sends,       \* messages sent so far
    posts        \* POSTs under way

server == <<history, turn, inputs, queued, pending, asked>>
joins == <<sub, held, at, sock>>
vars == <<server, joins, wire, tab, sends, posts>>
----------------------------------------------------------------------------
\* A record without a uuid (error, clear-boundary, the result marker) has
\* nothing for the tab to recognise it by.
Record(kind, n) == [kind |-> kind, id |-> n]
Shown == {"message", "note", "boundary"}
End == [kind |-> "end", id |-> 0]
SyntheticInit == [kind |-> "synthetic", id |-> 0]
Start(n) == [kind |-> "start", id |-> n]
Prompt(p) == [kind |-> "prompt", id |-> p]

FreshTab == [loading |-> TRUE, buf |-> <<>>, shown |-> <<>>, seen |-> {},
             running |-> FALSE, prompt |-> None]
NoTurn == [on |-> FALSE, streamed |-> FALSE, generating |-> FALSE]

Init ==
    /\ history = <<>> /\ turn = NoTurn /\ inputs = 0 /\ queued = 0
    /\ pending = {} /\ asked = {}
    /\ sub = [s \in Sockets |-> "none"] /\ held = [s \in Sockets |-> <<>>]
    /\ at = [s \in Sockets |-> "none"] /\ sock = [s \in Sockets |-> "new"]
    /\ wire = [s \in Sockets |-> <<>>] /\ tab = [s \in Sockets |-> FreshTab]
    /\ sends = 0 /\ posts = 0

\* broadcast: what is being replayed to keeps it for later, the rest get it.
Broadcast(frames) ==
    /\ held' = [s \in Sockets |-> IF sub[s] = "pending" THEN held[s] \o frames ELSE held[s]]
    /\ wire' = [s \in Sockets |-> IF sub[s] = "live" /\ sock[s] = "open"
                                  THEN wire[s] \o frames ELSE wire[s]]

\* history.push and broadcast of new records, in one synchronous step.
Push(kinds) ==
    LET recs == [i \in 1..Len(kinds) |-> Record(kinds[i], Len(history) + i)] IN
    /\ Len(history) + Len(kinds) <= MaxRecords
    /\ history' = history \o recs
    /\ Broadcast(recs)
----------------------------------------------------------------------------
(***************************************************************************)
(* The session's turns.                                                    *)
(***************************************************************************)
\* sendUserText: queued while busy, pushed otherwise.
Arrive ==
    LET busy == turn.generating \/ queued > 0 IN
    /\ posts > 0
    /\ posts' = posts - 1
    /\ IF busy
       THEN queued' = queued + 1 /\ UNCHANGED <<history, inputs, held, wire>>
       ELSE Push(<<"message">>) /\ inputs' = inputs + 1 /\ UNCHANGED queued
    /\ UNCHANGED <<turn, pending, asked, sub, at, sock, tab, sends>>

\* The request goes with its tab, or it fails and the tab ignores that.
Lost ==
    /\ posts > 0 /\ (PostMayFail \/ \A s \in Writers : sock[s] # "open")
    /\ posts' = posts - 1
    /\ UNCHANGED <<server, joins, wire, tab, sends>>

Begin ==
    /\ inputs > 0 /\ ~turn.on
    /\ inputs' = inputs - 1
    /\ turn' = [on |-> TRUE, streamed |-> FALSE, generating |-> TRUE]
    /\ Push(<<"init">>)
    /\ UNCHANGED <<queued, pending, asked, sub, at, sock, tab, sends, posts>>

\* message_start is live only: neither recorded nor replayed.
Stream ==
    /\ turn.on /\ turn.generating /\ ~turn.streamed
    /\ turn' = [turn EXCEPT !.streamed = TRUE]
    /\ Broadcast(<<Start(Len(history))>>)
    /\ UNCHANGED <<history, inputs, queued, pending, asked, sub, at, sock, tab, sends, posts>>

Say ==
    /\ turn.on /\ turn.streamed /\ turn.generating /\ pending = {}
    /\ Push(<<"message">>)
    /\ UNCHANGED <<turn, inputs, queued, pending, asked, sub, at, sock, tab, sends, posts>>

\* The turn's result; processNextInQueue pushes the next queued message.
Result ==
    /\ turn.on /\ pending = {}
    /\ turn' = NoTurn
    /\ IF queued > 0
       THEN Push(<<"message", "result">>) /\ queued' = queued - 1 /\ inputs' = inputs + 1
       ELSE Push(<<"result">>) /\ UNCHANGED <<queued, inputs>>
    /\ UNCHANGED <<pending, asked, sub, at, sock, tab, sends, posts>>

\* consume's catch and finally: the error and a result marker.  (That the
\* queue is left behind by a failure is LoopSession's subject.)
Fail ==
    /\ turn.on /\ queued = 0
    /\ turn' = NoTurn
    /\ pending' = {}
    /\ Push(<<"note", "marker">>)
    /\ UNCHANGED <<inputs, queued, asked, sub, at, sock, tab, sends, posts>>

\* canUseTool: the prompt is broadcast and waits for an answer.
Ask(p) ==
    /\ turn.on /\ turn.generating /\ p \notin asked
    /\ ManyPrompts \/ pending = {}
    /\ pending' = pending \union {p} /\ asked' = asked \union {p}
    /\ Broadcast(<<Prompt(p)>>)
    /\ UNCHANGED <<history, turn, inputs, queued, sub, at, sock, tab, sends, posts>>

TimeOut(p) ==
    /\ p \in pending
    /\ pending' = pending \ {p}
    /\ UNCHANGED <<history, turn, inputs, queued, asked, joins, wire, tab, sends, posts>>
----------------------------------------------------------------------------
(***************************************************************************)
(* attach and detach.                                                      *)
(***************************************************************************)
Open(s) ==
    /\ sock[s] = "new"
    /\ sock' = [sock EXCEPT ![s] = "open"]
    /\ at' = [at EXCEPT ![s] = "history"]
    /\ UNCHANGED <<server, sub, held, wire, tab, sends, posts>>

\* historyLoaded resolved: registered, whether or not the socket still lives.
Register(s) ==
    /\ at[s] = "history"
    /\ sub' = [sub EXCEPT ![s] = "pending"]
    /\ held' = [held EXCEPT ![s] = <<>>]
    /\ at' = [at EXCEPT ![s] = "provider"]
    /\ UNCHANGED <<server, sock, wire, tab, sends, posts>>

Deliver(s, frames) ==
    wire' = [wire EXCEPT ![s] = IF sock[s] = "open" THEN @ \o frames ELSE @]

\* The provider was sent: the history, then what broadcast held back.
Replay(s) ==
    /\ at[s] = "provider"
    /\ Deliver(s, history \o held[s])
    /\ held' = [held EXCEPT ![s] = <<>>]
    /\ sub' = [sub EXCEPT ![s] = IF @ = "pending" THEN "live" ELSE @]
    /\ at' = [at EXCEPT ![s] = "tail"]
    /\ UNCHANGED <<server, sock, tab, sends, posts>>

\* The prompts P, one frame each; in which order does not matter.
PromptFrames(P) ==
    {[i \in 1..Cardinality(P) |-> Prompt(q[i])] : q \in Bijection(1..Cardinality(P), P)}

\* After the metadata is read: a running turn is announced at once, else the
\* slash commands are collected first.
SeededTailStep(s) ==
    /\ at[s] = "tail"
    /\ Deliver(s, <<End>>)
    /\ at' = [at EXCEPT ![s] = "done"]
    /\ UNCHANGED <<server, sub, held, sock, tab, sends, posts>>

TailStep(s) ==
    /\ at[s] = "tail"
    /\ IF turn.generating
       THEN /\ \E frames \in PromptFrames(pending) : Deliver(s, <<End, SyntheticInit>> \o frames)
            /\ at' = [at EXCEPT ![s] = "done"]
       ELSE at' = [at EXCEPT ![s] = "commands"] /\ UNCHANGED wire
    /\ UNCHANGED <<server, sub, held, sock, tab, sends, posts>>

Commands(s) ==
    /\ at[s] = "commands"
    /\ \E frames \in PromptFrames(pending) : Deliver(s, <<End>> \o frames)
    /\ at' = [at EXCEPT ![s] = "done"]
    /\ UNCHANGED <<server, sub, held, sock, tab, sends, posts>>

\* The socket closes: detach, and the frames under way are gone.
Close(s) ==
    /\ sock[s] = "open"
    /\ sock' = [sock EXCEPT ![s] = "closed"]
    /\ sub' = [sub EXCEPT ![s] = "none"]
    /\ held' = [held EXCEPT ![s] = <<>>]
    /\ wire' = [wire EXCEPT ![s] = <<>>]
    /\ tab' = [tab EXCEPT ![s] = FreshTab]
    /\ UNCHANGED <<server, at, sends, posts>>
----------------------------------------------------------------------------
(***************************************************************************)
(* The tab.                                                                *)
(***************************************************************************)
\* dispatchMsg.  Replayed frames show what they carry and leave the running
\* flag alone.
SeededDispatch(t, f) ==
    LET new == [t EXCEPT !.shown = IF f.kind \in Shown THEN Append(@, f) ELSE @,
                         !.prompt = IF f.kind = "prompt" THEN f.id ELSE @] IN
    IF t.loading THEN new
    ELSE IF f.kind \in {"init", "synthetic", "start"} THEN [new EXCEPT !.running = TRUE]
    ELSE IF f.kind \in {"result", "marker", "note"} THEN [new EXCEPT !.running = FALSE]
    ELSE new

Dispatch(t, f) ==
    LET uuid == f.kind \in {"message", "init", "result"}
        new == [t EXCEPT !.seen = IF uuid THEN @ \union {f.id} ELSE @,
                         !.shown = IF f.kind \in Shown THEN Append(@, f) ELSE @,
                         !.prompt = IF f.kind = "prompt" THEN f.id ELSE @]
    IN
    IF uuid /\ f.id \in t.seen THEN t
    ELSE IF t.loading THEN new
    ELSE IF f.kind \in {"init", "synthetic", "start"} THEN [new EXCEPT !.running = TRUE]
    ELSE IF f.kind \in {"result", "marker", "note"} THEN [new EXCEPT !.running = FALSE]
    ELSE new

\* A stream that began and no result after it: the turn is still going on.
Unfinished(buf) ==
    \E i \in 1..Len(buf) :
        /\ buf[i].kind = "start"
        /\ \A j \in i..Len(buf) : buf[j].kind \notin {"result", "marker"}

\* The buffered frames, dispatched one after the other.
DispatchAll(t, buf) ==
    LET after[i \in 0..Len(buf)] == IF i = 0 THEN t ELSE Dispatch(after[i-1], buf[i])
    IN after[Len(buf)]

Receive(s) ==
    LET f == Head(wire[s])  t == tab[s] IN
    /\ wire[s] # <<>>
    /\ wire' = [wire EXCEPT ![s] = Tail(@)]
    /\ tab' = [tab EXCEPT ![s] =
                 IF ~t.loading THEN Dispatch(t, f)
                 ELSE IF f.kind # "end" THEN [t EXCEPT !.buf = Append(@, f)]
                 ELSE [DispatchAll(t, t.buf) EXCEPT !.loading = FALSE, !.buf = <<>>,
                                                    !.running = Unfinished(t.buf)]]
    /\ UNCHANGED <<server, joins, sends, posts>>

\* enqueueMessage, onNew: the tab shows a running turn before the server has
\* heard of the message.
Send(s) ==
    /\ s \in Writers /\ sock[s] = "open" /\ ~tab[s].loading
    /\ sends < MaxSends
    /\ sends' = sends + 1 /\ posts' = posts + 1
    /\ tab' = [tab EXCEPT ![s].running = TRUE]
    /\ UNCHANGED <<server, joins, wire>>

\* answerPermission: the prompt goes; the first answer counts.
Answer(s) ==
    /\ s \in Writers /\ sock[s] = "open" /\ tab[s].prompt # None
    /\ tab' = [tab EXCEPT ![s].prompt = None]
    /\ pending' = pending \ {tab[s].prompt}
    /\ UNCHANGED <<history, turn, inputs, queued, asked, joins, wire, sends, posts>>

\* onCancel: the session is no longer generating, the query's prompts are
\* aborted and its result is still to come.
Cancel(s) ==
    /\ s \in Writers /\ sock[s] = "open" /\ tab[s].running /\ turn.on
    /\ tab' = [tab EXCEPT ![s].running = FALSE]
    /\ turn' = [turn EXCEPT !.generating = FALSE]
    /\ pending' = {}
    /\ UNCHANGED <<history, inputs, queued, asked, joins, wire, sends, posts>>

\* clear: the query is interrupted and a boundary is recorded; the result of
\* the interrupted turn is still to come.
Clear(s) ==
    /\ s \in Writers /\ sock[s] = "open" /\ ~tab[s].loading
    /\ Cardinality({i \in 1..Len(history) : history[i].kind = "boundary"}) < MaxClears
    /\ pending' = {}
    /\ Push(<<"boundary">>)
    /\ UNCHANGED <<turn, inputs, queued, asked, sub, at, sock, tab, sends, posts>>

Next ==
    \/ Arrive \/ Lost \/ Begin \/ Stream \/ Say \/ Result \/ Fail
    \/ \E p \in Prompts : Ask(p) \/ TimeOut(p)
    \/ \E s \in Sockets : Open(s) \/ Register(s) \/ Replay(s) \/ TailStep(s) \/ Commands(s)
                          \/ Close(s) \/ Receive(s) \/ Send(s) \/ Answer(s) \/ Cancel(s)
                          \/ Clear(s)

Spec == Init /\ [][Next]_vars
----------------------------------------------------------------------------
Settled(s) == sock[s] = "open" /\ at[s] = "done" /\ ~tab[s].loading /\ wire[s] = <<>>
Places(seq, kinds) == {i \in 1..Len(seq) : seq[i].kind \in kinds}

\* seq shows the history's records of these kinds: each one, once, and in the
\* order of the history, in which ids increase.
ShowsOnce(seq, kinds) ==
    /\ {seq[i] : i \in Places(seq, kinds)} = {history[i] : i \in Places(history, kinds)}
    /\ \A i, j \in Places(seq, kinds) : i < j => seq[i].id < seq[j].id

\* A tab that has caught up shows every message of the conversation, once
\* and in order, whatever was said while attach replayed the history to it.
EveryMessageShownOnce == \A s \in Sockets : Settled(s) => ShowsOnce(tab[s].shown, {"message"})

\* A tab that has caught up shows a running turn if the SDK streams one, and
\* shows none once nothing runs or waits: no spinner is missing or stuck.
SpinnerIsTrue ==
    \A s \in Sockets : Settled(s) =>
        /\ turn.on /\ turn.generating /\ turn.streamed => tab[s].running
        /\ ~turn.on /\ inputs + queued + posts = 0 => ~tab[s].running

\* A permission the SDK waits for is on the screen of every tab that has
\* caught up, those that attached after it was raised included.
PromptOnScreen ==
    pending # {} => \A s \in Sockets : Settled(s) => tab[s].prompt \in pending

\* Errors and clear markers are shown once, too.
NotesShownOnce ==
    \A s \in Sockets : Settled(s) => ShowsOnce(tab[s].shown, {"note", "boundary"})

\* Once every socket is closed and no attach runs, nobody is subscribed: the
\* idle timer can start.
NoGhosts ==
    (\A s \in Sockets : sock[s] = "closed" /\ at[s] \in {"none", "done"}) =>
        \A s \in Sockets : sub[s] = "none"
============================================================================
