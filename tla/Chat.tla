-------------------------------- MODULE Chat --------------------------------
(***************************************************************************)
(* The chat of one browser tab: the messages the server stores, the frames *)
(* of /ws/chat, the feed of the conversation that is open, the thread      *)
(* panel beside it, and the tab's own sends.                               *)
(*                                                                         *)
(* Conversations are given.  A message is a thread root or a reply to one; *)
(* its text, time and author, but for "mine", are left out.                *)
(***************************************************************************)
EXTENDS Naturals, FiniteSets, SequencesExt

CONSTANTS
    Convs,      \* conversations
    MaxMsgs,    \* messages in all
    MaxFetches, \* fetches under way at a time
    None

VARIABLES
    log,     \* messages: log[i] = [conv, mine, parent], i the id
    read,    \* reads: read[c] is the last message marked read
    deaf,    \* conversations the tab's subscriber is not subscribed to
    wire,    \* ids of the messages on their way to the tab
    conv,    \* the tab: the conversation that is open
    loaded,  \* ... convWithDataRef: whether its messages have been fetched
    feed,    \* ... messages: a sequence of [id, replies]
    root,    \* ... activeThreadRootId
    panel,   \* ... thread: the ids of the replies shown, None while it loads
    unread,  \* ... the number the rail shows for each conversation
    fetches, \* [of, live, ans]: what is fetched, whether its effect still counts
    send     \* the tab's own send: [pc, conv, parent, id]

chat == <<log, read, deaf, wire, conv, loaded, feed, root, panel, unread, fetches, send>>
server == <<log, read, deaf, wire>>
----------------------------------------------------------------------------
Ids == DOMAIN log
RootsOf(c) == {i \in Ids : log[i].conv = c /\ log[i].parent = None}
RepliesTo(i) == {j \in Ids : log[j].parent = i}
NotSending == [pc |-> "idle", conv |-> None, parent |-> None, id |-> None]
Feed(c) == [of |-> c, live |-> TRUE, ans |-> None]
Thread(i) == [of |-> i, live |-> TRUE, ans |-> None]
IsFeed(f) == f.of \in Convs
Marked(c, i) == [read EXCEPT ![c] = IF i > @ THEN i ELSE @]

Init ==
    /\ log = <<>> /\ read = [c \in Convs |-> 0] /\ deaf = {} /\ wire = <<>>
    /\ conv \in Convs /\ loaded = FALSE /\ feed = <<>>
    /\ root = None /\ panel = None
    /\ unread = [c \in Convs |-> 0]
    /\ fetches = {Feed(conv)}
    /\ send = NotSending
----------------------------------------------------------------------------
(***************************************************************************)
(* The server.                                                             *)
(***************************************************************************)
\* postMessage: a reply is to a root of the same conversation; then the
\* message goes to whoever is subscribed.
Stored(c, mine, parent) ==
    /\ Len(log) < MaxMsgs
    /\ parent # None => parent \in RootsOf(c)
    /\ log' = Append(log, [conv |-> c, mine |-> mine, parent |-> parent])
    /\ wire' = IF c \in deaf THEN wire ELSE Append(wire, Len(log) + 1)

OthersPost(c, parent) ==
    /\ Stored(c, FALSE, parent)
    /\ UNCHANGED <<read, deaf, conv, loaded, feed, root, panel, unread, fetches, send>>

\* listMessages: the roots in the order they were posted, each with the number
\* of its replies; and listThread.
Entry(i) == [id |-> i, replies |-> Cardinality(RepliesTo(i))]
Listings(c) ==
    {[k \in DOMAIN ids |-> Entry(ids[k])] : ids \in
        {s \in [1..Cardinality(RootsOf(c)) -> RootsOf(c)] : \A k, l \in DOMAIN s : k < l => s[k] < s[l]}}

Answer(f) ==
    /\ f \in fetches /\ f.ans = None
    /\ \E ans \in IF IsFeed(f) THEN Listings(f.of) ELSE {RepliesTo(f.of)} :
          fetches' = (fetches \ {f}) \union {[f EXCEPT !.ans = <<ans>>]}
    /\ UNCHANGED <<server, conv, loaded, feed, root, panel, unread, send>>

\* The subscription the tab sent arrives.
Subscribe(c) ==
    /\ c \in deaf
    /\ deaf' = deaf \ {c}
    /\ UNCHANGED <<log, read, wire, conv, loaded, feed, root, panel, unread, fetches, send>>
----------------------------------------------------------------------------
(***************************************************************************)
(* The tab.                                                                *)
(***************************************************************************)
\* Every change of the rail unsubscribes from all and subscribes again.
Rail(counts) ==
    /\ unread' = counts
    /\ deaf' = Convs

Cancelled(which) == {[f EXCEPT !.live = @ /\ f \notin which] : f \in fetches}

\* The effect on convId; the thread panel closes, which cancels its fetch.
Switch(c) ==
    /\ c # conv /\ Cardinality(fetches) < MaxFetches
    /\ conv' = c /\ loaded' = FALSE /\ root' = None /\ panel' = None
    /\ fetches' = Cancelled(fetches) \union {Feed(c)}
    /\ UNCHANGED <<server, feed, unread, send>>

OpenThread(i) ==
    /\ i \in {feed[k].id : k \in DOMAIN feed} /\ i # root /\ Cardinality(fetches) < MaxFetches
    /\ root' = i /\ panel' = None
    /\ fetches' = Cancelled({f \in fetches : ~IsFeed(f)}) \union {Thread(i)}
    /\ UNCHANGED <<server, conv, loaded, feed, unread, send>>

SeededArrive(f) ==
    /\ f \in fetches /\ f.ans # None
    /\ fetches' = fetches \ {f}
    /\ IF ~IsFeed(f)
       THEN panel' = f.ans[1] /\ UNCHANGED <<read, deaf, loaded, feed, unread>>
       ELSE /\ feed' = f.ans[1] /\ loaded' = TRUE
            /\ IF f.ans[1] = <<>> THEN UNCHANGED <<read, deaf, unread>>
               ELSE read' = Marked(f.of, Last(f.ans[1]).id) /\ Rail([unread EXCEPT ![f.of] = 0])
            /\ UNCHANGED panel
    /\ UNCHANGED <<log, wire, conv, root, send>>

\* The answer replaces what is shown, and marks the last root read.
Arrive(f) ==
    /\ f \in fetches /\ f.ans # None
    /\ fetches' = fetches \ {f}
    /\ IF ~f.live THEN UNCHANGED <<read, deaf, loaded, feed, unread, panel>>
       ELSE IF ~IsFeed(f)
       THEN panel' = f.ans[1] /\ UNCHANGED <<read, deaf, loaded, feed, unread>>
       ELSE /\ feed' = f.ans[1] /\ loaded' = TRUE
            /\ IF f.ans[1] = <<>> THEN UNCHANGED <<read, deaf, unread>>
               ELSE read' = Marked(f.of, Last(f.ans[1]).id) /\ Rail([unread EXCEPT ![f.of] = 0])
            /\ UNCHANGED panel
    /\ UNCHANGED <<log, wire, conv, root, send>>

\* Once in the feed, however it comes.
Shown(i) == IF \E k \in DOMAIN feed : feed[k].id = i THEN feed
            ELSE Append(feed, [id |-> i, replies |-> 0])
Counted(i) == [k \in DOMAIN feed |-> IF feed[k].id = i THEN [feed[k] EXCEPT !.replies = @ + 1] ELSE feed[k]]

\* onEvent: a root joins the feed; a reply is counted at its root and joins
\* the panel if that thread is open.
Hear ==
    LET i == Head(wire)  m == log[i] IN
    /\ wire # <<>>
    /\ wire' = Tail(wire)
    /\ IF m.conv = conv
       THEN /\ feed' = IF m.parent = None THEN Shown(i) ELSE Counted(m.parent)
            /\ panel' = IF m.parent # None /\ m.parent = root /\ panel # None THEN panel \union {i} ELSE panel
            /\ read' = Marked(conv, i)
            /\ UNCHANGED <<deaf, unread>>
       ELSE /\ IF m.mine THEN UNCHANGED <<deaf, unread>> ELSE Rail([unread EXCEPT ![m.conv] = @ + 1])
            /\ UNCHANGED <<feed, panel, read>>
    /\ UNCHANGED <<log, conv, loaded, root, fetches, send>>
----------------------------------------------------------------------------
(***************************************************************************)
(* The tab's own sends: handleSend and handleThreadSend, one at a time; a  *)
(* failed one is retried or discarded.                                     *)
(***************************************************************************)
Sending(pc) == send.pc = pc

Submit(parent) ==
    /\ Sending("idle")
    /\ parent # None => parent = root /\ panel # None
    /\ send' = [pc |-> "sent", conv |-> conv, parent |-> parent, id |-> None]
    /\ UNCHANGED <<server, conv, loaded, feed, root, panel, unread, fetches>>

Post ==
    /\ Sending("sent")
    /\ Stored(send.conv, TRUE, send.parent)
    /\ send' = [send EXCEPT !.pc = "posted", !.id = Len(log) + 1]
    /\ UNCHANGED <<read, deaf, conv, loaded, feed, root, panel, unread, fetches>>

PostFails ==
    /\ Sending("sent")
    /\ send' = [send EXCEPT !.pc = "failed"]
    /\ UNCHANGED <<server, conv, loaded, feed, root, panel, unread, fetches>>

\* submitRoot and submitReply show what was sent wherever the tab is now.
Confirm ==
    /\ Sending("posted")
    /\ IF send.parent = None
       THEN feed' = Shown(send.id) /\ UNCHANGED panel
       ELSE panel' = (IF panel = None THEN None ELSE panel \union {send.id}) /\ UNCHANGED feed
    /\ send' = NotSending
    /\ UNCHANGED <<server, conv, loaded, root, unread, fetches>>

Retry ==
    /\ Sending("failed")
    /\ send' = [send EXCEPT !.pc = "sent"]
    /\ UNCHANGED <<server, conv, loaded, feed, root, panel, unread, fetches>>

Discard ==
    /\ Sending("failed")
    /\ send' = NotSending
    /\ UNCHANGED <<server, conv, loaded, feed, root, panel, unread, fetches>>

Next ==
    \/ \E c \in Convs, parent \in Ids \union {None} : OthersPost(c, parent)
    \/ \E c \in Convs : Subscribe(c) \/ Switch(c)
    \/ \E f \in fetches : Answer(f) \/ Arrive(f)
    \/ \E i \in Ids : OpenThread(i)
    \/ Hear
    \/ \E parent \in {root, None} : Submit(parent)
    \/ Post \/ PostFails \/ Confirm \/ Retry \/ Discard

Spec == Init /\ [][Next]_chat
----------------------------------------------------------------------------
\* However answers, frames and switches of conversation and thread overlap: a
\* feed that was loaded shows each root once and no other's from another
\* conversation, and an open thread shows no other's reply to another root.
NoStrangers ==
    /\ loaded =>
          /\ \A k, l \in DOMAIN feed : feed[k].id = feed[l].id => k = l
          /\ \A k \in DOMAIN feed : feed[k].id \in RootsOf(conv) \/ log[feed[k].id].mine
    /\ panel # None => \A i \in panel : i \in RepliesTo(root) \/ log[i].mine

\* What one sends goes to the conversation or thread it was sent to.  Fails:
\* the answer arrives after a switch.
OwnMessagesStayHome ==
    /\ loaded => \A k \in DOMAIN feed : feed[k].id \in RootsOf(conv)
    /\ panel # None => panel \subseteq RepliesTo(root)

Quiet == wire = <<>> /\ fetches = {} /\ deaf = {} /\ send = NotSending /\ loaded

\* A tab to which nothing is under way shows all there is.  Fails: an answer
\* replaces what arrived since it was made, and a message between an
\* unsubscription and the subscription after it is not sent.
FeedIsComplete == Quiet => {feed[k].id : k \in DOMAIN feed} = RootsOf(conv)

\* Each root has as many replies as the feed says.  Fails: a reply may be
\* counted by the answer and by its frame, and one that was not sent is not.
RepliesAreCounted ==
    Quiet => \A k \in DOMAIN feed : feed[k].replies = Cardinality(RepliesTo(feed[k].id))

\* The rail's number is what listConversationsForUser would say.  Fails: what
\* the open feed marks read is its last root, whatever the replies are.
UnreadIsTrue ==
    Quiet => \A c \in Convs : unread[c] = Cardinality({i \in Ids : log[i].conv = c /\ i > read[c]})
=============================================================================
