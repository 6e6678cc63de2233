---------------------------- MODULE ApiV1_proofs ----------------------------
(***************************************************************************)
(* Theorems about ApiV1, for any requests, keys, contents and choices.     *)
(***************************************************************************)
EXTENDS ApiV1, FiniteSetTheorems, SequenceTheorems, TLAPS

RequestStates ==
    {"new", "refused", "replay", "queued", "send", "streaming", "ending", "closed", "gone"}
EventNames ==
    {"queued", "started", "requires_choice", "choice_resolved", "done", "error", "interrupted"}
RequestType == [pc : RequestStates, key : Keys \union {None}, read : Nat, over : BOOLEAN]
RecordType == [body : Bodies \union {None}, events : Seq(EventNames), done : BOOLEAN]
MessageType == [of : Posts, how : {"direct", "queued"}]
Answers == {"none", "allow", "deny"}

SessionTyped ==
    /\ waiting \in Seq(MessageType) /\ turn \in Posts \union {None}
    /\ begun \in BOOLEAN /\ stopping \in BOOLEAN /\ ended \subseteq Posts
RequestsTyped == req \in [Requests -> RequestType] /\ sent \subseteq Posts
RecordsTyped == idem \in [Keys -> RecordType] /\ tracked \in Posts \union {None}
ChoicesTyped ==
    /\ choice \in [Choices -> Answers \union {"pending", "expired", "aborted"}]
    /\ accepted \in [Choices -> Answers]

TypeOK == SessionTyped /\ RequestsTyped /\ RecordsTyped /\ ChoicesTyped

-----------------------------------------------------------------------------
(***************************************************************************)
(* What the operators of the model return.                                 *)
(***************************************************************************)
\* An event put at the end of a record.
LEMMA Appended ==
    ASSUME NEW s \in Seq(EventNames), NEW ev \in EventNames
    PROVE  Append(s, ev) \in Seq(EventNames) /\ Append(s, ev) # <<>>
  BY AppendProperties, EmptySeq

\* An event put into a record several times.
LEMMA Repeated ==
    ASSUME NEW n \in Nat, NEW ev \in EventNames
    PROVE  [i \in 1..n |-> ev] \in Seq(EventNames)
<1>1. [i \in 1..n |-> ev] \in [1..n -> EventNames]
  OBVIOUS
<1> QED
  BY <1>1, SeqDef

LEMMA Longer ==
    ASSUME NEW s \in Seq(EventNames), NEW t \in Seq(EventNames)
    PROVE  s \o t \in Seq(EventNames) /\ (s # <<>> => s \o t # <<>>)
  BY ConcatProperties, ConcatEqualIffEmpty

\* A record whose list of events changes, and a request whose state does.
LEMMA EventsUpdate ==
    ASSUME NEW r \in RecordType, NEW s \in Seq(EventNames)
    PROVE  /\ [r EXCEPT !.events = s] \in RecordType
           /\ [r EXCEPT !.events = s].events = s
           /\ [r EXCEPT !.events = s].body = r.body
  BY DEF RecordType

Told(r, b, p) == [r EXCEPT !.over = b, !.pc = p]

LEMMA RequestUpdate ==
    ASSUME NEW r \in RequestType, NEW b \in BOOLEAN, NEW p \in RequestStates
    PROVE  Told(r, b, p) \in RequestType /\ Told(r, b, p).key = r.key /\ Told(r, b, p).pc = p
  BY DEF RequestType, Told

\* A report of the session adds as many events to a record as streams of its
\* key hear it, and moves nobody but those streams.
LEMMA BroadcastRequests ==
    ASSUME TypeOK, NEW ev \in EventNames, Broadcast(ev)
    PROVE  /\ req' \in [Requests -> RequestType]
           /\ \A c \in Requests :
                 /\ req'[c].key = req[c].key
                 /\ \/ req'[c].pc = req[c].pc
                    \/ req[c].pc = "streaming" /\ req'[c].pc = "ending"
<1> DEFINE Over(c) == c \in {d \in Requests : req[d].pc = "streaming"} /\ ev \in Terminal
           b(c) == req[c].over \/ Over(c)
           p(c) == IF Over(c) /\ c \in Posts THEN "ending" ELSE req[c].pc
<1>1. req' = [c \in Requests |-> Told(req[c], b(c), p(c))]
  BY DEF Broadcast, Told
<1>2. ASSUME NEW c \in Requests
      PROVE  /\ b(c) \in BOOLEAN /\ p(c) \in RequestStates
             /\ p(c) = req[c].pc \/ (req[c].pc = "streaming" /\ p(c) = "ending")
  <2>1. b(c) \in BOOLEAN
    OBVIOUS
  <2>2. req[c].pc \in RequestStates /\ "ending" \in RequestStates
    BY DEF TypeOK, RequestsTyped, RequestType, RequestStates
  <2>3. Over(c) => req[c].pc = "streaming"
    OBVIOUS
  <2> HIDE DEF Over, b
  <2> QED
    BY <2>1, <2>2, <2>3
<1> HIDE DEF b, p
<1>3. ASSUME NEW c \in Requests
      PROVE  /\ req'[c] \in RequestType /\ req'[c].key = req[c].key /\ req'[c].pc = p(c)
  <2>1. req[c] \in RequestType
    BY DEF TypeOK, RequestsTyped
  <2>2. req'[c] = Told(req[c], b(c), p(c))
    BY <1>1
  <2> QED
    BY <1>2, <2>1, <2>2, RequestUpdate
<1> QED
  BY <1>1, <1>2, <1>3

LEMMA BroadcastRecords ==
    ASSUME TypeOK, NEW ev \in EventNames, Broadcast(ev)
    PROVE  /\ idem' \in [Keys -> RecordType]
           /\ \A k \in Keys : /\ idem'[k].body = idem[k].body
                              /\ idem[k].events # <<>> => idem'[k].events # <<>>
<1> DEFINE Hears == {c \in Requests : req[c].pc = "streaming"}
           Copies(k) == Cardinality({c \in Hears \intersect Posts : req[c].key = k})
           More(k) == [i \in 1..Copies(k) |-> ev]
           Events(k) == idem[k].events \o More(k)
<1>1. idem' = [k \in Keys |-> [idem[k] EXCEPT !.events = Events(k)]]
  BY DEF Broadcast
<1>2. ASSUME NEW k \in Keys
      PROVE  Events(k) \in Seq(EventNames) /\ (idem[k].events # <<>> => Events(k) # <<>>)
  <2>1. IsFiniteSet({c \in Hears \intersect Posts : req[c].key = k})
    BY ApiV1Assumption, FS_Subset
  <2>2. Copies(k) \in Nat
    BY <2>1, FS_CardinalityType
  <2> HIDE DEF Copies
  <2>3. More(k) \in Seq(EventNames)
    BY <2>2, Repeated
  <2> HIDE DEF More
  <2>4. idem[k].events \in Seq(EventNames)
    BY DEF TypeOK, RecordsTyped, RecordType
  <2> QED
    BY <2>3, <2>4, Longer
<1> HIDE DEF Events
<1>3. ASSUME NEW k \in Keys
      PROVE  /\ idem'[k] \in RecordType /\ idem'[k].body = idem[k].body
             /\ idem'[k].events = Events(k)
  <2>1. idem[k] \in RecordType
    BY DEF TypeOK, RecordsTyped
  <2>2. idem'[k] = [idem[k] EXCEPT !.events = Events(k)]
    BY <1>1
  <2> QED
    BY <1>2, <2>1, <2>2, EventsUpdate
<1> QED
  BY <1>1, <1>2, <1>3

LEMMA EmittedTyped ==
    ASSUME TypeOK, NEW k \in Keys \union {None}, NEW ev \in EventNames
    PROVE  /\ Emitted(k, ev) \in [Keys -> RecordType]
           /\ \A j \in Keys : /\ Emitted(k, ev)[j].body = idem[j].body
                              /\ idem[j].events # <<>> => Emitted(k, ev)[j].events # <<>>
<1>1. CASE k = None
  BY <1>1 DEF Emitted, TypeOK, RecordsTyped
<1>2. CASE k \in Keys
  <2> DEFINE s == Append(idem[k].events, ev)
  <2>1. idem[k] \in RecordType /\ s \in Seq(EventNames) /\ s # <<>>
    BY <1>2, Appended DEF TypeOK, RecordsTyped, RecordType
  <2>2. Emitted(k, ev) = [idem EXCEPT ![k].events = s]
    BY <1>2, ApiV1Assumption DEF Emitted
  <2> HIDE DEF s
  <2> DEFINE e == Emitted(k, ev)
             row == [idem[k] EXCEPT !.events = s]
  <2>3. row \in RecordType /\ row.body = idem[k].body /\ row.events = s
    BY <2>1, EventsUpdate
  <2>4. e = [idem EXCEPT ![k] = row] /\ idem \in [Keys -> RecordType]
    BY <2>2 DEF TypeOK, RecordsTyped
  <2> HIDE DEF e, row
  <2>5. e \in [Keys -> RecordType] /\ e[k] = row /\ \A j \in Keys : j # k => e[j] = idem[j]
    BY <1>2, <2>3, <2>4
  <2>6. \A j \in Keys : e[j].body = idem[j].body /\ (idem[j].events # <<>> => e[j].events # <<>>)
    BY <2>1, <2>3, <2>5
  <2> QED
    BY <2>5, <2>6 DEF e
<1> QED
  BY <1>1, <1>2

-----------------------------------------------------------------------------
LEMMA TypeInit == Init => TypeOK
<1> SUFFICES ASSUME Init PROVE TypeOK
  OBVIOUS
<1>1. SessionTyped
  BY EmptySeq DEF Init, SessionTyped
<1>2. RequestsTyped
  BY DEF Init, RequestsTyped, RequestType, RequestStates, Fresh
<1>3. RecordsTyped
  BY DEF Init, RecordsTyped, RecordType, NoRecord
<1>4. ChoicesTyped
  BY DEF Init, ChoicesTyped, Answers
<1> QED
  BY <1>1, <1>2, <1>3, <1>4 DEF TypeOK

LEMMA TypeSession == TypeOK /\ [Next]_vars => SessionTyped'
<1> SUFFICES ASSUME TypeOK, [Next]_vars PROVE SessionTyped'
  OBVIOUS
<1>1. ASSUME NEW c \in Posts, Send(c) PROVE SessionTyped'
  <2> DEFINE m == [of |-> c, how |-> IF Busy THEN "queued" ELSE "direct"]
  <2>1. m \in MessageType
    BY DEF MessageType
  <2>2. waiting' = Append(waiting, m)
    BY <1>1 DEF Send
  <2> HIDE DEF m
  <2>3. waiting' \in Seq(MessageType)
    BY <2>1, <2>2, AppendProperties DEF TypeOK, SessionTyped
  <2> QED
    BY <1>1, <2>3 DEF Send, TypeOK, SessionTyped
<1>2. ASSUME waiting # <<>>
      PROVE  Tail(waiting) \in Seq(MessageType) /\ Head(waiting).of \in Posts
  <2>1. Head(waiting) \in MessageType /\ Tail(waiting) \in Seq(MessageType)
    BY <1>2, HeadTailProperties DEF TypeOK, SessionTyped
  <2> QED
    BY <2>1 DEF MessageType
<1>3. CASE Begin
  BY <1>2, <1>3 DEF Begin, TypeOK, SessionTyped
<1>4. CASE StartFails
  BY <1>2, <1>4 DEF StartFails, TypeOK, SessionTyped
<1>5. ASSUME NEW e, End(e) PROVE SessionTyped'
  BY <1>5 DEF End, TypeOK, SessionTyped
<1>6. CASE Interrupt
  BY <1>6 DEF Interrupt, TypeOK, SessionTyped
<1>7. CASE UNCHANGED session
  BY <1>7 DEF session, TypeOK, SessionTyped
<1> QED
  BY <1>1, <1>3, <1>4, <1>5, <1>6, <1>7
     DEF Next, Serve, Post, Queued, Replay, Replayed, FinishStream, Watch, Unwatch, Ask, TimeOut,
         Decide, vars

LEMMA TypeChoices == TypeOK /\ [Next]_vars => ChoicesTyped'
<1> SUFFICES ASSUME TypeOK, [Next]_vars PROVE ChoicesTyped'
  OBVIOUS
<1>1. CASE Interrupt
  BY <1>1 DEF Interrupt, TypeOK, ChoicesTyped
<1>2. ASSUME NEW x \in Choices, Ask(x) \/ TimeOut(x) PROVE ChoicesTyped'
  BY <1>2 DEF Ask, TimeOut, TypeOK, ChoicesTyped
<1>3. ASSUME NEW x \in Choices, NEW yes \in {"allow", "deny"}, Decide(x, yes) PROVE ChoicesTyped'
  BY <1>3 DEF Decide, TypeOK, ChoicesTyped, Answers
<1>4. CASE UNCHANGED <<choice, accepted>>
  BY <1>4 DEF TypeOK, ChoicesTyped
<1> QED
  BY <1>1, <1>2, <1>3, <1>4
     DEF Next, Serve, Queued, Send, Replay, Replayed, FinishStream, Post, Watch, Unwatch, Begin,
         StartFails, End, vars

LEMMA TypeRequests == TypeOK /\ [Next]_vars => RequestsTyped' /\ RecordsTyped'
<1> SUFFICES ASSUME TypeOK, [Next]_vars PROVE RequestsTyped' /\ RecordsTyped'
  OBVIOUS
<1>a. \A c \in Posts : c \in Requests /\ req[c].key \in Keys \union {None}
  BY DEF Requests, TypeOK, RequestsTyped, RequestType
<1>b. \A c \in Watchers : c \in Requests
  BY DEF Requests
<1>1. ASSUME NEW c \in Posts, NEW k \in Keys \union {None}, NEW b \in Bodies, Post(c, k, b)
      PROVE  RequestsTyped' /\ RecordsTyped'
  <2>1. RequestsTyped'
    BY <1>1, <1>a DEF Post, TypeOK, RequestsTyped, RequestType, RequestStates
  <2>2. CASE idem' = idem
    BY <1>1, <2>1, <2>2 DEF Post, TypeOK, RecordsTyped
  <2>3. CASE idem' # idem
    <3> DEFINE ev == IF Busy THEN "queued" ELSE "started"
               s == Append(idem[k].events, ev)
    <3>1. k \in Keys /\ idem' = [idem EXCEPT ![k].body = b, ![k].events = s]
      BY <1>1, <2>3 DEF Post
    <3>2. s \in Seq(EventNames)
      BY <3>1, Appended DEF TypeOK, RecordsTyped, RecordType
    <3> HIDE DEF s
    <3>3. idem' \in [Keys -> RecordType]
      BY <3>1, <3>2 DEF TypeOK, RecordsTyped, RecordType
    <3> QED
      BY <1>1, <2>1, <3>3 DEF Post, TypeOK, RecordsTyped
  <2> QED
    BY <2>2, <2>3
<1>2. ASSUME NEW c \in Posts, Queued(c) PROVE RequestsTyped' /\ RecordsTyped'
  <2>1. idem' \in [Keys -> RecordType]
    BY <1>2, <1>a, EmittedTyped DEF Queued, EventNames
  <2> QED
    BY <1>2, <1>a, <2>1 DEF Queued, TypeOK, RequestsTyped, RequestType, RequestStates, RecordsTyped
<1>3. ASSUME NEW c \in Posts, Send(c) PROVE RequestsTyped' /\ RecordsTyped'
  BY <1>3, <1>a DEF Send, TypeOK, RequestsTyped, RequestType, RequestStates, RecordsTyped
<1>4. ASSUME NEW c \in Posts, Replay(c) PROVE RequestsTyped' /\ RecordsTyped'
  <2> DEFINE b == req[c].over \/ idem[req[c].key].events[req[c].read + 1] \in Terminal
             n == req[c].read + 1
             r == [req[c] EXCEPT !.read = n, !.over = b]
  <2>1. b \in BOOLEAN /\ c \in Requests
    BY <1>a
  <2>2. req' = [req EXCEPT ![c] = r]
    BY <1>4 DEF Replay
  <2> HIDE DEF b
  <2>3. req[c] \in RequestType
    BY <2>1 DEF TypeOK, RequestsTyped
  <2>4. n \in Nat
    BY <2>3 DEF RequestType
  <2> HIDE DEF n
  <2>5. r \in RequestType
    BY <2>1, <2>3, <2>4 DEF RequestType
  <2> HIDE DEF r
  <2>6. RequestsTyped'
    BY <1>4, <2>1, <2>2, <2>5 DEF Replay, TypeOK, RequestsTyped
  <2> QED
    BY <1>4, <2>6 DEF Replay, TypeOK, RecordsTyped
<1>5. ASSUME NEW c \in Posts, Replayed(c) PROVE RequestsTyped' /\ RecordsTyped'
  BY <1>5, <1>a DEF Replayed, TypeOK, RequestsTyped, RequestType, RequestStates, RecordsTyped
<1>6. ASSUME NEW c \in Posts, FinishStream(c) PROVE RequestsTyped' /\ RecordsTyped'
  <2>1. RequestsTyped'
    BY <1>6, <1>a DEF FinishStream, TypeOK, RequestsTyped, RequestType, RequestStates
  <2>2. RecordsTyped'
    BY <1>6, <1>a DEF FinishStream, TypeOK, RecordsTyped, RecordType
  <2> QED
    BY <2>1, <2>2
<1>7. ASSUME NEW c \in Watchers, Watch(c) \/ Unwatch(c) PROVE RequestsTyped' /\ RecordsTyped'
  BY <1>7, <1>b DEF Watch, Unwatch, TypeOK, RequestsTyped, RequestType, RequestStates, RecordsTyped
<1>8. ASSUME NEW ev \in EventNames, Broadcast(ev), sent' = sent, tracked' \in {tracked, None}
      PROVE  RequestsTyped' /\ RecordsTyped'
  BY <1>8, BroadcastRequests, BroadcastRecords DEF TypeOK, RequestsTyped, RecordsTyped
<1>9. CASE UNCHANGED <<req, sent, idem, tracked>>
  BY <1>9 DEF TypeOK, RequestsTyped, RecordsTyped
<1>10. CASE StartFails
  BY <1>8, <1>9, <1>10 DEF StartFails, EventNames
<1>11. ASSUME NEW e \in {"done", "error"}, End(e) PROVE RequestsTyped' /\ RecordsTyped'
  <2>1. e \in EventNames /\ Broadcast(e) /\ sent' = sent /\ tracked' \in {tracked, None}
    BY <1>11 DEF End, EventNames
  <2> QED
    BY <1>8, <2>1
<1>12. CASE Interrupt
  BY <1>8, <1>9, <1>12 DEF Interrupt, EventNames
<1>13. ASSUME NEW x \in Choices, Ask(x) PROVE RequestsTyped' /\ RecordsTyped'
  BY <1>8, <1>13 DEF Ask, session, EventNames
<1>14. ASSUME NEW x \in Choices, NEW yes \in {"allow", "deny"}, Decide(x, yes) PROVE RequestsTyped' /\ RecordsTyped'
  BY <1>8, <1>14 DEF Decide, EventNames
<1>15. CASE Begin \/ (\E x \in Choices : TimeOut(x)) \/ UNCHANGED vars
  BY <1>9, <1>15 DEF Begin, TimeOut, vars
<1> QED
  BY <1>1, <1>2, <1>3, <1>4, <1>5, <1>6, <1>7, <1>10, <1>11, <1>12, <1>13, <1>14, <1>15
     DEF Next, Serve

LEMMA TypeStep == TypeOK /\ [Next]_vars => TypeOK'
  BY TypeSession, TypeRequests, TypeChoices DEF TypeOK

\* Every state of the API is well typed.
THEOREM TypeCorrect == Spec => []TypeOK
<1> QED
  BY TypeInit, TypeStep, PTL DEF Spec

-----------------------------------------------------------------------------
(***************************************************************************)
(* Idempotency.  A request carries a key once it is on its way to hand its *)
(* message over; the record of the key is from then on not empty, so that  *)
(* whoever comes later is answered by a replay.                            *)
(***************************************************************************)
Carries(c) == req[c].pc \in {"queued", "send"} \/ c \in sent

CarriersAreRecorded ==
    \A c \in Posts : Carries(c) /\ req[c].key # None =>
        idem[req[c].key].body # None /\ idem[req[c].key].events # <<>>

OneCarrier ==
    \A c, d \in Posts : Carries(c) /\ Carries(d) /\ req[c].key = req[d].key /\ req[c].key # None => c = d

\* A request that sent is not new.
SentIsOld == \A c \in sent : req[c].pc # "new"

IdemInv == CarriersAreRecorded /\ OneCarrier /\ SentIsOld

\* What every step but Post leaves: nobody starts to carry a key.
Calm ==
    /\ \A c \in Posts : /\ req'[c].key = req[c].key
                        /\ Carries(c)' => Carries(c)
                        /\ req'[c].pc = "new" => req[c].pc = "new"
                        /\ c \in sent' /\ req'[c].pc = "new" => c \in sent
    /\ \A k \in Keys : /\ idem'[k].body = idem[k].body
                       /\ idem[k].events # <<>> => idem'[k].events # <<>>

\* What the proofs below take from the types.
LEMMA Typed ==
    ASSUME TypeOK
    PROVE  /\ req \in [Requests -> RequestType] /\ idem \in [Keys -> RecordType]
           /\ sent \subseteq Posts /\ Posts \subseteq Requests /\ Watchers \subseteq Requests
           /\ \A c \in Posts : req[c].key \in Keys \union {None}
<1>1. req \in [Requests -> RequestType] /\ idem \in [Keys -> RecordType] /\ sent \subseteq Posts
  BY DEF TypeOK, RequestsTyped, RecordsTyped
<1>2. Posts \subseteq Requests /\ Watchers \subseteq Requests
  BY DEF Requests
<1> QED
  BY <1>1, <1>2 DEF RequestType

LEMMA CalmKeepsIdem ==
    ASSUME TypeOK, IdemInv, Calm, sent' \subseteq Posts PROVE IdemInv'
<1>1. CarriersAreRecorded'
  BY Typed DEF CarriersAreRecorded, Calm, IdemInv
<1>2. OneCarrier'
  BY DEF OneCarrier, Calm, IdemInv
<1>3. SentIsOld'
  BY DEF SentIsOld, Calm, IdemInv
<1> QED
  BY <1>1, <1>2, <1>3 DEF IdemInv

LEMMA OthersAreCalm ==
    ASSUME TypeOK, [Next]_vars,
           ~ \E c \in Posts, k \in Keys \union {None}, b \in Bodies : Post(c, k, b)
    PROVE  Calm
<1>1. ASSUME NEW c \in Posts, Queued(c) PROVE Calm
  <2>1. \A k \in Keys : /\ idem'[k].body = idem[k].body
                        /\ idem[k].events # <<>> => idem'[k].events # <<>>
    BY <1>1, Typed, EmittedTyped DEF Queued, EventNames
  <2>2. \A d \in Posts : /\ req'[d].key = req[d].key /\ (Carries(d)' => Carries(d))
                         /\ req'[d].pc = "new" => req[d].pc = "new"
    BY <1>1, Typed DEF Queued, Carries, RequestType
  <2> QED
    BY <1>1, <2>1, <2>2 DEF Calm, Queued
<1>2. ASSUME NEW c \in Posts, Send(c) PROVE Calm
  BY <1>2, Typed DEF Send, Calm, Carries, RequestType
<1>3. ASSUME NEW c \in Posts, Replay(c) PROVE Calm
  <2>1. \A d \in Posts : req'[d].key = req[d].key /\ req'[d].pc = req[d].pc
    BY <1>3, Typed DEF Replay, RequestType
  <2> QED
    BY <1>3, <2>1 DEF Replay, Calm, Carries
<1>4. ASSUME NEW c \in Posts, Replayed(c) PROVE Calm
  <2> DEFINE p == IF idem[req[c].key].done THEN "closed" ELSE "streaming"
  <2>1. req' = [req EXCEPT ![c].pc = p] /\ p \in {"closed", "streaming"}
    BY <1>4 DEF Replayed
  <2> HIDE DEF p
  <2>2. \A d \in Posts : /\ req'[d].key = req[d].key /\ (Carries(d)' => Carries(d))
                         /\ req'[d].pc = "new" => req[d].pc = "new"
    BY <1>4, <2>1, Typed DEF Replayed, Carries, RequestType
  <2> QED
    BY <1>4, <2>2 DEF Replayed, Calm
<1>5. ASSUME NEW c \in Posts, FinishStream(c) PROVE Calm
  <2>1. \A d \in Posts : /\ req'[d].key = req[d].key /\ (Carries(d)' => Carries(d))
                         /\ req'[d].pc = "new" => req[d].pc = "new"
    BY <1>5, Typed DEF FinishStream, Carries, RequestType
  <2>2. \A k \in Keys : idem'[k].body = idem[k].body /\ idem'[k].events = idem[k].events
    BY <1>5, Typed DEF FinishStream, RecordType
  <2> QED
    BY <1>5, <2>1, <2>2 DEF Calm, FinishStream
<1>6. ASSUME NEW c \in Watchers, Watch(c) \/ Unwatch(c) PROVE Calm
  <2>1. \A d \in Posts : /\ req'[d].key = req[d].key /\ (Carries(d)' => Carries(d))
                         /\ req'[d].pc = "new" => req[d].pc = "new"
    BY <1>6, Typed DEF Watch, Unwatch, Carries, RequestType
  <2> QED
    BY <1>6, <2>1 DEF Watch, Unwatch, Calm
<1>7. CASE UNCHANGED <<req, sent, idem>>
  BY <1>7 DEF Calm, Carries
<1>8. ASSUME NEW ev \in EventNames, Broadcast(ev), sent' = sent PROVE Calm
  <2>1. \A d \in Posts : /\ req'[d].key = req[d].key
                         /\ \/ req'[d].pc = req[d].pc
                            \/ req[d].pc = "streaming" /\ req'[d].pc = "ending"
    BY <1>8, Typed, BroadcastRequests
  <2>2. \A k \in Keys : /\ idem'[k].body = idem[k].body
                        /\ idem[k].events # <<>> => idem'[k].events # <<>>
    BY <1>8, BroadcastRecords
  <2> QED
    BY <1>8, <2>1, <2>2 DEF Calm, Carries
<1>9. CASE StartFails
  BY <1>7, <1>8, <1>9 DEF StartFails, EventNames
<1>10. ASSUME NEW e \in {"done", "error"}, End(e) PROVE Calm
  BY <1>8, <1>10 DEF End, EventNames
<1>11. CASE Interrupt
  BY <1>7, <1>8, <1>11 DEF Interrupt, EventNames
<1>12. ASSUME NEW x \in Choices, Ask(x) PROVE Calm
  BY <1>8, <1>12 DEF Ask, EventNames
<1>13. ASSUME NEW x \in Choices, NEW yes \in {"allow", "deny"}, Decide(x, yes) PROVE Calm
  BY <1>8, <1>13 DEF Decide, EventNames
<1>14. CASE Begin \/ (\E x \in Choices : TimeOut(x)) \/ UNCHANGED vars
  BY <1>7, <1>14 DEF Begin, TimeOut, vars
<1> QED
  BY <1>1, <1>2, <1>3, <1>4, <1>5, <1>6, <1>9, <1>10, <1>11, <1>12, <1>13, <1>14 DEF Next, Serve

LEMMA PostKeepsIdem ==
    ASSUME TypeOK, IdemInv, NEW c \in Posts, NEW k \in Keys \union {None}, NEW b \in Bodies, Post(c, k, b)
    PROVE  IdemInv'
<1>1. c \notin sent /\ req[c].pc = "new" /\ b # None /\ sent' = sent
  BY ApiV1Assumption DEF IdemInv, SentIsOld, Post
<1>2. \A d \in Posts : d # c => req'[d] = req[d] /\ (Carries(d)' <=> Carries(d))
  BY <1>1, Typed DEF Post, Carries
<1>3. /\ req'[c].pc # "new"
      /\ Carries(c)' => req'[c].key = k
      /\ Carries(c)' /\ k # None =>
             /\ idem[k].body = None \/ idem[k].events = <<>>
             /\ idem' = [idem EXCEPT ![k].body = b,
                                    ![k].events = Append(@, IF Busy THEN "queued" ELSE "started")]
  BY <1>1, Typed DEF Post, Carries, RequestType
<1>4. \A j \in Keys : /\ idem[j].body # None => idem'[j].body # None
                      /\ idem[j].events # <<>> => idem'[j].events # <<>>
                      /\ Carries(c)' /\ j = k => idem'[j].body # None /\ idem'[j].events # <<>>
  <2> DEFINE ev == IF Busy THEN "queued" ELSE "started"
             s == Append(idem[k].events, ev)
             written == k \in Keys /\ idem' = [idem EXCEPT ![k].body = b, ![k].events = s]
  <2>1. CASE written
    <3>1. s \in Seq(EventNames) /\ s # <<>>
      BY <2>1, Typed, Appended DEF RecordType, EventNames
    <3> HIDE DEF s
    <3>2. /\ idem'[k].events = s /\ idem'[k].body = b
          /\ \A j \in Keys : j # k => idem'[j] = idem[j]
      BY <2>1, <3>1, Typed DEF RecordType
    <3> QED
      BY <1>1, <3>1, <3>2
  <2>2. CASE ~written
    <3>1. idem' = idem
      BY <2>2 DEF Post
    <3>2. Carries(c)' => k \notin Keys
      BY <1>3, <2>2, ApiV1Assumption
    <3> QED
      BY <3>1, <3>2
  <2> QED
    BY <2>1, <2>2
<1>5. SentIsOld'
  BY <1>1, <1>2, <1>3, Typed DEF SentIsOld, IdemInv
<1>6. CarriersAreRecorded'
  BY <1>2, <1>3, <1>4, Typed DEF CarriersAreRecorded, IdemInv
<1>7. OneCarrier'
  <2>1. \A d \in Posts : d # c /\ Carries(c)' /\ Carries(d) /\ k # None => req[d].key # k
    BY <1>3 DEF CarriersAreRecorded, IdemInv
  <2> QED
    BY <1>2, <1>3, <2>1 DEF OneCarrier, IdemInv
<1> QED
  BY <1>5, <1>6, <1>7 DEF IdemInv

\* Requests with one idempotency key hand at most one message to the session.
THEOREM KeysSendOnce == Spec => []SentOnce
<1>1. Init => IdemInv
  BY DEF Init, IdemInv, CarriersAreRecorded, OneCarrier, SentIsOld, Carries, Fresh, Requests
<1>2. TypeOK /\ TypeOK' /\ IdemInv /\ [Next]_vars => IdemInv'
  BY PostKeepsIdem, OthersAreCalm, CalmKeepsIdem, Typed DEF TypeOK, RequestsTyped
<1>3. TypeOK /\ IdemInv => SentOnce
  BY Typed DEF IdemInv, OneCarrier, Carries, SentOnce
<1> QED
  BY <1>1, <1>2, <1>3, TypeCorrect, PTL DEF Spec

-----------------------------------------------------------------------------
(***************************************************************************)
(* Choices: an answer is acknowledged in the step that settles the choice, *)
(* and a choice that was settled is never settled again.                   *)
(***************************************************************************)
OpenIsUnanswered == \A x \in Choices : choice[x] \in {"none", "pending"} => accepted[x] = "none"

ChoiceInv == OpenIsUnanswered /\ AcknowledgedAnswerCounts

LEMMA ChoiceStep == TypeOK /\ ChoiceInv /\ [Next]_vars => ChoiceInv'
<1> SUFFICES ASSUME TypeOK, ChoiceInv, [Next]_vars PROVE ChoiceInv'
  OBVIOUS
<1> USE DEF ChoiceInv, OpenIsUnanswered, AcknowledgedAnswerCounts
<1>1. CASE Interrupt
  BY <1>1 DEF Interrupt, Pending, TypeOK, ChoicesTyped
<1>2. ASSUME NEW x \in Choices, Ask(x) PROVE ChoiceInv'
  BY <1>2 DEF Ask, TypeOK, ChoicesTyped, Answers
<1>3. ASSUME NEW x \in Choices, TimeOut(x) PROVE ChoiceInv'
  BY <1>3 DEF TimeOut, TypeOK, ChoicesTyped, Answers
<1>4. ASSUME NEW x \in Choices, NEW yes \in {"allow", "deny"}, Decide(x, yes) PROVE ChoiceInv'
  BY <1>4 DEF Decide, TypeOK, ChoicesTyped, Answers
<1>5. CASE UNCHANGED <<choice, accepted>>
  BY <1>5
<1> QED
  BY <1>1, <1>2, <1>3, <1>4, <1>5
     DEF Next, Serve, Queued, Send, Replay, Replayed, FinishStream, Post, Watch, Unwatch, Begin,
         StartFails, End, vars

\* An answer the API acknowledged is the one the tool use got.
THEOREM AnswersCount == Spec => []AcknowledgedAnswerCounts
<1>1. Init => ChoiceInv
  BY DEF Init, ChoiceInv, OpenIsUnanswered, AcknowledgedAnswerCounts
<1> QED
  BY <1>1, ChoiceStep, TypeCorrect, PTL DEF Spec, ChoiceInv
=============================================================================
