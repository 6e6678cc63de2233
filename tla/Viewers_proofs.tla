--------------------------- MODULE Viewers_proofs ---------------------------
(***************************************************************************)
(* Theorems about Viewers, for any number of sockets, records, messages    *)
(* and prompts: what a tab that has caught up shows.                       *)
(***************************************************************************)
EXTENDS Viewers, SequenceTheorems, FiniteSetTheorems, WellFoundedInduction, TLAPS

(***************************************************************************)
(* The values of the variables.                                            *)
(***************************************************************************)
RecordKinds == {"message", "init", "result", "note", "marker", "boundary"}
Kinds == RecordKinds \union {"end", "synthetic", "start"}

\* The kinds of records that carry a uuid.
Unique == {"message", "init", "result"}

Frames == [kind : Kinds, id : Nat] \union [kind : {"prompt"}, id : Prompts]
Tabs == [loading : BOOLEAN, buf : Seq(Frames), shown : Seq(Frames), seen : SUBSET Nat,
         running : BOOLEAN, prompt : Prompts \union {None}]

TypeOK ==
    /\ history \in Seq(Frames)
    /\ turn \in [on : BOOLEAN, streamed : BOOLEAN, generating : BOOLEAN]
    /\ inputs \in Nat /\ queued \in Nat /\ sends \in Nat /\ posts \in Nat
    /\ pending \in SUBSET Prompts /\ IsFiniteSet(pending) /\ asked \in SUBSET Prompts
    /\ sub \in [Sockets -> {"none", "pending", "live"}]
    /\ held \in [Sockets -> Seq(Frames)]
    /\ at \in [Sockets -> {"none", "history", "provider", "tail", "commands", "done"}]
    /\ sock \in [Sockets -> {"new", "open", "closed"}]
    /\ wire \in [Sockets -> Seq(Frames)]
    /\ tab \in [Sockets -> Tabs]

\* A record's id is its place in the history.
Numbered ==
    \A i \in 1..Len(history) : history[i].id = i /\ history[i].kind \in RecordKinds

\* The frames a tab has yet to dispatch: those it buffers, those on the wire.
Waiting(t, w) == IF t.loading THEN t.buf \o w ELSE w
ToCome(s) == Waiting(tab[s], wire[s])

\* An open socket that has been sent the history.
Following(s) == sock[s] = "open" /\ at[s] \in {"tail", "commands", "done"}

(***************************************************************************)
(* Where attach stands, and what it has done by then.                      *)
(***************************************************************************)
Joining(s) ==
    /\ sock[s] = "new" <=> at[s] = "none"
    /\ at[s] \in {"none", "history"} /\ sock[s] # "closed" => sub[s] = "none"
    /\ at[s] = "provider" /\ sock[s] # "closed" => sub[s] = "pending"
    /\ Following(s) => sub[s] = "live"
    /\ at[s] \in {"none", "history", "provider"} => wire[s] = <<>> /\ tab[s] = FreshTab
    /\ sock[s] = "closed" => wire[s] = <<>>
    /\ tab[s].loading => tab[s] = [FreshTab EXCEPT !.buf = tab[s].buf]
    /\ at[s] \in {"tail", "commands"} /\ sock[s] = "open" =>
          tab[s].loading /\ \A i \in 1..Len(ToCome(s)) : ToCome(s)[i].kind # "end"

Joins == \A s \in Sockets : Joining(s)

(***************************************************************************)
(* What a tab t has been shown of the history h, when the first k frames   *)
(* of W have been dispatched.                                              *)
(***************************************************************************)
\* A copy of a record of the history.
Genuine(h, f) == f.id \in 1..Len(h) /\ h[f.id] = f

\* The records the tab recognises, and the one at place i among W's frames
\* after k and before j.
Recognised(h) == {i \in 1..Len(h) : h[i].kind \in Unique}
Ahead(h, W, k, j, i) == \E n \in 1..Len(W) : k < n /\ n < j /\ W[n] = h[i]

\* Nothing is lost and nothing overtakes: what the tab has not seen is still
\* to come, after everything recorded before it.
InStep(h, t, W, k) ==
    /\ t.seen \subseteq Recognised(h)
    /\ \A i \in t.seen, g \in Recognised(h) : g < i => g \in t.seen
    /\ \A j \in 1..Len(W) : k < j /\ W[j].kind \in Unique => Genuine(h, W[j])
    /\ \A i \in Recognised(h) : i \in t.seen \/ Ahead(h, W, k, Len(W) + 1, i)
    /\ \A j \in 1..Len(W) : \A i \in Recognised(h) :
          k < j /\ W[j].kind \in Unique /\ i < W[j].id => i \in t.seen \/ Ahead(h, W, k, j, i)

\* The messages on the screen are those seen, in order.
Screen(h, t) ==
    /\ \A j \in Places(t.shown, {"message"}) : t.shown[j].id \in t.seen /\ Genuine(h, t.shown[j])
    /\ \A i \in t.seen : h[i].kind = "message" =>
          \E j \in Places(t.shown, {"message"}) : t.shown[j] = h[i]
    /\ \A i, j \in Places(t.shown, {"message"}) : i < j => t.shown[i].id < t.shown[j].id

\* What was kept back for a socket is in the history, if it is a record.
HeldIsHistory ==
    \A s \in Sockets : at[s] = "provider" /\ sock[s] = "open" =>
        \A j \in 1..Len(held[s]) :
            /\ held[s][j].kind # "end"
            /\ held[s][j].kind \in Unique => Genuine(history, held[s][j])

InStepWithHistory ==
    \A s \in Sockets : Following(s) =>
        InStep(history, tab[s], ToCome(s), 0) /\ Screen(history, tab[s])

(***************************************************************************)
(* The prompt.                                                             *)
(***************************************************************************)
\* After the frames of W that come after k, t will show the prompt p.
WillPrompt(t, W, k, p) ==
    \/ \E j \in 1..Len(W) :
          /\ k < j /\ W[j] = Prompt(p)
          /\ \A i \in 1..Len(W) : j < i => W[i].kind # "prompt"
    \/ t.prompt = p /\ \A i \in 1..Len(W) : k < i => W[i].kind # "prompt"

SinglePrompt == pending = {} \/ \E p \in Prompts : pending = {p}

PromptComes ==
    \A p \in pending : \A s \in Sockets :
        sock[s] = "open" /\ at[s] = "done" => WillPrompt(tab[s], ToCome(s), 0, p)

(***************************************************************************)
(* The spinner.                                                            *)
(***************************************************************************)
Starts(f) == f.kind \in {"init", "synthetic", "start"}
Stops(f) == f.kind \in {"result", "marker", "note"}

\* A stream among the first n frames of W, and no result after it.
UnfinishedTo(W, n) ==
    \E i \in 1..n : /\ W[i].kind = "start"
                    /\ \A j \in i..n : W[j].kind \notin {"result", "marker"}

\* The frames of W after k turn a flag that is b0 into b.
RunsTo(W, k, b0, b) ==
    \/ \E j \in 1..Len(W) :
          /\ k < j /\ IF b THEN Starts(W[j]) ELSE Stops(W[j])
          /\ \A i \in 1..Len(W) : j < i => ~Starts(W[i]) /\ ~Stops(W[i])
    \/ (b0 <=> b) /\ \A i \in 1..Len(W) : k < i => ~Starts(W[i]) /\ ~Stops(W[i])

\* The place after which frames move the flag: the end of the history.
Counts(t, W, e) ==
    IF t.loading
    THEN /\ e \in Len(t.buf)+1..Len(W) /\ W[e].kind = "end"
         /\ \A i \in 1..Len(W) : W[i].kind = "end" => i = e
    ELSE e = 0

Flag(t, W, e) == IF t.loading THEN UnfinishedTo(W, e-1) ELSE t.running
Runs(t, W, e, b) == RunsTo(W, e, Flag(t, W, e), b)

\* None of the frames of W after e repeats an earlier one.
NoRepeat(t, W, e) ==
    \A j \in 1..Len(W) : e < j /\ W[j].kind \in Unique =>
        /\ W[j].id \notin t.seen
        /\ \A i \in 1..j-1 : W[i].kind \in Unique => W[i].id # W[j].id

Marked(t, W, e) == e \in 0..Len(W) /\ Counts(t, W, e) /\ NoRepeat(t, W, e)

Streaming == turn.on /\ turn.generating /\ turn.streamed
Waits == inputs + queued + posts > 0

\* A tab that knows of no other turn than the one there is: only its own
\* message, on the way to the server, lets it show one that is not.
ShowsTurn(s, t, W, e) ==
    /\ Streaming => Runs(t, W, e, TRUE)
    /\ ~turn.on => Runs(t, W, e, FALSE) \/ (s \in Writers /\ Waits)

Spinning ==
    \A s \in Sockets : sock[s] = "open" /\ at[s] = "done" =>
        \E e \in 0..Len(ToCome(s)) :
            Marked(tab[s], ToCome(s), e) /\ ShowsTurn(s, tab[s], ToCome(s), e)

\* Before the end of the history is sent, what is under way tells whether a
\* stream has been left unfinished.
Replayed ==
    \A s \in Sockets : sock[s] = "open" =>
        /\ at[s] = "provider" /\ ~turn.on => ~UnfinishedTo(held[s], Len(held[s]))
        /\ at[s] \in {"tail", "commands"} /\ ~turn.on => ~UnfinishedTo(ToCome(s), Len(ToCome(s)))
        /\ at[s] = "commands" /\ Streaming => UnfinishedTo(ToCome(s), Len(ToCome(s)))

GenerationIsTurn == turn.generating => turn.on
-----------------------------------------------------------------------------
(***************************************************************************)
(* Sequences and numbers.                                                  *)
(***************************************************************************)
LEMMA Least ==
    ASSUME NEW S, S \subseteq Nat, S # {}
    PROVE  \E n \in S : \A m \in S : n <= m
<1>1. IsWellFoundedOn(OpToRel(<, Nat), Nat)
  BY NatLessThanWellFounded
<1>2. PICK n \in S : \A m \in S : <<m, n>> \notin OpToRel(<, Nat)
  BY <1>1, WFMin
<1>3. \A m \in S : m < n => <<m, n>> \in OpToRel(<, Nat)
  BY DEF OpToRel
<1>4. \A m \in S : ~(m < n)
  BY <1>2, <1>3
<1> QED
  BY <1>4

\* Counting up to n.
LEMMA UpTo ==
    ASSUME NEW n \in Nat, NEW S, 0 \in S, \A k \in 0..n : k \in S /\ k < n => k + 1 \in S
    PROVE  \A k \in 0..n : k \in S
<1> DEFINE out == {k \in 0..n : k \notin S}
<1>1. SUFFICES ASSUME out # {} PROVE FALSE
  OBVIOUS
<1>2. PICK m \in out : \A k \in out : m <= k
  <2>1. out \subseteq Nat
    OBVIOUS
  <2> HIDE DEF out
  <2> QED
    BY <1>1, <2>1, Least
<1>3. m # 0 /\ m - 1 \in 0..n /\ m - 1 \notin out
  BY <1>2
<1> QED
  BY <1>2, <1>3

LEMMA Joined ==
    ASSUME NEW S, NEW a \in Seq(S), NEW b \in Seq(S)
    PROVE  /\ a \o b \in Seq(S) /\ Len(a \o b) = Len(a) + Len(b) /\ Len(a) \in Nat /\ Len(b) \in Nat
           /\ \A i \in 1..Len(a) : (a \o b)[i] = a[i]
           /\ \A i \in 1..Len(b) : (a \o b)[Len(a) + i] = b[i]
<1>1. a \o b \in Seq(S) /\ Len(a \o b) = Len(a) + Len(b) /\ Len(a) \in Nat /\ Len(b) \in Nat
  BY ConcatProperties
<1>2. \A i \in 1..Len(a) + Len(b) : (a \o b)[i] = IF i <= Len(a) THEN a[i] ELSE b[i - Len(a)]
  BY ConcatProperties
<1>3. \A i \in 1..Len(a) : (a \o b)[i] = a[i]
  BY <1>1, <1>2
<1>4. \A i \in 1..Len(b) : (a \o b)[Len(a) + i] = b[i]
  BY <1>1, <1>2
<1> QED
  BY <1>1, <1>3, <1>4

LEMMA JoinedAgain ==
    ASSUME NEW S, NEW a \in Seq(S), NEW b \in Seq(S), NEW c \in Seq(S)
    PROVE  (a \o b) \o c = a \o (b \o c)
  BY ConcatAssociative

LEMMA Appended ==
    ASSUME NEW S, NEW a \in Seq(S), NEW e \in S
    PROVE  /\ Append(a, e) \in Seq(S) /\ Len(Append(a, e)) = Len(a) + 1
           /\ Append(a, e)[Len(a) + 1] = e
           /\ \A i \in 1..Len(a) : Append(a, e)[i] = a[i]
  BY AppendProperties

LEMMA Beheaded ==
    ASSUME NEW S, NEW a \in Seq(S), a # <<>>
    PROVE  /\ Head(a) \in S /\ Head(a) = a[1] /\ Tail(a) \in Seq(S)
           /\ Len(a) \in Nat /\ Len(a) >= 1 /\ Len(Tail(a)) = Len(a) - 1
           /\ \A i \in 1..Len(Tail(a)) : Tail(a)[i] = a[i + 1]
           /\ a = <<Head(a)>> \o Tail(a)
  BY HeadTailProperties

-----------------------------------------------------------------------------
(***************************************************************************)
(* dispatchMsg, over the buffer.                                           *)
(***************************************************************************)
LEMMA FoldExists ==
    ASSUME NEW t, NEW buf, NEW n \in Nat
    PROVE  \E f : f = [i \in 0..n |-> IF i = 0 THEN t ELSE Dispatch(f[i-1], buf[i])]
<1> DEFINE S == {k \in Nat : \E f : f = [i \in 0..k |-> IF i = 0 THEN t ELSE Dispatch(f[i-1], buf[i])]}
<1>1. 0 \in S
  <2> DEFINE f == [i \in 0..0 |-> t]
  <2>1. f = [i \in 0..0 |-> IF i = 0 THEN t ELSE Dispatch(f[i-1], buf[i])]
    OBVIOUS
  <2> QED
    BY <2>1
<1>2. ASSUME NEW k \in 0..n, k \in S PROVE k + 1 \in S
  <2>1. PICK f : f = [i \in 0..k |-> IF i = 0 THEN t ELSE Dispatch(f[i-1], buf[i])]
    BY <1>2
  <2> DEFINE g == [i \in 0..k+1 |-> IF i = 0 THEN t ELSE Dispatch(f[i-1], buf[i])]
  <2>2. \A i \in 0..k : g[i] = f[i]
    BY <2>1
  <2>3. \A i \in 0..k+1 : i # 0 => i - 1 \in 0..k
    OBVIOUS
  <2>4. g = [i \in 0..k+1 |-> IF i = 0 THEN t ELSE Dispatch(g[i-1], buf[i])]
    BY <2>2, <2>3
  <2> HIDE DEF g
  <2>5. \E h : h = [i \in 0..k+1 |-> IF i = 0 THEN t ELSE Dispatch(h[i-1], buf[i])]
    BY <2>4
  <2> QED
    BY <2>5
<1> HIDE DEF S
<1>3. n \in S
  BY <1>1, <1>2, UpTo
<1> QED
  BY <1>3 DEF S

\* The tabs that DispatchAll goes through.
LEMMA Dispatching ==
    ASSUME NEW t, NEW buf \in Seq(Frames)
    PROVE  \E after : /\ after[0] = t /\ DispatchAll(t, buf) = after[Len(buf)]
                      /\ \A k \in 0..Len(buf) : k < Len(buf) => after[k + 1] = Dispatch(after[k], buf[k + 1])
<1> DEFINE f == CHOOSE f : f = [i \in 0..Len(buf) |-> IF i = 0 THEN t ELSE Dispatch(f[i-1], buf[i])]
<1>1. Len(buf) \in Nat
  BY LenProperties
<1>2. f = [i \in 0..Len(buf) |-> IF i = 0 THEN t ELSE Dispatch(f[i-1], buf[i])]
  BY <1>1, FoldExists
<1>3. DispatchAll(t, buf) = f[Len(buf)]
  BY DEF DispatchAll
<1> HIDE DEF f
<1>4. f[0] = t
  BY <1>1, <1>2
<1>5. ASSUME NEW k \in 0..Len(buf), k < Len(buf) PROVE f[k + 1] = Dispatch(f[k], buf[k + 1])
  <2>1. k + 1 \in 0..Len(buf) /\ k + 1 # 0 /\ (k + 1) - 1 = k
    BY <1>1, <1>5
  <2> QED
    BY <1>2, <2>1
<1> QED
  BY <1>3, <1>4, <1>5

\* What one frame does to a tab.
Shows(t, f) == IF f.kind \in Shown THEN Append(t.shown, f) ELSE t.shown
Prompted(t, f) == IF f.kind = "prompt" THEN f.id ELSE t.prompt
Moved(t, f) ==
    IF t.loading THEN t.running
    ELSE IF Starts(f) THEN TRUE ELSE IF Stops(f) THEN FALSE ELSE t.running

LEMMA DispatchOne ==
    ASSUME NEW t \in Tabs, NEW f \in Frames
    PROVE  LET d == Dispatch(t, f) IN
           /\ f.kind \in Unique /\ f.id \in t.seen => d = t
           /\ ~(f.kind \in Unique /\ f.id \in t.seen) =>
                /\ d.seen = IF f.kind \in Unique THEN t.seen \union {f.id} ELSE t.seen
                /\ d.shown = Shows(t, f) /\ d.prompt = Prompted(t, f) /\ d.running = Moved(t, f)
           /\ d.loading = t.loading /\ d.buf = t.buf
           /\ d \in Tabs
<1> DEFINE new == [t EXCEPT !.seen = IF f.kind \in Unique THEN @ \union {f.id} ELSE @,
                            !.shown = IF f.kind \in Shown THEN Append(@, f) ELSE @,
                            !.prompt = IF f.kind = "prompt" THEN f.id ELSE @]
           dup == f.kind \in Unique /\ f.id \in t.seen
           d == Dispatch(t, f)
<1>1. dup => d = t
  BY DEF Dispatch, Unique
<1>2. ~dup => d = IF t.loading THEN new
                  ELSE IF Starts(f) THEN [new EXCEPT !.running = TRUE]
                  ELSE IF Stops(f) THEN [new EXCEPT !.running = FALSE]
                  ELSE new
  BY DEF Dispatch, Unique, Starts, Stops
<1>3. /\ t.seen \in SUBSET Nat /\ t.shown \in Seq(Frames) /\ t.prompt \in Prompts \union {None}
      /\ t.running \in BOOLEAN /\ t.loading \in BOOLEAN /\ t.buf \in Seq(Frames)
  BY DEF Tabs
<1>4. (f.kind \in Unique => f.id \in Nat) /\ (f.kind = "prompt" => f.id \in Prompts)
  BY DEF Frames, Unique, Kinds, RecordKinds
<1>5. Append(t.shown, f) \in Seq(Frames)
  BY <1>3, AppendProperties
<1>6. /\ new \in Tabs
      /\ new.seen = IF f.kind \in Unique THEN t.seen \union {f.id} ELSE t.seen
      /\ new.shown = Shows(t, f) /\ new.prompt = Prompted(t, f)
      /\ new.running = t.running /\ new.loading = t.loading /\ new.buf = t.buf
  <2>1. /\ new.seen = IF f.kind \in Unique THEN t.seen \union {f.id} ELSE t.seen
        /\ new.shown = Shows(t, f) /\ new.prompt = Prompted(t, f)
        /\ new.running = t.running /\ new.loading = t.loading /\ new.buf = t.buf
    BY DEF Tabs, Shows, Prompted
  <2>2. new \in Tabs
    BY <1>3, <1>4, <1>5 DEF Tabs
  <2> QED
    BY <2>1, <2>2
<1> HIDE DEF new
<1>7. ASSUME NEW b \in BOOLEAN
      PROVE  LET x == [new EXCEPT !.running = b] IN
             /\ x \in Tabs /\ x.running = b /\ x.seen = new.seen /\ x.shown = new.shown
             /\ x.prompt = new.prompt /\ x.loading = new.loading /\ x.buf = new.buf
  BY <1>6 DEF Tabs
<1>8. ~dup => d.running = Moved(t, f)
  BY <1>2, <1>6, <1>7 DEF Moved
<1>9. ~dup => /\ d.seen = new.seen /\ d.shown = new.shown /\ d.prompt = new.prompt
              /\ d.loading = new.loading /\ d.buf = new.buf /\ d \in Tabs
  BY <1>2, <1>6, <1>7
<1> QED
  BY <1>1, <1>6, <1>8, <1>9

LEMMA SomeFrame ==
    ASSUME NEW W \in Seq(Frames)
    PROVE  Len(W) \in Nat /\ \A i \in 1..Len(W) : W[i] \in Frames
  BY LenProperties, ElementOfSeq

-----------------------------------------------------------------------------
(***************************************************************************)
(* In step with the history.                                               *)
(***************************************************************************)
LEMMA InStepNext ==
    ASSUME NEW h \in Seq(Frames), NEW t \in Tabs, NEW W \in Seq(Frames), NEW k \in 0..Len(W), k < Len(W),
           \A i \in 1..Len(h) : h[i].id = i,
           InStep(h, t, W, k)
    PROVE  InStep(h, Dispatch(t, W[k + 1]), W, k + 1)
<1> DEFINE f == W[k + 1]
           d == Dispatch(t, f)
<1>0. Len(W) \in Nat /\ k + 1 \in 1..Len(W) /\ f \in Frames /\ Len(h) \in Nat
  BY SomeFrame
<1>1. /\ f.kind \in Unique /\ f.id \in t.seen => d.seen = t.seen
      /\ ~(f.kind \in Unique /\ f.id \in t.seen) =>
           d.seen = IF f.kind \in Unique THEN t.seen \union {f.id} ELSE t.seen
  BY <1>0, DispatchOne
<1>2. f.kind \in Unique => f.id \in Recognised(h) /\ h[f.id] = f
  BY <1>0 DEF InStep, Genuine, Recognised
<1>3. t.seen \subseteq d.seen /\ d.seen \subseteq Recognised(h)
  BY <1>1, <1>2 DEF InStep
<1>4. ASSUME NEW i \in Recognised(h), f = h[i] PROVE i \in d.seen
  BY <1>1, <1>4 DEF Recognised
<1>5. ASSUME NEW i \in d.seen, NEW g \in Recognised(h), g < i PROVE g \in d.seen
  <2>1. CASE i \in t.seen
    BY <1>3, <1>5, <2>1 DEF InStep
  <2>2. CASE f.kind \in Unique /\ i = f.id
    <3>1. g \in t.seen \/ Ahead(h, W, k, k + 1, g)
      BY <1>0, <1>5, <2>2 DEF InStep
    <3>2. ~Ahead(h, W, k, k + 1, g)
      BY DEF Ahead
    <3> QED
      BY <3>1, <3>2, <1>3
  <2> QED
    BY <1>1, <1>5, <2>1, <2>2
<1> HIDE DEF d
<1>6. ASSUME NEW i \in Recognised(h), NEW j \in Nat, Ahead(h, W, k, j, i), i \notin d.seen
      PROVE  Ahead(h, W, k + 1, j, i)
  <2>1. PICK n \in 1..Len(W) : k < n /\ n < j /\ W[n] = h[i]
    BY <1>6 DEF Ahead
  <2>2. n # k + 1
    BY <1>4, <1>6, <2>1
  <2>3. k + 1 < n
    BY <1>0, <2>1, <2>2
  <2> QED
    BY <2>1, <2>3 DEF Ahead
<1>7. ASSUME NEW i \in Recognised(h) PROVE i \in d.seen \/ Ahead(h, W, k + 1, Len(W) + 1, i)
  BY <1>0, <1>3, <1>6 DEF InStep
<1>8. ASSUME NEW j \in 1..Len(W), NEW i \in Recognised(h), k + 1 < j, W[j].kind \in Unique, i < W[j].id
      PROVE  i \in d.seen \/ Ahead(h, W, k + 1, j, i)
  <2>1. j \in Nat /\ k < j
    BY <1>0, <1>8
  <2>2. i \in t.seen \/ Ahead(h, W, k, j, i)
    BY <1>8, <2>1 DEF InStep
  <2> QED
    BY <1>3, <1>6, <2>1, <2>2
<1>9. \A j \in 1..Len(W) : k + 1 < j /\ W[j].kind \in Unique => Genuine(h, W[j])
  BY <1>0 DEF InStep
<1> QED
  BY <1>3, <1>5, <1>7, <1>8, <1>9 DEF InStep, d

LEMMA ScreenNext ==
    ASSUME NEW h \in Seq(Frames), NEW t \in Tabs, NEW W \in Seq(Frames), NEW k \in 0..Len(W), k < Len(W),
           \A i \in 1..Len(h) : h[i].id = i,
           InStep(h, t, W, k), Screen(h, t)
    PROVE  Screen(h, Dispatch(t, W[k + 1]))
<1> DEFINE f == W[k + 1]
           d == Dispatch(t, f)
           M(x) == Places(x, {"message"})
<1>0. Len(W) \in Nat /\ k + 1 \in 1..Len(W) /\ f \in Frames /\ Len(h) \in Nat
  BY SomeFrame
<1>1. /\ f.kind \in Unique /\ f.id \in t.seen => d = t
      /\ ~(f.kind \in Unique /\ f.id \in t.seen) =>
           /\ d.seen = IF f.kind \in Unique THEN t.seen \union {f.id} ELSE t.seen
           /\ d.shown = Shows(t, f)
  BY <1>0, DispatchOne
<1>2. f.kind \in Unique => f.id \in Recognised(h) /\ h[f.id] = f
  BY <1>0 DEF InStep, Genuine, Recognised
<1> HIDE DEF d
<1>3. CASE f.kind \in Unique /\ f.id \in t.seen
  BY <1>1, <1>3 DEF d
<1>4. ASSUME f.kind \notin Unique \/ f.id \notin t.seen, f.kind # "message"
      PROVE  Screen(h, d)
  <2>1. /\ M(d.shown) = M(t.shown) /\ \A i \in M(t.shown) : d.shown[i] = t.shown[i]
    <3>1. CASE f.kind \notin Shown
      BY <1>1, <1>4, <3>1 DEF Shows
    <3>2. CASE f.kind \in Shown
      <4>1. d.shown = Append(t.shown, f)
        BY <1>1, <1>4, <3>2 DEF Shows
      <4>2. t.shown \in Seq(Frames)
        BY DEF Tabs
      <4>3. /\ Len(d.shown) = Len(t.shown) + 1 /\ d.shown[Len(t.shown) + 1] = f /\ Len(t.shown) \in Nat
            /\ \A i \in 1..Len(t.shown) : d.shown[i] = t.shown[i]
        BY <1>0, <4>1, <4>2, Appended, LenProperties
      <4>4. \A i : i \in M(d.shown) <=> i \in 1..Len(t.shown) + 1 /\ d.shown[i].kind = "message"
        BY <4>3 DEF Places
      <4>5. \A i : i \in M(t.shown) <=> i \in 1..Len(t.shown) /\ t.shown[i].kind = "message"
        BY DEF Places
      <4> HIDE DEF f, M
      <4>6. \A i : i \in 1..Len(t.shown) + 1 <=> i \in 1..Len(t.shown) \/ i = Len(t.shown) + 1
        BY <4>3
      <4>7. f.kind # "message"
        BY <1>4
      <4>8. \A i \in M(d.shown) : i \in M(t.shown)
        BY <4>3, <4>4, <4>5, <4>6, <4>7
      <4>9. \A i \in M(t.shown) : i \in M(d.shown)
        BY <4>3, <4>4, <4>5, <4>6
      <4> QED
        BY <4>3, <4>5, <4>8, <4>9
    <3> QED
      BY <3>1, <3>2
  <2>2. t.seen \subseteq d.seen /\ \A i \in d.seen : i \in t.seen \/ h[i].kind # "message"
    BY <1>1, <1>2, <1>4
  <2> HIDE DEF d, f
  <2> QED
    BY <2>1, <2>2 DEF Screen
<1>5. ASSUME f.kind = "message", f.id \notin t.seen PROVE Screen(h, d)
  <2>0. f.kind \in Unique /\ f.kind \in Shown
    BY <1>5 DEF Unique, Shown
  <2>1. t.shown \in Seq(Frames) /\ d.shown = Append(t.shown, f) /\ d.seen = t.seen \union {f.id}
    BY <1>1, <1>5, <2>0 DEF Tabs, Shows
  <2>2. /\ Len(d.shown) = Len(t.shown) + 1 /\ d.shown[Len(t.shown) + 1] = f /\ Len(t.shown) \in Nat
        /\ \A i \in 1..Len(t.shown) : d.shown[i] = t.shown[i]
    BY <1>0, <2>1, Appended, LenProperties
  <2>3. /\ M(d.shown) = M(t.shown) \union {Len(t.shown) + 1}
        /\ \A i \in M(t.shown) : d.shown[i] = t.shown[i] /\ i < Len(t.shown) + 1
    <3>1. \A i : i \in M(d.shown) <=> i \in 1..Len(t.shown) + 1 /\ d.shown[i].kind = "message"
      BY <2>2 DEF Places
    <3>2. \A i : i \in M(t.shown) <=> i \in 1..Len(t.shown) /\ t.shown[i].kind = "message"
      BY DEF Places
    <3>3. \A i : i \in 1..Len(t.shown) + 1 <=> i \in 1..Len(t.shown) \/ i = Len(t.shown) + 1
      BY <2>2
    <3>4. \A i \in 1..Len(t.shown) : i < Len(t.shown) + 1
      BY <2>2
    <3> HIDE DEF f, M
    <3>5. \A i \in M(d.shown) : i \in M(t.shown) \/ i = Len(t.shown) + 1
      BY <2>2, <3>1, <3>2, <3>3
    <3>6. \A i \in M(t.shown) : i \in M(d.shown)
      BY <2>2, <3>1, <3>2, <3>3
    <3>7. Len(t.shown) + 1 \in M(d.shown)
      BY <1>5, <2>2, <3>1, <3>3
    <3>8. M(d.shown) = M(t.shown) \union {Len(t.shown) + 1}
      BY <3>5, <3>6, <3>7
    <3> QED
      BY <2>2, <3>2, <3>4, <3>8
  <2>4. \A i \in t.seen : i < f.id
    <3>1. ASSUME NEW i \in t.seen, ~(i < f.id) PROVE FALSE
      <4>1. i \in Nat /\ f.id \in Nat /\ i # f.id
        BY <1>2, <1>5, <2>0, <3>1 DEF InStep, Recognised
      <4>2. f.id < i
        BY <3>1, <4>1
      <4> QED
        BY <1>2, <1>5, <2>0, <4>2 DEF InStep
    <3> QED
      BY <3>1
  <2>5. Genuine(h, f) /\ h[f.id] = f
    BY <1>0, <1>2, <2>0 DEF Genuine, Recognised
  <2> HIDE DEF d, f
  <2>6. ASSUME NEW j \in M(d.shown) PROVE d.shown[j].id \in d.seen /\ Genuine(h, d.shown[j])
    <3>1. CASE j \in M(t.shown)
      BY <2>1, <2>3, <3>1 DEF Screen
    <3>2. CASE j = Len(t.shown) + 1
      BY <2>1, <2>2, <2>5, <3>2
    <3> QED
      BY <2>3, <3>1, <3>2
  <2>7. ASSUME NEW i \in d.seen, h[i].kind = "message" PROVE \E j \in M(d.shown) : d.shown[j] = h[i]
    <3>1. CASE i \in t.seen
      <4>1. PICK j \in M(t.shown) : t.shown[j] = h[i]
        BY <2>7, <3>1 DEF Screen
      <4> QED
        BY <2>3, <4>1
    <3>2. CASE i = f.id
      BY <2>2, <2>3, <2>5, <3>2
    <3> QED
      BY <2>1, <3>1, <3>2
  <2>8. ASSUME NEW i \in M(d.shown), NEW j \in M(d.shown), i < j PROVE d.shown[i].id < d.shown[j].id
    <3>1. i \in M(t.shown)
      <4>1. M(t.shown) \subseteq Nat
        BY DEF Places
      <4> HIDE DEF M
      <4>2. j \in Nat /\ j <= Len(t.shown) + 1
        BY <2>2, <2>3, <2>8, <4>1
      <4>3. i # Len(t.shown) + 1
        BY <2>2, <2>8, <4>2
      <4> QED
        BY <2>3, <2>8, <4>3
    <3>2. CASE j \in M(t.shown)
      BY <2>3, <2>8, <3>1, <3>2 DEF Screen
    <3>3. CASE j = Len(t.shown) + 1
      <4>1. t.shown[i].id \in t.seen
        BY <3>1 DEF Screen
      <4> QED
        BY <2>2, <2>3, <2>4, <3>1, <3>3, <4>1
    <3> QED
      BY <2>3, <3>2, <3>3
  <2> QED
    BY <2>6, <2>7, <2>8 DEF Screen
<1> QED
  BY <1>3, <1>4, <1>5 DEF Unique, d

\* Only what a tab has seen and shows matters.
LEMMA InStepSame ==
    ASSUME NEW h, NEW t, NEW u, NEW W, NEW k, u.seen = t.seen, InStep(h, t, W, k)
    PROVE  InStep(h, u, W, k)
  BY DEF InStep

LEMMA ScreenSame ==
    ASSUME NEW h, NEW t, NEW u, u.seen = t.seen, u.shown = t.shown, Screen(h, t)
    PROVE  Screen(h, u)
  BY DEF Screen

\* Frames without a uuid follow.
LEMMA InStepMore ==
    ASSUME NEW h \in Seq(Frames), NEW t, NEW W \in Seq(Frames), NEW X \in Seq(Frames),
           InStep(h, t, W, 0),
           \A j \in 1..Len(X) : X[j].kind \notin Unique
    PROVE  InStep(h, t, W \o X, 0)
<1> DEFINE V == W \o X
<1>1. /\ V \in Seq(Frames) /\ Len(V) = Len(W) + Len(X) /\ Len(W) \in Nat /\ Len(X) \in Nat
      /\ (\A i \in 1..Len(W) : V[i] = W[i]) /\ (\A i \in 1..Len(X) : V[Len(W) + i] = X[i])
  BY Joined
<1> HIDE DEF V
<1>2. ASSUME NEW i, NEW j \in Nat, NEW n \in Nat, j <= n, Ahead(h, W, 0, j, i) PROVE Ahead(h, V, 0, n, i)
  <2>1. PICK m \in 1..Len(W) : m < j /\ W[m] = h[i]
    BY <1>2 DEF Ahead
  <2>2. m \in 1..Len(V) /\ 0 < m /\ m < n /\ V[m] = h[i]
    BY <1>1, <1>2, <2>1
  <2> QED
    BY <2>2 DEF Ahead
<1>3. ASSUME NEW j \in 1..Len(V), V[j].kind \in Unique PROVE j \in 1..Len(W) /\ V[j] = W[j]
  <2>1. SUFFICES ASSUME j \notin 1..Len(W) PROVE FALSE
    BY <1>1
  <2>2. j - Len(W) \in 1..Len(X) /\ Len(W) + (j - Len(W)) = j
    BY <1>1, <2>1
  <2>3. V[j] = X[j - Len(W)]
    BY <1>1, <2>2
  <2> QED
    BY <1>3, <2>2, <2>3
<1>4. \A i \in Recognised(h) : i \in t.seen \/ Ahead(h, V, 0, Len(V) + 1, i)
  <2>1. Len(W) + 1 \in Nat /\ Len(V) + 1 \in Nat /\ Len(W) + 1 <= Len(V) + 1
    BY <1>1
  <2> QED
    BY <1>2, <2>1 DEF InStep
<1>5. ASSUME NEW j \in 1..Len(V), NEW i \in Recognised(h), V[j].kind \in Unique, i < V[j].id
      PROVE  i \in t.seen \/ Ahead(h, V, 0, j, i)
  <2>1. j \in 1..Len(W) /\ V[j] = W[j] /\ j \in Nat /\ 0 < j /\ j <= j
    BY <1>1, <1>3, <1>5
  <2>2. i \in t.seen \/ Ahead(h, W, 0, j, i)
    BY <1>5, <2>1 DEF InStep
  <2> QED
    BY <1>2, <2>1, <2>2
<1>6. \A j \in 1..Len(V) : V[j].kind \in Unique => Genuine(h, V[j])
  <2>1. ASSUME NEW j \in 1..Len(V), V[j].kind \in Unique PROVE Genuine(h, V[j])
    <3>1. j \in 1..Len(W) /\ V[j] = W[j] /\ 0 < j
      BY <1>1, <1>3, <2>1
    <3> QED
      BY <2>1, <3>1 DEF InStep
  <2> QED
    BY <2>1
<1>7. InStep(h, t, V, 0)
  BY <1>4, <1>5, <1>6 DEF InStep
<1> QED
  BY <1>7 DEF V

\* g is h with the records X after it.
Extends(h, X, g) ==
    /\ g = h \o X
    /\ \A i \in 1..Len(g) : g[i].id = i

LEMMA Extending ==
    ASSUME NEW h \in Seq(Frames), NEW X \in Seq(Frames), NEW g, Extends(h, X, g)
    PROVE  /\ g \in Seq(Frames) /\ Len(g) = Len(h) + Len(X) /\ Len(h) \in Nat /\ Len(X) \in Nat
           /\ \A i \in 1..Len(h) : g[i] = h[i]
           /\ \A i \in 1..Len(X) : g[Len(h) + i] = X[i]
           /\ Recognised(h) = Recognised(g) \cap 1..Len(h)
           /\ \A f : Genuine(h, f) => Genuine(g, f)
<1>1. /\ g \in Seq(Frames) /\ Len(g) = Len(h) + Len(X) /\ Len(h) \in Nat /\ Len(X) \in Nat
      /\ (\A i \in 1..Len(h) : g[i] = h[i]) /\ (\A i \in 1..Len(X) : g[Len(h) + i] = X[i])
  BY Joined DEF Extends
<1>2. \A i : i \in 1..Len(h) => i \in 1..Len(g)
  BY <1>1
<1>3. Recognised(h) = Recognised(g) \cap 1..Len(h)
  BY <1>1, <1>2 DEF Recognised
<1>4. \A f : Genuine(h, f) => Genuine(g, f)
  BY <1>1, <1>2 DEF Genuine
<1> QED
  BY <1>1, <1>3, <1>4

\* New records are recorded and follow.
LEMMA InStepPush ==
    ASSUME NEW h \in Seq(Frames), NEW X \in Seq(Frames), NEW g, Extends(h, X, g),
           NEW t, NEW W \in Seq(Frames), InStep(h, t, W, 0)
    PROVE  InStep(g, t, W \o X, 0)
<1> DEFINE V == W \o X
<1>1. /\ V \in Seq(Frames) /\ Len(V) = Len(W) + Len(X) /\ Len(W) \in Nat /\ Len(X) \in Nat
      /\ (\A i \in 1..Len(W) : V[i] = W[i]) /\ (\A i \in 1..Len(X) : V[Len(W) + i] = X[i])
  BY Joined
<1> HIDE DEF V
<1>2. /\ g \in Seq(Frames) /\ Len(g) = Len(h) + Len(X) /\ Len(h) \in Nat
      /\ (\A i \in 1..Len(h) : g[i] = h[i]) /\ (\A i \in 1..Len(X) : g[Len(h) + i] = X[i])
      /\ Recognised(h) = Recognised(g) \cap 1..Len(h)
      /\ \A f : Genuine(h, f) => Genuine(g, f)
  BY Extending
<1>3. \A i \in 1..Len(X) : X[i].id = Len(h) + i
  <2>1. \A i \in 1..Len(X) : Len(h) + i \in 1..Len(g)
    BY <1>1, <1>2
  <2> QED
    BY <1>2, <2>1 DEF Extends
<1>4. ASSUME NEW j \in 1..Len(V), j \notin 1..Len(W)
      PROVE  \E x \in 1..Len(X) : j = Len(W) + x /\ V[j] = X[x]
  <2>1. j - Len(W) \in 1..Len(X) /\ Len(W) + (j - Len(W)) = j
    BY <1>1, <1>4
  <2> QED
    BY <1>1, <2>1
<1>5. ASSUME NEW i \in Recognised(h), NEW j \in Nat, NEW n \in Nat, j <= n, Ahead(h, W, 0, j, i)
      PROVE  Ahead(g, V, 0, n, i)
  <2>1. PICK m \in 1..Len(W) : m < j /\ W[m] = h[i]
    BY <1>5 DEF Ahead
  <2>2. g[i] = h[i]
    BY <1>2
  <2>3. m \in 1..Len(V) /\ 0 < m /\ m < n /\ V[m] = g[i]
    BY <1>1, <1>5, <2>1, <2>2
  <2> QED
    BY <2>3 DEF Ahead
<1>6. ASSUME NEW i \in Recognised(g), i \notin Recognised(h), NEW n \in Nat, Len(W) + (i - Len(h)) < n
      PROVE  Ahead(g, V, 0, n, i)
  <2>1. i \in 1..Len(g) /\ i \notin 1..Len(h)
    BY <1>2, <1>6 DEF Recognised
  <2>2. i - Len(h) \in 1..Len(X) /\ Len(h) + (i - Len(h)) = i
    BY <1>1, <1>2, <2>1
  <2>3. PICK x \in 1..Len(X) : x = i - Len(h) /\ i = Len(h) + x
    BY <2>2
  <2>4. g[i] = X[x] /\ V[Len(W) + x] = X[x]
    BY <1>1, <1>2, <2>3
  <2>5. PICK m \in 1..Len(V) : m = Len(W) + x
    BY <1>1
  <2>6. 0 < m /\ m < n /\ V[m] = g[i]
    BY <1>1, <1>6, <2>3, <2>4, <2>5
  <2> QED
    BY <2>6 DEF Ahead
<1>7. t.seen \subseteq Recognised(g)
  BY <1>2 DEF InStep
<1>8. ASSUME NEW i \in t.seen, NEW r \in Recognised(g), r < i PROVE r \in t.seen
  <2>1. i \in 1..Len(h) /\ i \in Nat
    BY <1>2 DEF InStep
  <2>2. r \in 1..Len(h)
    BY <1>2, <1>8, <2>1 DEF Recognised
  <2> QED
    BY <1>2, <1>8, <2>2 DEF InStep
<1>9. ASSUME NEW j \in 1..Len(V), V[j].kind \in Unique PROVE Genuine(g, V[j])
  <2>1. CASE j \in 1..Len(W)
    <3>1. V[j] = W[j] /\ 0 < j
      BY <1>1, <2>1
    <3> QED
      BY <1>2, <1>9, <2>1, <3>1 DEF InStep
  <2>2. CASE j \notin 1..Len(W)
    <3>1. PICK x \in 1..Len(X) : V[j] = X[x]
      BY <1>4, <2>2
    <3>2. Len(h) + x \in 1..Len(g)
      BY <1>1, <1>2
    <3> QED
      BY <1>2, <1>3, <3>1, <3>2 DEF Genuine
  <2> QED
    BY <2>1, <2>2
<1>10. ASSUME NEW i \in Recognised(g) PROVE i \in t.seen \/ Ahead(g, V, 0, Len(V) + 1, i)
  <2>0. Len(W) + 1 \in Nat /\ Len(V) + 1 \in Nat /\ Len(W) + 1 <= Len(V) + 1
    BY <1>1
  <2>1. CASE i \in Recognised(h)
    BY <1>5, <2>0, <2>1 DEF InStep
  <2>2. CASE i \notin Recognised(h)
    <3>1. i \in Nat /\ i <= Len(g)
      BY <1>2 DEF Recognised
    <3>2. Len(W) + (i - Len(h)) < Len(V) + 1
      BY <1>1, <1>2, <3>1
    <3> QED
      BY <1>6, <2>0, <2>2, <3>2
  <2> QED
    BY <2>1, <2>2
<1>11. ASSUME NEW j \in 1..Len(V), NEW i \in Recognised(g), V[j].kind \in Unique, i < V[j].id
       PROVE  i \in t.seen \/ Ahead(g, V, 0, j, i)
  <2>0. i \in Nat /\ i \in 1..Len(g) /\ j \in Nat
    BY <1>1, <1>2 DEF Recognised
  <2>1. CASE j \in 1..Len(W)
    <3>1. V[j] = W[j] /\ 0 < j /\ j <= j
      BY <1>1, <2>1
    <3>2. W[j].id \in 1..Len(h)
      BY <1>11, <2>1, <3>1 DEF InStep, Genuine
    <3>3. i \in Recognised(h)
      <4>1. i <= Len(h)
        BY <1>2, <1>11, <2>0, <3>1, <3>2
      <4> QED
        BY <1>2, <2>0, <4>1
    <3>4. i \in t.seen \/ Ahead(h, W, 0, j, i)
      BY <1>11, <2>1, <3>1, <3>3 DEF InStep
    <3> QED
      BY <1>5, <2>0, <3>1, <3>3, <3>4
  <2>2. CASE j \notin 1..Len(W)
    <3>1. PICK x \in 1..Len(X) : j = Len(W) + x /\ V[j] = X[x]
      BY <1>4, <2>2
    <3>2. CASE i \in Recognised(h)
      <4>1. i \in t.seen \/ Ahead(h, W, 0, Len(W) + 1, i)
        BY <3>2 DEF InStep
      <4>2. Len(W) + 1 \in Nat /\ Len(W) + 1 <= j
        BY <1>1, <3>1
      <4> QED
        BY <1>5, <2>0, <3>2, <4>1, <4>2
    <3>3. CASE i \notin Recognised(h)
      <4>1. V[j].id = Len(h) + x
        BY <1>3, <3>1
      <4>2. Len(W) + (i - Len(h)) < j
        BY <1>1, <1>2, <1>11, <2>0, <3>1, <4>1
      <4> QED
        BY <1>6, <2>0, <3>3, <4>2
    <3> QED
      BY <3>2, <3>3
  <2> QED
    BY <2>1, <2>2
<1>12. InStep(g, t, V, 0)
  BY <1>7, <1>8, <1>9, <1>10, <1>11 DEF InStep
<1> QED
  BY <1>12 DEF V

LEMMA ScreenPush ==
    ASSUME NEW h \in Seq(Frames), NEW X \in Seq(Frames), NEW g, Extends(h, X, g),
           NEW t, t.seen \subseteq Recognised(h), Screen(h, t)
    PROVE  Screen(g, t)
<1>1. /\ \A i \in 1..Len(h) : g[i] = h[i]
      /\ \A f : Genuine(h, f) => Genuine(g, f)
  BY Extending
<1>2. \A i \in t.seen : g[i] = h[i]
  BY <1>1 DEF Recognised
<1> QED
  BY <1>1, <1>2 DEF Screen

\* The first k frames are dispatched; the rest is all there is.
LEMMA InStepRest ==
    ASSUME NEW h \in Seq(Frames), NEW t, NEW W \in Seq(Frames), NEW k \in 0..Len(W), NEW V \in Seq(Frames),
           Len(V) = Len(W) - k, \A i \in 1..Len(V) : V[i] = W[k + i],
           InStep(h, t, W, k)
    PROVE  InStep(h, t, V, 0)
<1>0. Len(W) \in Nat /\ Len(V) \in Nat /\ k \in Nat
  BY LenProperties
<1>1. ASSUME NEW i, NEW j \in Nat, Ahead(h, W, k, k + j, i) PROVE Ahead(h, V, 0, j, i)
  <2>1. PICK n \in 1..Len(W) : k < n /\ n < k + j /\ W[n] = h[i]
    BY <1>1 DEF Ahead
  <2>2. n - k \in 1..Len(V) /\ k + (n - k) = n /\ 0 < n - k /\ n - k < j
    BY <1>0, <2>1
  <2>3. V[n - k] = h[i]
    BY <2>1, <2>2
  <2> QED
    BY <2>2, <2>3 DEF Ahead
<1>2. ASSUME NEW j \in 1..Len(V)
      PROVE  k + j \in 1..Len(W) /\ k < k + j /\ V[j] = W[k + j] /\ j \in Nat
  BY <1>0
<1>3. \A i \in Recognised(h) : i \in t.seen \/ Ahead(h, V, 0, Len(V) + 1, i)
  <2>1. Len(W) + 1 = k + (Len(V) + 1) /\ Len(V) + 1 \in Nat
    BY <1>0
  <2> QED
    BY <1>1, <2>1 DEF InStep
<1>4. ASSUME NEW j \in 1..Len(V), NEW i \in Recognised(h), V[j].kind \in Unique, i < V[j].id
      PROVE  i \in t.seen \/ Ahead(h, V, 0, j, i)
  <2>1. i \in t.seen \/ Ahead(h, W, k, k + j, i)
    BY <1>2, <1>4 DEF InStep
  <2> QED
    BY <1>1, <1>2, <2>1
<1>5. ASSUME NEW j \in 1..Len(V), V[j].kind \in Unique PROVE Genuine(h, V[j])
  BY <1>2, <1>5 DEF InStep
<1> QED
  BY <1>3, <1>4, <1>5 DEF InStep

\* Nothing was seen; the history is sent, then copies of parts of it.
LEMMA InStepReplay ==
    ASSUME NEW h \in Seq(Frames), NEW X \in Seq(Frames), \A i \in 1..Len(h) : h[i].id = i,
           \A j \in 1..Len(X) : X[j].kind \in Unique => Genuine(h, X[j]),
           NEW t, t.seen = {}
    PROVE  InStep(h, t, h \o X, 0)
<1> DEFINE V == h \o X
<1>1. /\ V \in Seq(Frames) /\ Len(V) = Len(h) + Len(X) /\ Len(h) \in Nat /\ Len(X) \in Nat
      /\ (\A i \in 1..Len(h) : V[i] = h[i]) /\ (\A i \in 1..Len(X) : V[Len(h) + i] = X[i])
  BY Joined
<1> HIDE DEF V
<1>2. ASSUME NEW j \in 1..Len(V), j \notin 1..Len(h)
      PROVE  \E x \in 1..Len(X) : j = Len(h) + x /\ V[j] = X[x]
  <2>1. j - Len(h) \in 1..Len(X) /\ Len(h) + (j - Len(h)) = j
    BY <1>1, <1>2
  <2> QED
    BY <1>1, <2>1
<1>3. ASSUME NEW j \in 1..Len(V), V[j].kind \in Unique PROVE Genuine(h, V[j])
  <2>1. CASE j \in 1..Len(h)
    BY <1>1, <2>1 DEF Genuine
  <2>2. CASE j \notin 1..Len(h)
    BY <1>2, <1>3, <2>2
  <2> QED
    BY <2>1, <2>2
<1>4. ASSUME NEW i \in Recognised(h), NEW j \in Nat, i < j PROVE Ahead(h, V, 0, j, i)
  <2>1. i \in 1..Len(h) /\ i \in 1..Len(V) /\ 0 < i /\ V[i] = h[i]
    BY <1>1 DEF Recognised
  <2> QED
    BY <1>4, <2>1 DEF Ahead
<1>5. \A i \in Recognised(h) : i \in Nat /\ i < Len(V) + 1 /\ i <= Len(h)
  BY <1>1 DEF Recognised
<1>6. ASSUME NEW j \in 1..Len(V), NEW i \in Recognised(h), V[j].kind \in Unique, i < V[j].id
      PROVE  Ahead(h, V, 0, j, i)
  <2>1. i < j
    <3>1. CASE j \in 1..Len(h)
      BY <1>1, <1>6, <3>1
    <3>2. CASE j \notin 1..Len(h)
      BY <1>1, <1>5, <3>2
    <3> QED
      BY <3>1, <3>2
  <2> QED
    BY <1>1, <1>4, <2>1
<1>7. \A i \in Recognised(h) : Ahead(h, V, 0, Len(V) + 1, i)
  BY <1>1, <1>4, <1>5
<1>8. InStep(h, t, V, 0)
  BY <1>3, <1>6, <1>7 DEF InStep
<1> QED
  BY <1>8 DEF V

\* The whole buffer is dispatched at once.
LEMMA InStepAll ==
    ASSUME NEW h \in Seq(Frames), NEW t \in Tabs, NEW W \in Seq(Frames), NEW buf \in Seq(Frames),
           Len(buf) <= Len(W), \A i \in 1..Len(buf) : buf[i] = W[i],
           \A i \in 1..Len(h) : h[i].id = i,
           InStep(h, t, W, 0), Screen(h, t)
    PROVE  LET d == DispatchAll(t, buf) IN
           d \in Tabs /\ InStep(h, d, W, Len(buf)) /\ Screen(h, d)
<1> DEFINE n == Len(buf)
<1>0. n \in Nat /\ Len(W) \in Nat
  BY LenProperties
<1>1. PICK after : /\ after[0] = t /\ DispatchAll(t, buf) = after[Len(buf)]
                   /\ \A k \in 0..Len(buf) : k < Len(buf) => after[k + 1] = Dispatch(after[k], buf[k + 1])
  BY Dispatching
<1> DEFINE S == {k \in Nat : after[k] \in Tabs /\ InStep(h, after[k], W, k) /\ Screen(h, after[k])}
<1>2. 0 \in S
  BY <1>1
<1>3. ASSUME NEW k \in 0..n, k \in S, k < n PROVE k + 1 \in S
  <2>1. k + 1 \in 1..n /\ k + 1 \in 1..Len(W) /\ k \in 0..Len(W) /\ k < Len(W) /\ k + 1 \in Nat
    BY <1>0, <1>3
  <2>2. after[k + 1] = Dispatch(after[k], W[k + 1]) /\ W[k + 1] \in Frames
    BY <1>1, <1>3, <2>1, SomeFrame
  <2>3. after[k] \in Tabs /\ InStep(h, after[k], W, k) /\ Screen(h, after[k])
    BY <1>3
  <2>4. after[k + 1] \in Tabs
    BY <2>2, <2>3, DispatchOne
  <2>5. InStep(h, after[k + 1], W, k + 1)
    BY <2>1, <2>2, <2>3, InStepNext
  <2>6. Screen(h, after[k + 1])
    BY <2>1, <2>2, <2>3, ScreenNext
  <2> QED
    BY <2>1, <2>4, <2>5, <2>6
<1> HIDE DEF S, n
<1>4. \A k \in 0..n : k \in S
  BY <1>0, <1>2, <1>3, UpTo
<1>5. n \in S
  BY <1>0, <1>4
<1> QED
  BY <1>1, <1>5 DEF S, n

\* A frame without a uuid.
LEMMA InStepSkip ==
    ASSUME NEW h \in Seq(Frames), NEW t, NEW W \in Seq(Frames), NEW k \in 0..Len(W), k < Len(W),
           W[k + 1].kind \notin Unique,
           InStep(h, t, W, k)
    PROVE  InStep(h, t, W, k + 1)
<1>1. ASSUME NEW i \in Recognised(h), NEW j, Ahead(h, W, k, j, i) PROVE Ahead(h, W, k + 1, j, i)
  <2>1. PICK n \in 1..Len(W) : k < n /\ n < j /\ W[n] = h[i]
    BY <1>1 DEF Ahead
  <2>2. n # k + 1
    BY <2>1 DEF Recognised
  <2>3. k + 1 < n
    BY <2>1, <2>2
  <2> QED
    BY <2>1, <2>3 DEF Ahead
<1>2. \A j \in 1..Len(W) : k + 1 < j => k < j
  BY LenProperties
<1> QED
  BY <1>1, <1>2 DEF InStep

-----------------------------------------------------------------------------
(***************************************************************************)
(* What is sent.                                                           *)
(***************************************************************************)
\* Every socket's frames after X was broadcast.
LEMMA Broadcasting ==
    ASSUME TypeOK, NEW X \in Seq(Frames), Broadcast(X)
    PROVE  /\ held' \in [Sockets -> Seq(Frames)] /\ wire' \in [Sockets -> Seq(Frames)]
           /\ \A s \in Sockets :
                /\ held'[s] = IF sub[s] = "pending" THEN held[s] \o X ELSE held[s]
                /\ wire'[s] = IF sub[s] = "live" /\ sock[s] = "open" THEN wire[s] \o X ELSE wire[s]
<1>1. \A s \in Sockets : held[s] \o X \in Seq(Frames) /\ wire[s] \o X \in Seq(Frames)
  BY Joined DEF TypeOK
<1>2. \A s \in Sockets : held[s] \in Seq(Frames) /\ wire[s] \in Seq(Frames)
  BY DEF TypeOK
<1> QED
  BY <1>1, <1>2 DEF Broadcast

\* New records are recorded and broadcast.
Pushed(X, kinds) ==
    /\ Extends(history, X, history') /\ Broadcast(X)
    /\ Len(X) = Len(kinds)
    /\ \A i \in 1..Len(X) : X[i].kind = kinds[i] /\ X[i].id = Len(history) + i

LEMMA Pushing ==
    ASSUME history \in Seq(Frames), Numbered, NEW kinds \in Seq(RecordKinds), Push(kinds)
    PROVE  /\ \E X \in Seq(Frames) : Pushed(X, kinds)
           /\ history' \in Seq(Frames) /\ Numbered'
<1> DEFINE n == Len(history)
           X == [i \in 1..Len(kinds) |-> Record(kinds[i], n + i)]
<1>0. n \in Nat /\ Len(kinds) \in Nat /\ \A i \in 1..Len(kinds) : kinds[i] \in RecordKinds
  BY LenProperties, ElementOfSeq
<1>1. history' = history \o X /\ Broadcast(X)
  BY DEF Push
<1>2. ASSUME NEW i \in 1..Len(kinds)
      PROVE  X[i] \in Frames /\ X[i].kind = kinds[i] /\ X[i].id = n + i
  BY <1>0 DEF Record, Frames, Kinds
<1>3. X \in Seq(Frames) /\ Len(X) = Len(kinds)
  <2>1. X \in [1..Len(kinds) -> Frames]
    BY <1>2
  <2> HIDE DEF X
  <2> QED
    BY <1>0, <2>1
<1> HIDE DEF X, n
<1>4. /\ history' \in Seq(Frames) /\ Len(history') = n + Len(X)
      /\ (\A i \in 1..n : history'[i] = history[i]) /\ (\A i \in 1..Len(X) : history'[n + i] = X[i])
  <2>1. /\ history \o X \in Seq(Frames) /\ Len(history \o X) = Len(history) + Len(X)
        /\ (\A i \in 1..Len(history) : (history \o X)[i] = history[i])
        /\ (\A i \in 1..Len(X) : (history \o X)[Len(history) + i] = X[i])
    <3>1. history \in Seq(Frames) /\ X \in Seq(Frames)
      BY <1>3
    <3> HIDE DEF Frames
    <3> QED
      BY <3>1, Joined
  <2> QED
    BY <1>1, <2>1 DEF n
<1>5. ASSUME NEW i \in 1..Len(history') PROVE history'[i].id = i /\ history'[i].kind \in RecordKinds
  <2>1. CASE i \in 1..n
    BY <1>4, <2>1 DEF Numbered, n
  <2>2. CASE i \notin 1..n
    <3>1. i - n \in 1..Len(X) /\ n + (i - n) = i
      BY <1>0, <1>3, <1>4, <2>2
    <3>2. history'[i] = X[i - n]
      BY <1>4, <3>1
    <3> QED
      BY <1>0, <1>2, <1>3, <3>1, <3>2
  <2> QED
    BY <2>1, <2>2
<1>6. Pushed(X, kinds)
  BY <1>1, <1>2, <1>3, <1>5 DEF Pushed, Extends, n
<1> QED
  BY <1>3, <1>4, <1>5, <1>6 DEF Numbered

\* The kinds the actions push.
LEMMA KindsPushed ==
    /\ <<"message">> \in Seq(RecordKinds) /\ <<"init">> \in Seq(RecordKinds)
    /\ <<"result">> \in Seq(RecordKinds) /\ <<"message", "result">> \in Seq(RecordKinds)
    /\ <<"note", "marker">> \in Seq(RecordKinds) /\ <<"boundary">> \in Seq(RecordKinds)
  BY DEF RecordKinds

LEMMA FramesSent ==
    /\ End \in Frames /\ SyntheticInit \in Frames
    /\ \A n \in Nat : Start(n) \in Frames
    /\ \A p \in Prompts : Prompt(p) \in Frames
    /\ End.kind = "end" /\ SyntheticInit.kind = "synthetic"
    /\ (\A n : Start(n).kind = "start") /\ \A p : Prompt(p).kind = "prompt" /\ Prompt(p).id = p
  BY DEF End, SyntheticInit, Start, Prompt, Frames, Kinds, RecordKinds

LEMMA PromptsSent ==
    ASSUME NEW P \in SUBSET Prompts, IsFiniteSet(P), NEW X \in PromptFrames(P)
    PROVE  /\ X \in Seq(Frames)
           /\ \A i \in 1..Len(X) : \E p \in P : X[i] = Prompt(p)
           /\ \A p \in P : \E i \in 1..Len(X) : X[i] = Prompt(p)
<1> DEFINE n == Cardinality(P)
<1>1. n \in Nat
  BY FS_CardinalityType
<1>2. PICK q \in Bijection(1..n, P) : X = [i \in 1..n |-> Prompt(q[i])]
  BY DEF PromptFrames
<1>3. q \in [1..n -> P] /\ \A p \in P : \E i \in 1..n : q[i] = p
  BY <1>2 DEF Bijection, Injection, Surjection
<1> HIDE DEF n
<1>4. \A i \in 1..n : X[i] = Prompt(q[i]) /\ X[i] \in Frames
  BY <1>2, <1>3, FramesSent
<1>5. X \in Seq(Frames) /\ Len(X) = n
  BY <1>1, <1>2, <1>4
<1> QED
  BY <1>3, <1>4, <1>5

\* One socket is sent X, if it is open.
LEMMA Delivering ==
    ASSUME TypeOK, NEW s \in Sockets, NEW X \in Seq(Frames), Deliver(s, X)
    PROVE  /\ wire' \in [Sockets -> Seq(Frames)]
           /\ wire'[s] = IF sock[s] = "open" THEN wire[s] \o X ELSE wire[s]
           /\ \A r \in Sockets : r # s => wire'[r] = wire[r]
<1>1. wire[s] \o X \in Seq(Frames) /\ wire \in [Sockets -> Seq(Frames)]
  BY Joined DEF TypeOK
<1> QED
  BY <1>1 DEF Deliver

-----------------------------------------------------------------------------
(***************************************************************************)
(* What a step does: it goes on without the sockets, broadcasts frames     *)
(* that are no records, pushes records, moves one attach on, or touches    *)
(* one tab.                                                                *)
(***************************************************************************)
views == <<history, joins, wire, tab>>

Quiet == UNCHANGED views
Announces(X) ==
    /\ X \in Seq(Frames) /\ (\A i \in 1..Len(X) : X[i].kind \in {"start", "prompt"})
    /\ Broadcast(X) /\ UNCHANGED <<history, sub, at, sock, tab>>
Records(kinds) ==
    /\ kinds \in Seq(RecordKinds) /\ Push(kinds)
    /\ UNCHANGED <<sub, at, sock, tab>>
\* The end of the history, and the prompts that wait.
Ends(s, X) ==
    /\ at[s] \in {"tail", "commands"} /\ at' = [at EXCEPT ![s] = "done"]
    /\ X \in Seq(Frames) /\ X # <<>> /\ X[1] = End
    /\ (\A i \in 2..Len(X) : X[i].kind \in {"synthetic", "prompt"})
    /\ Deliver(s, X)
    /\ UNCHANGED <<history, sub, held, sock, tab>>
Collects(s) ==
    /\ at[s] = "tail" /\ at' = [at EXCEPT ![s] = "commands"]
    /\ UNCHANGED <<history, sub, held, sock, wire, tab>>
Touches(s) ==
    /\ sock[s] = "open"
    /\ \E b \in BOOLEAN, p \in Prompts \union {None} :
          tab' = [tab EXCEPT ![s].running = b, ![s].prompt = p]
    /\ tab[s].loading => tab' = tab
    /\ UNCHANGED <<history, joins, wire>>

\* The frames that end the history for s.
LEMMA Ending ==
    ASSUME TypeOK, NEW s \in Sockets, NEW X \in PromptFrames(pending), NEW H,
           H \in {<<End>>, <<End, SyntheticInit>>}
    PROVE  /\ H \o X \in Seq(Frames) /\ H \o X # <<>> /\ (H \o X)[1] = End
           /\ \A i \in 2..Len(H \o X) : (H \o X)[i].kind \in {"synthetic", "prompt"}
<1>1. X \in Seq(Frames) /\ \A i \in 1..Len(X) : X[i].kind = "prompt"
  <2>1. X \in Seq(Frames) /\ \A i \in 1..Len(X) : \E p \in pending : X[i] = Prompt(p)
    BY PromptsSent DEF TypeOK
  <2> QED
    BY <2>1, FramesSent
<1>2. H \in Seq(Frames) /\ Len(H) >= 1 /\ H[1] = End /\ \A i \in 2..Len(H) : H[i].kind = "synthetic"
  <2>1. End \in Frames /\ SyntheticInit \in Frames /\ SyntheticInit.kind = "synthetic"
    BY FramesSent
  <2> HIDE DEF Frames
  <2>2. CASE H = <<End>>
    BY <2>1, <2>2
  <2>3. CASE H = <<End, SyntheticInit>>
    <3>1. H \in Seq(Frames) /\ Len(H) = 2 /\ H[1] = End /\ H[2] = SyntheticInit
      BY <2>1, <2>3
    <3> QED
      BY <2>1, <3>1
  <2> QED
    BY <2>2, <2>3
<1> HIDE DEF Frames
<1>3. /\ H \o X \in Seq(Frames) /\ Len(H \o X) = Len(H) + Len(X) /\ Len(H) \in Nat /\ Len(X) \in Nat
      /\ (\A i \in 1..Len(H) : (H \o X)[i] = H[i]) /\ (\A i \in 1..Len(X) : (H \o X)[Len(H) + i] = X[i])
  BY <1>1, <1>2, Joined
<1> DEFINE V == H \o X
<1> HIDE DEF V
<1>4. V # <<>> /\ V[1] = End /\ V \in Seq(Frames)
  BY <1>2, <1>3 DEF V
<1>5. ASSUME NEW i \in 2..Len(V) PROVE V[i].kind \in {"synthetic", "prompt"}
  <2>1. CASE i \in 1..Len(H)
    <3>1. i \in 2..Len(H) /\ V[i] = H[i]
      BY <1>3, <2>1 DEF V
    <3> QED
      BY <1>2, <3>1
  <2>2. CASE i \notin 1..Len(H)
    <3>1. i - Len(H) \in 1..Len(X) /\ Len(H) + (i - Len(H)) = i
      BY <1>3, <2>2 DEF V
    <3>2. V[i] = X[i - Len(H)]
      BY <1>3, <3>1 DEF V
    <3> QED
      BY <1>1, <3>1, <3>2
  <2> QED
    BY <2>1, <2>2
<1> QED
  BY <1>4, <1>5 DEF V

LEMMA TailStepEnds ==
    ASSUME TypeOK, NEW s \in Sockets, TailStep(s)
    PROVE  Collects(s) \/ \E X : Ends(s, X)
<1>1. CASE turn.generating
  <2>1. PICK X \in PromptFrames(pending) : Deliver(s, <<End, SyntheticInit>> \o X)
    BY <1>1 DEF TailStep
  <2>2. Ends(s, <<End, SyntheticInit>> \o X)
    BY <1>1, <2>1, Ending DEF TailStep, Ends, server
  <2> QED
    BY <2>2
<1>2. CASE ~turn.generating
  BY <1>2 DEF TailStep, Collects, server
<1> QED
  BY <1>1, <1>2

LEMMA CommandsEnds ==
    ASSUME TypeOK, NEW s \in Sockets, Commands(s)
    PROVE  \E X : Ends(s, X)
<1>1. PICK X \in PromptFrames(pending) : Deliver(s, <<End>> \o X)
  BY DEF Commands
<1>2. Ends(s, <<End>> \o X)
  BY <1>1, Ending DEF Commands, Ends, server
<1> QED
  BY <1>2

LEMMA TouchKinds ==
    ASSUME TypeOK, Joins, NEW s \in Sockets, Send(s) \/ Answer(s) \/ Cancel(s)
    PROVE  Touches(s)
<1>1. tab \in [Sockets -> Tabs] /\ tab[s] \in Tabs
  BY DEF TypeOK
<1>2. tab[s].running \in BOOLEAN /\ tab[s].prompt \in Prompts \union {None}
  BY <1>1 DEF Tabs
<1>3. tab[s].loading => tab[s].prompt = None /\ tab[s].running = FALSE
  BY DEF Joins, Joining, FreshTab
<1>4. CASE Send(s)
  <2>1. tab' = [tab EXCEPT ![s].running = TRUE, ![s].prompt = tab[s].prompt]
    BY <1>1, <1>4 DEF Send, Tabs
  <2> QED
    BY <1>2, <1>4, <2>1 DEF Send, Touches, server
<1>5. CASE Answer(s)
  <2>1. tab' = [tab EXCEPT ![s].running = tab[s].running, ![s].prompt = None]
    BY <1>1, <1>5 DEF Answer, Tabs
  <2> QED
    BY <1>2, <1>3, <1>5, <2>1 DEF Answer, Touches
<1>6. CASE Cancel(s)
  <2>1. tab' = [tab EXCEPT ![s].running = FALSE, ![s].prompt = tab[s].prompt]
    BY <1>1, <1>6 DEF Cancel, Tabs
  <2> QED
    BY <1>2, <1>3, <1>6, <2>1 DEF Cancel, Touches
<1> QED
  BY <1>4, <1>5, <1>6

LEMMA StepKinds ==
    ASSUME TypeOK, Joins, [Next]_vars
    PROVE  \/ Quiet
           \/ (Stream \/ \E p \in Prompts : Ask(p)) /\ \E X : Announces(X)
           \/ \E kinds : Records(kinds)
           \/ \E s \in Sockets :
                 \/ Open(s) \/ Register(s) \/ Replay(s) \/ Close(s) \/ Receive(s)
                 \/ TailStep(s) /\ Collects(s)
                 \/ (TailStep(s) \/ Commands(s)) /\ \E X : Ends(s, X)
                 \/ (Send(s) \/ Answer(s) \/ Cancel(s)) /\ Touches(s)
<1>1. CASE UNCHANGED vars
  BY <1>1 DEF vars, views, Quiet, server, joins
<1>2. CASE Arrive
  <2>1. CASE turn.generating \/ queued > 0
    BY <1>2, <2>1 DEF Arrive, Quiet, views, joins
  <2>2. CASE ~(turn.generating \/ queued > 0)
    BY <1>2, <2>2, KindsPushed DEF Arrive, Records
  <2> QED
    BY <2>1, <2>2
<1>3. CASE Lost
  BY <1>3 DEF Lost, Quiet, views, server
<1>4. CASE Begin
  BY <1>4, KindsPushed DEF Begin, Records
<1>5. CASE Stream
  <2>1. Start(Len(history)) \in Frames
    BY LenProperties, FramesSent DEF TypeOK
  <2>2. <<Start(Len(history))>> \in Seq(Frames) /\ Len(<<Start(Len(history))>>) = 1
        /\ <<Start(Len(history))>>[1].kind = "start"
    BY <2>1, FramesSent
  <2>3. Announces(<<Start(Len(history))>>)
    BY <1>5, <2>2 DEF Stream, Announces
  <2> QED
    BY <1>5, <2>3
<1>6. CASE Say
  BY <1>6, KindsPushed DEF Say, Records
<1>7. CASE Result
  BY <1>7, KindsPushed DEF Result, Records
<1>8. CASE Fail
  BY <1>8, KindsPushed DEF Fail, Records
<1>9. ASSUME NEW p \in Prompts, Ask(p) PROVE \E X : Announces(X)
  <2>1. <<Prompt(p)>> \in Seq(Frames) /\ Len(<<Prompt(p)>>) = 1 /\ <<Prompt(p)>>[1].kind = "prompt"
    BY FramesSent
  <2>2. Announces(<<Prompt(p)>>)
    BY <1>9, <2>1 DEF Ask, Announces
  <2> QED
    BY <2>2
<1>10. ASSUME NEW p \in Prompts, TimeOut(p) PROVE Quiet
  BY <1>10 DEF TimeOut, Quiet, views
<1>11. ASSUME NEW s \in Sockets, Clear(s) PROVE \E kinds : Records(kinds)
  BY <1>11, KindsPushed DEF Clear, Records
<1> QED
  BY <1>1, <1>2, <1>3, <1>4, <1>5, <1>6, <1>7, <1>8, <1>9, <1>10, <1>11,
     TailStepEnds, CommandsEnds, TouchKinds DEF Next

-----------------------------------------------------------------------------
(***************************************************************************)
(* Types.                                                                  *)
(***************************************************************************)
LEMMA FreshTabIsTab == FreshTab \in Tabs
  BY DEF FreshTab, Tabs

\* The tab after the frame at the head of the wire.
Received(t, f) ==
    IF ~t.loading THEN Dispatch(t, f)
    ELSE IF f.kind # "end" THEN [t EXCEPT !.buf = Append(@, f)]
    ELSE [DispatchAll(t, t.buf) EXCEPT !.loading = FALSE, !.buf = <<>>, !.running = Unfinished(t.buf)]

LEMMA DispatchSees ==
    ASSUME NEW t \in Tabs, NEW f \in Frames
    PROVE  /\ Dispatch(t, f) \in Tabs
           /\ \A i \in Dispatch(t, f).seen : i \in t.seen \/ (f.kind \in Unique /\ i = f.id)
<1> DEFINE d == Dispatch(t, f)
<1>1. /\ f.kind \in Unique /\ f.id \in t.seen => d.seen = t.seen
      /\ ~(f.kind \in Unique /\ f.id \in t.seen) =>
           d.seen = IF f.kind \in Unique THEN t.seen \union {f.id} ELSE t.seen
      /\ d \in Tabs
  BY DispatchOne
<1> HIDE DEF d
<1> QED
  BY <1>1 DEF d

LEMMA DispatchAllIsTab ==
    ASSUME NEW t \in Tabs, NEW buf \in Seq(Frames)
    PROVE  /\ DispatchAll(t, buf) \in Tabs
           /\ DispatchAll(t, buf).seen \subseteq
                t.seen \union {i \in Nat : \E j \in 1..Len(buf) : buf[j].kind \in Unique /\ buf[j].id = i}
<1>1. PICK after : /\ after[0] = t /\ DispatchAll(t, buf) = after[Len(buf)]
                   /\ \A k \in 0..Len(buf) : k < Len(buf) => after[k + 1] = Dispatch(after[k], buf[k + 1])
  BY Dispatching
<1> DEFINE n == Len(buf)
           all == t.seen \union {i \in Nat : \E j \in 1..Len(buf) : buf[j].kind \in Unique /\ buf[j].id = i}
           S == {k \in Nat : after[k] \in Tabs /\ after[k].seen \subseteq all}
<1>0. n \in Nat
  BY LenProperties
<1>2. 0 \in S
  BY <1>1
<1>3. ASSUME NEW k \in 0..n, k \in S, k < n PROVE k + 1 \in S
  <2> DEFINE f == buf[k + 1]
             d == after[k + 1]
  <2>1. k + 1 \in 1..Len(buf) /\ f \in Frames /\ k + 1 \in Nat
    BY <1>0, <1>3, SomeFrame
  <2>2. d = Dispatch(after[k], f) /\ after[k] \in Tabs /\ after[k].seen \subseteq all
    BY <1>1, <1>3
  <2>3. f.kind \in Unique /\ f.id \in Nat => f.id \in all
    BY <2>1
  <2> HIDE DEF d, f, all
  <2>4. d \in Tabs /\ \A i \in d.seen : i \in after[k].seen \/ (f.kind \in Unique /\ i = f.id)
    BY <2>1, <2>2, DispatchSees
  <2>5. d.seen \subseteq Nat
    BY <2>4 DEF Tabs
  <2>6. d.seen \subseteq all
    BY <2>2, <2>3, <2>4, <2>5
  <2> QED
    BY <2>1, <2>4, <2>6 DEF d
<1> HIDE DEF S, n
<1>4. \A k \in 0..n : k \in S
  BY <1>0, <1>2, <1>3, UpTo
<1>5. n \in S
  BY <1>0, <1>4
<1> QED
  BY <1>1, <1>5 DEF S, n

LEMMA ReceivedIsTab ==
    ASSUME NEW t \in Tabs, NEW f \in Frames
    PROVE  Received(t, f) \in Tabs
<1>1. CASE ~t.loading
  BY <1>1, DispatchOne DEF Received
<1>2. CASE t.loading /\ f.kind # "end"
  <2>1. t.buf \in Seq(Frames)
    BY DEF Tabs
  <2>2. Append(t.buf, f) \in Seq(Frames)
    BY <2>1, AppendProperties
  <2> QED
    BY <1>2, <2>2 DEF Received, Tabs
<1>3. CASE t.loading /\ f.kind = "end"
  <2>1. t.buf \in Seq(Frames)
    BY DEF Tabs
  <2>2. DispatchAll(t, t.buf) \in Tabs
    BY <2>1, DispatchAllIsTab
  <2>3. Unfinished(t.buf) \in BOOLEAN
    BY DEF Unfinished
  <2>4. <<>> \in Seq(Frames)
    OBVIOUS
  <2>5. \A x \in Tabs, b \in BOOLEAN, e \in Seq(Frames) :
          [x EXCEPT !.loading = FALSE, !.buf = e, !.running = b] \in Tabs
    BY DEF Tabs
  <2> QED
    BY <1>3, <2>2, <2>3, <2>4, <2>5 DEF Received
<1> QED
  BY <1>1, <1>2, <1>3

LEMMA Receiving ==
    ASSUME TypeOK, NEW s \in Sockets, Receive(s)
    PROVE  /\ wire[s] \in Seq(Frames) /\ wire[s] # <<>> /\ tab[s] \in Tabs /\ Head(wire[s]) \in Frames
           /\ wire' \in [Sockets -> Seq(Frames)] /\ tab' \in [Sockets -> Tabs]
           /\ wire'[s] = Tail(wire[s]) /\ tab'[s] = Received(tab[s], Head(wire[s]))
           /\ \A r \in Sockets : r # s => wire'[r] = wire[r] /\ tab'[r] = tab[r]
           /\ UNCHANGED <<server, joins, sends, posts>>
<1>1. wire \in [Sockets -> Seq(Frames)] /\ tab \in [Sockets -> Tabs]
  BY DEF TypeOK
<1>2. wire[s] \in Seq(Frames) /\ wire[s] # <<>> /\ tab[s] \in Tabs
  BY <1>1 DEF Receive
<1>3. Head(wire[s]) \in Frames /\ Tail(wire[s]) \in Seq(Frames)
  BY <1>2, Beheaded
<1>4. wire' = [wire EXCEPT ![s] = Tail(wire[s])]
  BY DEF Receive
<1>5. tab' = [tab EXCEPT ![s] = Received(tab[s], Head(wire[s]))]
  BY DEF Receive, Received
<1>6. Received(tab[s], Head(wire[s])) \in Tabs
  BY <1>2, <1>3, ReceivedIsTab
<1> HIDE DEF Tabs, Frames
<1>7. wire' \in [Sockets -> Seq(Frames)]
  BY <1>1, <1>3, <1>4
<1>8. tab' \in [Sockets -> Tabs]
  BY <1>1, <1>5, <1>6
<1> QED
  BY <1>2, <1>3, <1>4, <1>5, <1>7, <1>8 DEF Receive

\* The actions of the turns.
LEMMA TurnTypes ==
    ASSUME TypeOK, Numbered,
           \/ Arrive \/ Lost \/ Begin \/ Stream \/ Say \/ Result \/ Fail
           \/ \E p \in Prompts : Ask(p) \/ TimeOut(p)
    PROVE  TypeOK'
<1>1. ASSUME NEW kinds \in Seq(RecordKinds), Push(kinds)
      PROVE  /\ history' \in Seq(Frames) /\ held' \in [Sockets -> Seq(Frames)]
             /\ wire' \in [Sockets -> Seq(Frames)]
  <2>1. history \in Seq(Frames)
    BY DEF TypeOK
  <2>2. history' \in Seq(Frames) /\ \E X \in Seq(Frames) : Pushed(X, kinds)
    BY <1>1, <2>1, Pushing
  <2> QED
    BY <2>2, Broadcasting DEF Pushed
<1>2. /\ history \in Seq(Frames)
      /\ turn \in [on : BOOLEAN, streamed : BOOLEAN, generating : BOOLEAN]
      /\ inputs \in Nat /\ queued \in Nat /\ sends \in Nat /\ posts \in Nat
      /\ pending \in SUBSET Prompts /\ IsFiniteSet(pending) /\ asked \in SUBSET Prompts
      /\ held \in [Sockets -> Seq(Frames)] /\ wire \in [Sockets -> Seq(Frames)]
  BY DEF TypeOK
<1>3. CASE Arrive
  <2>1. posts' \in Nat /\ inputs' \in Nat /\ queued' \in Nat
    BY <1>2, <1>3 DEF Arrive
  <2>2. /\ history' \in Seq(Frames) /\ held' \in [Sockets -> Seq(Frames)]
        /\ wire' \in [Sockets -> Seq(Frames)]
    BY <1>1, <1>2, <1>3, KindsPushed DEF Arrive
  <2> QED
    BY <1>3, <2>1, <2>2 DEF Arrive, TypeOK
<1>4. CASE Lost
  BY <1>2, <1>4 DEF Lost, TypeOK, server, joins
<1>5. CASE Begin
  <2>1. inputs' \in Nat /\ turn' \in [on : BOOLEAN, streamed : BOOLEAN, generating : BOOLEAN]
    BY <1>2, <1>5 DEF Begin
  <2>2. /\ history' \in Seq(Frames) /\ held' \in [Sockets -> Seq(Frames)]
        /\ wire' \in [Sockets -> Seq(Frames)]
    BY <1>1, <1>5, KindsPushed DEF Begin
  <2> QED
    BY <1>5, <2>1, <2>2 DEF Begin, TypeOK
<1>6. CASE Stream
  <2>1. turn' \in [on : BOOLEAN, streamed : BOOLEAN, generating : BOOLEAN]
    BY <1>2, <1>6 DEF Stream
  <2>2. <<Start(Len(history))>> \in Seq(Frames)
    BY <1>2, LenProperties, FramesSent
  <2>3. held' \in [Sockets -> Seq(Frames)] /\ wire' \in [Sockets -> Seq(Frames)]
    BY <1>6, <2>2, Broadcasting DEF Stream
  <2> QED
    BY <1>6, <2>1, <2>3 DEF Stream, TypeOK
<1>7. CASE Say
  <2>1. /\ history' \in Seq(Frames) /\ held' \in [Sockets -> Seq(Frames)]
        /\ wire' \in [Sockets -> Seq(Frames)]
    BY <1>1, <1>7, KindsPushed DEF Say
  <2> QED
    BY <1>7, <2>1 DEF Say, TypeOK
<1>8. CASE Result
  <2>1. /\ inputs' \in Nat /\ queued' \in Nat
        /\ turn' \in [on : BOOLEAN, streamed : BOOLEAN, generating : BOOLEAN]
    BY <1>2, <1>8 DEF Result, NoTurn
  <2>2. /\ history' \in Seq(Frames) /\ held' \in [Sockets -> Seq(Frames)]
        /\ wire' \in [Sockets -> Seq(Frames)]
    BY <1>1, <1>8, KindsPushed DEF Result
  <2> QED
    BY <1>8, <2>1, <2>2 DEF Result, TypeOK
<1>9. CASE Fail
  <2>1. /\ turn' \in [on : BOOLEAN, streamed : BOOLEAN, generating : BOOLEAN]
        /\ pending' \in SUBSET Prompts /\ IsFiniteSet(pending')
    BY <1>9, FS_EmptySet DEF Fail, NoTurn
  <2>2. /\ history' \in Seq(Frames) /\ held' \in [Sockets -> Seq(Frames)]
        /\ wire' \in [Sockets -> Seq(Frames)]
    BY <1>1, <1>9, KindsPushed DEF Fail
  <2> QED
    BY <1>9, <2>1, <2>2 DEF Fail, TypeOK
<1>10. ASSUME NEW p \in Prompts, Ask(p) PROVE TypeOK'
  <2>1. /\ pending' \in SUBSET Prompts /\ asked' \in SUBSET Prompts /\ IsFiniteSet(pending')
    BY <1>2, <1>10, FS_AddElement DEF Ask
  <2>2. <<Prompt(p)>> \in Seq(Frames)
    BY FramesSent
  <2>3. held' \in [Sockets -> Seq(Frames)] /\ wire' \in [Sockets -> Seq(Frames)]
    BY <1>10, <2>2, Broadcasting DEF Ask
  <2> QED
    BY <1>10, <2>1, <2>3 DEF Ask, TypeOK
<1>11. ASSUME NEW p \in Prompts, TimeOut(p) PROVE TypeOK'
  <2>1. pending' \in SUBSET Prompts /\ IsFiniteSet(pending')
    BY <1>2, <1>11, FS_RemoveElement DEF TimeOut
  <2> QED
    BY <1>11, <2>1 DEF TimeOut, TypeOK, joins
<1> QED
  BY <1>3, <1>4, <1>5, <1>6, <1>7, <1>8, <1>9, <1>10, <1>11

\* The actions of one socket.
LEMMA SocketTypes ==
    ASSUME TypeOK, Numbered, Joins, NEW s \in Sockets,
           \/ Open(s) \/ Register(s) \/ Replay(s) \/ TailStep(s) \/ Commands(s)
           \/ Close(s) \/ Receive(s) \/ Send(s) \/ Answer(s) \/ Cancel(s) \/ Clear(s)
    PROVE  TypeOK'
<1>1. /\ history \in Seq(Frames) /\ held[s] \in Seq(Frames) /\ <<>> \in Seq(Frames)
      /\ sub \in [Sockets -> {"none", "pending", "live"}]
      /\ at \in [Sockets -> {"none", "history", "provider", "tail", "commands", "done"}]
      /\ sock \in [Sockets -> {"new", "open", "closed"}]
      /\ held \in [Sockets -> Seq(Frames)] /\ wire \in [Sockets -> Seq(Frames)]
      /\ tab \in [Sockets -> Tabs] /\ tab[s] \in Tabs
      /\ sends \in Nat /\ posts \in Nat
      /\ pending \in SUBSET Prompts /\ IsFiniteSet(pending)
      /\ turn \in [on : BOOLEAN, streamed : BOOLEAN, generating : BOOLEAN]
  BY DEF TypeOK
<1>2. CASE Open(s)
  <2>1. /\ at' \in [Sockets -> {"none", "history", "provider", "tail", "commands", "done"}]
        /\ sock' \in [Sockets -> {"new", "open", "closed"}]
    BY <1>1, <1>2 DEF Open
  <2> QED
    BY <1>2, <2>1 DEF Open, TypeOK, server
<1>3. CASE Register(s)
  <2>1. /\ at' \in [Sockets -> {"none", "history", "provider", "tail", "commands", "done"}]
        /\ sub' \in [Sockets -> {"none", "pending", "live"}]
        /\ held' \in [Sockets -> Seq(Frames)]
    BY <1>1, <1>3 DEF Register
  <2> QED
    BY <1>3, <2>1 DEF Register, TypeOK, server
<1>4. CASE Replay(s)
  <2>1. /\ at' \in [Sockets -> {"none", "history", "provider", "tail", "commands", "done"}]
        /\ sub' \in [Sockets -> {"none", "pending", "live"}]
        /\ held' \in [Sockets -> Seq(Frames)]
    BY <1>1, <1>4 DEF Replay
  <2>2. history \o held[s] \in Seq(Frames)
    BY <1>1, Joined
  <2>3. wire' \in [Sockets -> Seq(Frames)]
    BY <1>4, <2>2, Delivering DEF Replay
  <2> QED
    BY <1>4, <2>1, <2>3 DEF Replay, TypeOK, server
<1>5. ASSUME NEW X, Ends(s, X) PROVE
        /\ at' \in [Sockets -> {"none", "history", "provider", "tail", "commands", "done"}]
        /\ wire' \in [Sockets -> Seq(Frames)]
  <2>1. at' \in [Sockets -> {"none", "history", "provider", "tail", "commands", "done"}]
    BY <1>1, <1>5 DEF Ends
  <2>2. wire' \in [Sockets -> Seq(Frames)]
    BY <1>5, Delivering DEF Ends
  <2> QED
    BY <2>1, <2>2
<1>6. Collects(s) => /\ at' \in [Sockets -> {"none", "history", "provider", "tail", "commands", "done"}]
                     /\ wire' \in [Sockets -> Seq(Frames)]
  BY <1>1 DEF Collects
<1>7. CASE TailStep(s)
  <2>1. /\ at' \in [Sockets -> {"none", "history", "provider", "tail", "commands", "done"}]
        /\ wire' \in [Sockets -> Seq(Frames)]
    BY <1>5, <1>6, <1>7, TailStepEnds
  <2> QED
    BY <1>7, <2>1 DEF TailStep, TypeOK, server
<1>8. CASE Commands(s)
  <2>1. /\ at' \in [Sockets -> {"none", "history", "provider", "tail", "commands", "done"}]
        /\ wire' \in [Sockets -> Seq(Frames)]
    BY <1>5, <1>8, CommandsEnds
  <2> QED
    BY <1>8, <2>1 DEF Commands, TypeOK, server
<1>9. CASE Close(s)
  <2>1. /\ sock' \in [Sockets -> {"new", "open", "closed"}]
        /\ sub' \in [Sockets -> {"none", "pending", "live"}]
        /\ held' \in [Sockets -> Seq(Frames)] /\ wire' \in [Sockets -> Seq(Frames)]
        /\ tab' \in [Sockets -> Tabs]
    BY <1>1, <1>9, FreshTabIsTab DEF Close
  <2> QED
    BY <1>9, <2>1 DEF Close, TypeOK, server
<1>10. CASE Receive(s)
  BY <1>10, Receiving DEF TypeOK, server, joins
<1>11. Touches(s) => tab' \in [Sockets -> Tabs]
  <2>1. ASSUME NEW b \in BOOLEAN, NEW p \in Prompts \union {None}
        PROVE  [tab EXCEPT ![s].running = b, ![s].prompt = p] \in [Sockets -> Tabs]
    BY <1>1 DEF Tabs
  <2> QED
    BY <2>1 DEF Touches
<1>12. CASE Send(s)
  <2>1. tab' \in [Sockets -> Tabs]
    BY <1>11, <1>12, TouchKinds
  <2> QED
    BY <1>1, <1>12, <2>1 DEF Send, TypeOK, server, joins
<1>13. CASE Answer(s)
  <2>1. pending' = pending \ {tab[s].prompt}
    BY <1>13 DEF Answer
  <2>2. IsFiniteSet(pending \ {tab[s].prompt})
    <3>1. ASSUME NEW x PROVE IsFiniteSet(pending \ {x})
      <4>1. IsFiniteSet(pending)
        BY <1>1
      <4> QED
        BY <4>1, FS_RemoveElement
    <3> QED
      BY <3>1
  <2>3. pending' \in SUBSET Prompts /\ IsFiniteSet(pending')
    BY <1>1, <2>1, <2>2
  <2>4. tab' \in [Sockets -> Tabs]
    BY <1>11, <1>13, TouchKinds
  <2> QED
    BY <1>13, <2>3, <2>4 DEF Answer, TypeOK, joins
<1>14. CASE Cancel(s)
  <2>1. tab' \in [Sockets -> Tabs] /\ pending' \in SUBSET Prompts /\ IsFiniteSet(pending')
    BY <1>1, <1>11, <1>14, TouchKinds, FS_EmptySet DEF Cancel
  <2>2. turn' \in [on : BOOLEAN, streamed : BOOLEAN, generating : BOOLEAN]
    BY <1>1, <1>14 DEF Cancel
  <2> QED
    BY <1>14, <2>1, <2>2 DEF Cancel, TypeOK, joins
<1>15. CASE Clear(s)
  <2>1. pending' \in SUBSET Prompts /\ IsFiniteSet(pending')
    BY <1>15, FS_EmptySet DEF Clear
  <2>2. history' \in Seq(Frames) /\ \E X \in Seq(Frames) : Pushed(X, <<"boundary">>)
    BY <1>1, <1>15, Pushing, KindsPushed DEF Clear
  <2>3. held' \in [Sockets -> Seq(Frames)] /\ wire' \in [Sockets -> Seq(Frames)]
    BY <2>2, Broadcasting DEF Pushed
  <2> QED
    BY <1>15, <2>1, <2>2, <2>3 DEF Clear, TypeOK
<1> QED
  BY <1>2, <1>3, <1>4, <1>7, <1>8, <1>9, <1>10, <1>12, <1>13, <1>14, <1>15

LEMMA TypeStep ==
    ASSUME TypeOK, Numbered, Joins, [Next]_vars
    PROVE  TypeOK'
<1>1. CASE UNCHANGED vars
  BY <1>1 DEF TypeOK, vars, server, joins
<1>2. CASE Next
  BY <1>2, TurnTypes, SocketTypes DEF Next
<1> QED
  BY <1>1, <1>2

LEMMA NumberedStep ==
    ASSUME TypeOK, Numbered, Joins, [Next]_vars
    PROVE  Numbered'
<1>1. UNCHANGED history => Numbered'
  BY DEF Numbered
<1>2. ASSUME NEW kinds \in Seq(RecordKinds), Push(kinds) PROVE Numbered'
  <2>1. history \in Seq(Frames)
    BY DEF TypeOK
  <2> QED
    BY <1>2, <2>1, Pushing
<1>3. UNCHANGED history \/ \E kinds \in Seq(RecordKinds) : Push(kinds)
  <2>1. Quiet \/ (\E X : Announces(X)) => UNCHANGED history
    BY DEF Quiet, views, Announces
  <2>2. (\E kinds : Records(kinds)) => \E kinds \in Seq(RecordKinds) : Push(kinds)
    BY DEF Records
  <2>3. ASSUME NEW s \in Sockets,
               \/ Open(s) \/ Register(s) \/ Replay(s) \/ Close(s) \/ Receive(s)
               \/ Collects(s) \/ (\E X : Ends(s, X)) \/ Touches(s)
        PROVE  UNCHANGED history
    BY <2>3 DEF Open, Register, Replay, Close, Receive, Collects, Ends, Touches, server
  <2> QED
    BY <2>1, <2>2, <2>3, StepKinds
<1> QED
  BY <1>1, <1>2, <1>3

-----------------------------------------------------------------------------
(***************************************************************************)
(* The frames to come.                                                     *)
(***************************************************************************)
LEMMA FramesToCome ==
    ASSUME TypeOK, NEW s \in Sockets
    PROVE  /\ ToCome(s) \in Seq(Frames) /\ wire[s] \in Seq(Frames) /\ held[s] \in Seq(Frames)
           /\ tab[s] \in Tabs /\ tab[s].buf \in Seq(Frames)
           /\ Len(wire[s]) \in Nat /\ Len(tab[s].buf) \in Nat /\ Len(ToCome(s)) \in Nat
<1>1. wire[s] \in Seq(Frames) /\ tab[s] \in Tabs /\ held[s] \in Seq(Frames)
  BY DEF TypeOK
<1>2. tab[s].buf \in Seq(Frames)
  BY <1>1 DEF Tabs
<1>3. ToCome(s) \in Seq(Frames)
  BY <1>1, <1>2, Joined DEF ToCome, Waiting
<1> QED
  BY <1>1, <1>2, <1>3, LenProperties

LEMMA WaitingMore ==
    ASSUME NEW t \in Tabs, NEW w \in Seq(Frames), NEW X \in Seq(Frames)
    PROVE  Waiting(t, w \o X) = Waiting(t, w) \o X
<1>1. t.buf \in Seq(Frames)
  BY DEF Tabs
<1>2. \A b \in Seq(Frames) : (b \o w) \o X = b \o (w \o X)
  BY JoinedAgain
<1>3. (t.buf \o w) \o X = t.buf \o (w \o X)
  BY <1>1, <1>2
<1> QED
  BY <1>3 DEF Waiting

\* A frame goes from the wire to the buffer.
LEMMA WaitingBuffered ==
    ASSUME NEW t \in Tabs, NEW w \in Seq(Frames), w # <<>>, t.loading
    PROVE  Append(t.buf, Head(w)) \o Tail(w) = t.buf \o w
<1>1. t.buf \in Seq(Frames) /\ Head(w) \in Frames /\ Tail(w) \in Seq(Frames) /\ w = <<Head(w)>> \o Tail(w)
  BY Beheaded DEF Tabs
<1>2. <<Head(w)>> \in Seq(Frames) /\ Append(t.buf, Head(w)) = t.buf \o <<Head(w)>>
  BY <1>1, AppendIsConcat
<1> QED
  BY <1>1, <1>2, JoinedAgain

\* The buffer is dispatched up to the end frame, the first on the wire.
LEMMA WaitingRest ==
    ASSUME NEW buf \in Seq(Frames), NEW w \in Seq(Frames), w # <<>>
    PROVE  LET W == buf \o w  k == Len(buf) IN
           /\ W \in Seq(Frames) /\ k \in 0..Len(W) /\ k < Len(W) /\ k + 1 \in 0..Len(W)
           /\ \A i \in 1..k : buf[i] = W[i]
           /\ W[k + 1] = Head(w)
           /\ Tail(w) \in Seq(Frames) /\ Len(Tail(w)) = Len(W) - (k + 1)
           /\ \A i \in 1..Len(Tail(w)) : Tail(w)[i] = W[k + 1 + i]
<1> DEFINE W == buf \o w
           k == Len(buf)
           r == Tail(w)
<1>1. /\ W \in Seq(Frames) /\ Len(W) = k + Len(w) /\ k \in Nat /\ Len(w) \in Nat
      /\ (\A i \in 1..k : W[i] = buf[i]) /\ (\A i \in 1..Len(w) : W[k + i] = w[i])
  BY Joined
<1>2. /\ r \in Seq(Frames) /\ Head(w) = w[1] /\ Len(w) >= 1 /\ Len(r) = Len(w) - 1
      /\ \A i \in 1..Len(r) : r[i] = w[i + 1]
  BY Beheaded
<1> HIDE DEF W, k, r
<1>3. ASSUME NEW i \in 1..Len(r) PROVE r[i] = W[k + 1 + i]
  <2>1. i + 1 \in 1..Len(w) /\ k + (i + 1) = k + 1 + i
    BY <1>1, <1>2
  <2> QED
    BY <1>1, <1>2, <2>1
<1>4. W[k + 1] = Head(w) /\ k < Len(W) /\ k \in 0..Len(W) /\ k + 1 \in 0..Len(W) /\ Len(r) = Len(W) - (k + 1)
  BY <1>1, <1>2
<1> QED
  BY <1>1, <1>2, <1>3, <1>4 DEF W, k, r

\* The cases of a frame received.
LEMMA ReceivedCases ==
    ASSUME NEW t \in Tabs, NEW f
    PROVE  /\ ~t.loading => Received(t, f) = Dispatch(t, f)
           /\ t.loading /\ f.kind # "end" => Received(t, f) = [t EXCEPT !.buf = Append(t.buf, f)]
           /\ t.loading /\ f.kind = "end" =>
                LET d == DispatchAll(t, t.buf)  r == Received(t, f) IN
                /\ r.loading = FALSE /\ r.buf = <<>> /\ r.running = Unfinished(t.buf)
                /\ r.seen = d.seen /\ r.shown = d.shown /\ r.prompt = d.prompt
<1>1. t.loading /\ f.kind = "end" =>
        Received(t, f) = [DispatchAll(t, t.buf) EXCEPT !.loading = FALSE, !.buf = <<>>,
                                                       !.running = Unfinished(t.buf)]
  BY DEF Received
<1>2. DispatchAll(t, t.buf) \in Tabs
  BY DispatchAllIsTab DEF Tabs
<1>3. \A b : \A d \in Tabs : LET r == [d EXCEPT !.loading = FALSE, !.buf = <<>>, !.running = b] IN
        /\ r.loading = FALSE /\ r.buf = <<>> /\ r.running = b
        /\ r.seen = d.seen /\ r.shown = d.shown /\ r.prompt = d.prompt
  BY DEF Tabs
<1>4. /\ ~t.loading => Received(t, f) = Dispatch(t, f)
      /\ t.loading /\ f.kind # "end" => Received(t, f) = [t EXCEPT !.buf = Append(t.buf, f)]
  BY DEF Received
<1> DEFINE d == DispatchAll(t, t.buf)
<1> HIDE DEF d
<1>5. ASSUME t.loading, f.kind = "end"
      PROVE  LET r == Received(t, f) IN
             /\ r.loading = FALSE /\ r.buf = <<>> /\ r.running = Unfinished(t.buf)
             /\ r.seen = d.seen /\ r.shown = d.shown /\ r.prompt = d.prompt
  <2>1. Received(t, f) = [d EXCEPT !.loading = FALSE, !.buf = <<>>, !.running = Unfinished(t.buf)]
    BY <1>1, <1>5 DEF d
  <2>2. d \in Tabs
    BY <1>2 DEF d
  <2> QED
    BY <1>3, <2>1, <2>2
<1> QED
  BY <1>4, <1>5 DEF d

LEMMA JoinedKinds ==
    ASSUME NEW a \in Seq(Frames), NEW b \in Seq(Frames), NEW K,
           \A i \in 1..Len(a) : a[i].kind \notin K, \A i \in 1..Len(b) : b[i].kind \notin K
    PROVE  \A i \in 1..Len(a \o b) : (a \o b)[i].kind \notin K
<1>1. /\ Len(a \o b) = Len(a) + Len(b) /\ Len(a) \in Nat /\ Len(b) \in Nat
      /\ (\A i \in 1..Len(a) : (a \o b)[i] = a[i]) /\ (\A i \in 1..Len(b) : (a \o b)[Len(a) + i] = b[i])
  BY Joined
<1> DEFINE W == a \o b
<1> HIDE DEF W
<1>2. ASSUME NEW i \in 1..Len(W) PROVE W[i].kind \notin K
  <2>1. CASE i \in 1..Len(a)
    BY <1>1, <2>1 DEF W
  <2>2. CASE i \notin 1..Len(a)
    <3>1. i - Len(a) \in 1..Len(b) /\ Len(a) + (i - Len(a)) = i
      BY <1>1, <2>2 DEF W
    <3>2. W[i] = b[i - Len(a)]
      BY <1>1, <3>1 DEF W
    <3> QED
      BY <3>1, <3>2
  <2> QED
    BY <2>1, <2>2
<1> QED
  BY <1>2 DEF W

\* X goes to every socket that follows; it is recorded, or no record.
Sent(X) ==
    /\ X \in Seq(Frames) /\ Broadcast(X) /\ UNCHANGED <<sub, at, sock, tab>>
    /\ \A i \in 1..Len(X) : X[i].kind # "end"
    /\ \/ Extends(history, X, history')
       \/ UNCHANGED history /\ \A i \in 1..Len(X) : X[i].kind \notin Unique

LEMMA RecordsSent ==
    ASSUME TypeOK, Numbered, NEW kinds, Records(kinds)
    PROVE  \E X : /\ Sent(X) /\ Len(X) = Len(kinds)
                  /\ \A i \in 1..Len(X) : X[i].kind = kinds[i] /\ X[i].kind \in RecordKinds
<1>1. kinds \in Seq(RecordKinds) /\ Push(kinds) /\ history \in Seq(Frames)
  BY DEF Records, TypeOK
<1>2. PICK X \in Seq(Frames) : Pushed(X, kinds)
  BY <1>1, Pushing
<1>3. ASSUME NEW i \in 1..Len(X) PROVE X[i].kind = kinds[i] /\ X[i].kind \in RecordKinds
  BY <1>1, <1>2, <1>3, ElementOfSeq DEF Pushed
<1>4. \A i \in 1..Len(X) : X[i].kind # "end"
  BY <1>3 DEF RecordKinds
<1>5. Sent(X) /\ Len(X) = Len(kinds)
  BY <1>2, <1>4 DEF Pushed, Sent, Records
<1> QED
  BY <1>3, <1>5

LEMMA Sending ==
    ASSUME TypeOK, Numbered, (\E X : Announces(X)) \/ (\E kinds : Records(kinds))
    PROVE  \E X : Sent(X)
<1>1. ASSUME NEW X, Announces(X) PROVE Sent(X)
  BY <1>1 DEF Announces, Sent, Unique
<1> QED
  BY <1>1, RecordsSent

LEMMA SentTo ==
    ASSUME TypeOK, NEW X, Sent(X), NEW s \in Sockets
    PROVE  /\ sub[s] = "live" /\ sock[s] = "open" => ToCome(s)' = ToCome(s) \o X
           /\ ~(sub[s] = "live" /\ sock[s] = "open") => wire'[s] = wire[s]
           /\ held'[s] = IF sub[s] = "pending" THEN held[s] \o X ELSE held[s]
<1>1. /\ held'[s] = IF sub[s] = "pending" THEN held[s] \o X ELSE held[s]
      /\ wire'[s] = IF sub[s] = "live" /\ sock[s] = "open" THEN wire[s] \o X ELSE wire[s]
  BY Broadcasting DEF Sent
<1>2. wire'[s] = wire[s] \o X => ToCome(s)' = ToCome(s) \o X
  <2>1. Waiting(tab[s], wire[s] \o X) = Waiting(tab[s], wire[s]) \o X
    BY FramesToCome, WaitingMore DEF Sent
  <2> QED
    BY <2>1 DEF ToCome, Sent
<1> QED
  BY <1>1, <1>2

\* A user of the tab writes: nothing is dispatched.
LEMMA Writing ==
    ASSUME TypeOK, NEW s \in Sockets, Send(s) \/ Answer(s) \/ Cancel(s), NEW r \in Sockets
    PROVE  /\ UNCHANGED <<joins, wire>> /\ ToCome(r)' = ToCome(r)
           /\ r # s => tab'[r] = tab[r]
           /\ tab'[r].loading = tab[r].loading /\ tab'[r].buf = tab[r].buf /\ tab'[r].seen = tab[r].seen
           /\ Send(s) => tab'[s].running = TRUE
           /\ Answer(s) => tab'[s].running = tab[s].running
           /\ Send(s) \/ Cancel(s) => tab'[r].prompt = tab[r].prompt
<1>1. tab \in [Sockets -> Tabs] /\ tab[r] \in Tabs /\ tab[s] \in Tabs
  BY DEF TypeOK
<1>2. UNCHANGED <<joins, wire>>
  BY DEF Send, Answer, Cancel
<1>3. r # s => tab'[r] = tab[r]
  BY <1>1 DEF Send, Answer, Cancel
<1>4. /\ Send(s) => tab'[s] = [tab[s] EXCEPT !.running = TRUE]
      /\ Answer(s) => tab'[s] = [tab[s] EXCEPT !.prompt = None]
      /\ Cancel(s) => tab'[s] = [tab[s] EXCEPT !.running = FALSE]
  BY <1>1 DEF Send, Answer, Cancel
<1>5. \A t \in Tabs, b \in BOOLEAN :
        LET u == [t EXCEPT !.running = b] IN
        /\ u.loading = t.loading /\ u.buf = t.buf /\ u.seen = t.seen /\ u.prompt = t.prompt /\ u.running = b
  BY DEF Tabs
<1>6. \A t \in Tabs :
        LET u == [t EXCEPT !.prompt = None] IN
        /\ u.loading = t.loading /\ u.buf = t.buf /\ u.seen = t.seen /\ u.running = t.running
  BY DEF Tabs
<1>7. /\ tab'[s].loading = tab[s].loading /\ tab'[s].buf = tab[s].buf /\ tab'[s].seen = tab[s].seen
      /\ Send(s) => tab'[s].running = TRUE
      /\ Answer(s) => tab'[s].running = tab[s].running
      /\ Send(s) \/ Cancel(s) => tab'[s].prompt = tab[s].prompt
  <2>1. Send(s) => LET u == tab'[s]  t == tab[s] IN
          u.loading = t.loading /\ u.buf = t.buf /\ u.seen = t.seen /\ u.prompt = t.prompt /\ u.running = TRUE
    BY <1>1, <1>4, <1>5
  <2>2. Cancel(s) => LET u == tab'[s]  t == tab[s] IN
          u.loading = t.loading /\ u.buf = t.buf /\ u.seen = t.seen /\ u.prompt = t.prompt
    BY <1>1, <1>4, <1>5
  <2>3. Answer(s) => LET u == tab'[s]  t == tab[s] IN
          u.loading = t.loading /\ u.buf = t.buf /\ u.seen = t.seen /\ u.running = t.running
    BY <1>1, <1>4, <1>6
  <2> QED
    BY <2>1, <2>2, <2>3
<1>8. /\ tab'[r].loading = tab[r].loading /\ tab'[r].buf = tab[r].buf /\ tab'[r].seen = tab[r].seen
      /\ Send(s) \/ Cancel(s) => tab'[r].prompt = tab[r].prompt
  BY <1>3, <1>7
<1>9. ToCome(r)' = ToCome(r)
  BY <1>2, <1>8 DEF ToCome, Waiting
<1> QED
  BY <1>2, <1>3, <1>7, <1>8, <1>9
\* V is W without its first k frames.
Rest(W, k, V) ==
    /\ V \in Seq(Frames) /\ k \in 0..Len(W) /\ Len(V) = Len(W) - k
    /\ \A i \in 1..Len(V) : V[i] = W[k + i]

LEMMA Buffering ==
    ASSUME TypeOK, NEW s \in Sockets, Receive(s), tab[s].loading, Head(wire[s]).kind # "end"
    PROVE  /\ tab'[s] = [tab[s] EXCEPT !.buf = tab'[s].buf]
           /\ Len(tab'[s].buf) = Len(tab[s].buf) + 1
           /\ ToCome(s)[Len(tab[s].buf) + 1].kind # "end"
           /\ ToCome(s)' = ToCome(s)
<1> DEFINE f == Head(wire[s])
           t == tab[s]
<1>1. wire[s] \in Seq(Frames) /\ wire[s] # <<>> /\ t \in Tabs /\ t.buf \in Seq(Frames) /\ f \in Frames
  BY FramesToCome, Receiving
<1>2. tab'[s] = [t EXCEPT !.buf = Append(t.buf, f)] /\ wire'[s] = Tail(wire[s])
  <2>1. tab'[s] = Received(t, f) /\ wire'[s] = Tail(wire[s])
    BY Receiving
  <2>2. Received(t, f) = [t EXCEPT !.buf = Append(t.buf, f)]
    BY <1>1, ReceivedCases
  <2> QED
    BY <2>1, <2>2
<1>3. tab'[s].buf = Append(t.buf, f) /\ tab'[s].loading
  BY <1>1, <1>2 DEF Tabs
<1>4. Append(t.buf, f) \o Tail(wire[s]) = t.buf \o wire[s]
  BY <1>1, WaitingBuffered
<1>5. ToCome(s)' = ToCome(s)
  BY <1>2, <1>3, <1>4 DEF ToCome, Waiting
<1>6. (t.buf \o wire[s])[Len(t.buf) + 1] = f
  BY <1>1, WaitingRest
<1>7. Len(tab'[s].buf) = Len(t.buf) + 1
  BY <1>1, <1>3, Appended
<1>8. tab'[s] = [t EXCEPT !.buf = tab'[s].buf]
  BY <1>2, <1>3
<1> QED
  BY <1>5, <1>6, <1>7, <1>8 DEF ToCome, Waiting

LEMMA Loaded ==
    ASSUME TypeOK, NEW s \in Sockets, Receive(s), tab[s].loading, Head(wire[s]).kind = "end"
    PROVE  LET t == tab[s]  k == Len(t.buf)  d == DispatchAll(t, t.buf)  W == ToCome(s) IN
           /\ k \in 0..Len(W) /\ k < Len(W) /\ W[k + 1].kind = "end"
           /\ \A i \in 1..k : t.buf[i] = W[i]
           /\ Rest(W, k + 1, ToCome(s)')
           /\ tab'[s].loading = FALSE /\ tab'[s].running = Unfinished(t.buf)
           /\ tab'[s].seen = d.seen /\ tab'[s].shown = d.shown /\ tab'[s].prompt = d.prompt
<1>1. /\ wire[s] \in Seq(Frames) /\ wire[s] # <<>> /\ tab[s] \in Tabs /\ tab[s].buf \in Seq(Frames)
      /\ wire'[s] = Tail(wire[s]) /\ tab'[s] = Received(tab[s], Head(wire[s]))
  BY FramesToCome, Receiving
<1>2. LET t == tab[s]  d == DispatchAll(t, t.buf) IN
      /\ tab'[s].loading = FALSE /\ tab'[s].running = Unfinished(t.buf)
      /\ tab'[s].seen = d.seen /\ tab'[s].shown = d.shown /\ tab'[s].prompt = d.prompt
  <2> DEFINE t == tab[s]  f == Head(wire[s])  d == DispatchAll(t, t.buf)  r == Received(t, f)
  <2>1. t \in Tabs /\ t.loading /\ f.kind = "end"
    BY <1>1
  <2>2. /\ r.loading = FALSE /\ r.running = Unfinished(t.buf)
        /\ r.seen = d.seen /\ r.shown = d.shown /\ r.prompt = d.prompt
    BY <2>1, ReceivedCases
  <2>3. tab'[s] = r
    BY <1>1
  <2> HIDE DEF d, r
  <2>4. /\ tab'[s].loading = FALSE /\ tab'[s].running = Unfinished(t.buf)
        /\ tab'[s].seen = d.seen /\ tab'[s].shown = d.shown /\ tab'[s].prompt = d.prompt
    BY <2>2, <2>3
  <2> QED
    BY <2>4 DEF d
<1>3. ToCome(s) = tab[s].buf \o wire[s] /\ ToCome(s)' = Tail(wire[s])
  BY <1>1, <1>2 DEF ToCome, Waiting
<1>4. LET W == tab[s].buf \o wire[s]  k == Len(tab[s].buf) IN
      /\ k \in 0..Len(W) /\ k < Len(W) /\ W[k + 1].kind = "end"
      /\ (\A i \in 1..k : tab[s].buf[i] = W[i])
      /\ Rest(W, k + 1, Tail(wire[s]))
  BY <1>1, WaitingRest DEF Rest
<1> QED
  BY <1>2, <1>3, <1>4

LEMMA Live ==
    ASSUME TypeOK, NEW s \in Sockets, Receive(s), ~tab[s].loading
    PROVE  LET W == ToCome(s) IN
           /\ 0 \in 0..Len(W) /\ 0 < Len(W) /\ W[1] \in Frames
           /\ Rest(W, 1, ToCome(s)')
           /\ tab'[s] = Dispatch(tab[s], W[1]) /\ tab'[s].loading = FALSE
<1>1. /\ wire[s] \in Seq(Frames) /\ wire[s] # <<>> /\ tab[s] \in Tabs /\ Head(wire[s]) \in Frames
      /\ wire'[s] = Tail(wire[s]) /\ tab'[s] = Received(tab[s], Head(wire[s]))
  BY Receiving
<1>2. tab'[s] = Dispatch(tab[s], Head(wire[s])) /\ tab'[s].loading = tab[s].loading
  <2> DEFINE t == tab[s]  f == Head(wire[s])
  <2>1. Received(t, f) = Dispatch(t, f)
    BY <1>1, ReceivedCases
  <2>2. Dispatch(t, f).loading = t.loading
    BY <1>1, DispatchOne
  <2> QED
    BY <1>1, <2>1, <2>2
<1>3. tab[s].loading = FALSE
  BY <1>1 DEF Tabs
<1>4. ToCome(s) = wire[s] /\ ToCome(s)' = Tail(wire[s])
  BY <1>1, <1>2, <1>3 DEF ToCome, Waiting
<1>5. /\ Len(wire[s]) \in Nat /\ Len(wire[s]) >= 1 /\ Head(wire[s]) = wire[s][1]
      /\ Tail(wire[s]) \in Seq(Frames) /\ Len(Tail(wire[s])) = Len(wire[s]) - 1
      /\ \A i \in 1..Len(Tail(wire[s])) : Tail(wire[s])[i] = wire[s][i + 1]
  BY <1>1, Beheaded
<1>6. Rest(wire[s], 1, Tail(wire[s]))
  <2> DEFINE r == Tail(wire[s])
  <2> HIDE DEF r
  <2>1. \A i \in 1..Len(r) : i + 1 = 1 + i
    OBVIOUS
  <2>2. r \in Seq(Frames) /\ Len(r) = Len(wire[s]) - 1 /\ 1 \in 0..Len(wire[s])
    BY <1>5 DEF r
  <2>3. \A i \in 1..Len(r) : r[i] = wire[s][1 + i]
    BY <1>5, <2>1 DEF r
  <2> QED
    BY <2>2, <2>3 DEF Rest, r
<1> QED
  BY <1>1, <1>2, <1>3, <1>4, <1>5, <1>6

-----------------------------------------------------------------------------
(***************************************************************************)
(* Attach stands where it stands.                                          *)
(***************************************************************************)
LEMMA JoiningSame ==
    ASSUME Joins, NEW r \in Sockets,
           sock'[r] = sock[r], at'[r] = at[r], sub'[r] = sub[r], wire'[r] = wire[r], tab'[r] = tab[r]
    PROVE  Joining(r)'
<1>1. ToCome(r)' = ToCome(r)
  BY DEF ToCome
<1>2. Joining(r)
  BY DEF Joins
<1> QED
  BY <1>1, <1>2 DEF Joining, Following

LEMMA JoiningSent ==
    ASSUME TypeOK, Joins, NEW X, Sent(X), NEW r \in Sockets
    PROVE  Joining(r)'
<1>1. CASE sub[r] = "live" /\ sock[r] = "open"
  <2>1. ToCome(r)' = ToCome(r) \o X /\ ToCome(r) \in Seq(Frames) /\ X \in Seq(Frames)
    BY <1>1, SentTo, FramesToCome DEF Sent
  <2>2. at[r] \notin {"none", "history", "provider"}
    BY <1>1 DEF Joins, Joining
  <2>3. ASSUME at[r] \in {"tail", "commands"}
        PROVE  \A i \in 1..Len(ToCome(r)') : ToCome(r)'[i].kind \notin {"end"}
    <3>1. \A i \in 1..Len(ToCome(r)) : ToCome(r)[i].kind \notin {"end"}
      BY <1>1, <2>3 DEF Joins, Joining
    <3>2. \A i \in 1..Len(X) : X[i].kind \notin {"end"}
      BY DEF Sent
    <3> HIDE DEF ToCome
    <3>3. \A i \in 1..Len(ToCome(r) \o X) : (ToCome(r) \o X)[i].kind \notin {"end"}
      BY <2>1, <3>1, <3>2, JoinedKinds
    <3> QED
      BY <2>1, <3>3
  <2>4. Joining(r)
    BY DEF Joins
  <2>5. sub' = sub /\ sock' = sock /\ at' = at /\ tab' = tab
    BY DEF Sent
  <2> QED
    BY <1>1, <2>2, <2>3, <2>4, <2>5 DEF Joining, Following
<1>2. CASE ~(sub[r] = "live" /\ sock[r] = "open")
  BY <1>2, SentTo, JoiningSame DEF Sent
<1> QED
  BY <1>1, <1>2

LEMMA JoiningReceived ==
    ASSUME TypeOK, Joins, NEW s \in Sockets, Receive(s)
    PROVE  Joining(s)'
<1>1. Joining(s) /\ sock[s] \in {"new", "open", "closed"}
      /\ at[s] \in {"none", "history", "provider", "tail", "commands", "done"}
  BY DEF Joins, TypeOK
<1>2. at[s] \notin {"none", "history", "provider"} /\ sock[s] = "open"
  BY <1>1 DEF Receive, Joining
<1>3. sub' = sub /\ sock' = sock /\ at' = at
  BY DEF Receive, joins
<1>4. CASE tab[s].loading /\ Head(wire[s]).kind # "end"
  <2>1. tab'[s] = [tab[s] EXCEPT !.buf = tab'[s].buf] /\ ToCome(s)' = ToCome(s)
    BY <1>4, Buffering
  <2>2. tab[s] = [FreshTab EXCEPT !.buf = tab[s].buf]
    BY <1>1, <1>4 DEF Joining
  <2>3. tab'[s] = [FreshTab EXCEPT !.buf = tab'[s].buf] /\ tab'[s].loading
    BY <2>1, <2>2 DEF FreshTab
  <2> QED
    BY <1>1, <1>2, <1>3, <2>1, <2>3 DEF Joining, Following
<1>5. CASE tab[s].loading /\ Head(wire[s]).kind = "end"
  <2>1. /\ Len(tab[s].buf) \in 0..Len(ToCome(s)) /\ Len(tab[s].buf) < Len(ToCome(s))
        /\ ToCome(s)[Len(tab[s].buf) + 1].kind = "end" /\ tab'[s].loading = FALSE
    BY <1>5, Loaded
  <2>2. Len(tab[s].buf) + 1 \in 1..Len(ToCome(s))
    BY <2>1, FramesToCome
  <2>3. at[s] = "done"
    BY <1>1, <1>2, <2>1, <2>2 DEF Joining
  <2> QED
    BY <1>1, <1>2, <1>3, <2>1, <2>3 DEF Joining, Following
<1>6. CASE ~tab[s].loading
  <2>1. tab'[s].loading = FALSE
    BY <1>6, Live
  <2>2. at[s] = "done"
    BY <1>1, <1>2, <1>6 DEF Joining
  <2> QED
    BY <1>1, <1>2, <1>3, <2>1, <2>2 DEF Joining, Following
<1> QED
  BY <1>4, <1>5, <1>6

\* The history and what was kept back go to an open socket.
LEMMA Replaying ==
    ASSUME TypeOK, Numbered, Joins, HeldIsHistory, NEW s \in Sockets, Replay(s), sock[s] = "open"
    PROVE  /\ held[s] \in Seq(Frames) /\ history \in Seq(Frames) /\ tab[s] = FreshTab
           /\ ToCome(s)' = history \o held[s] /\ sub'[s] = "live" /\ at'[s] = "tail"
           /\ tab' = tab /\ sock' = sock
           /\ \A i \in 1..Len(ToCome(s)') : ToCome(s)'[i].kind # "end"
<1>1. /\ history \in Seq(Frames) /\ held[s] \in Seq(Frames) /\ Deliver(s, history \o held[s])
      /\ at[s] = "provider" /\ tab' = tab /\ sock' = sock
      /\ sub \in [Sockets -> {"none", "pending", "live"}]
      /\ at \in [Sockets -> {"none", "history", "provider", "tail", "commands", "done"}]
  BY DEF Replay, TypeOK
<1>2. sub[s] = "pending" /\ wire[s] = <<>> /\ tab[s] = FreshTab
  BY <1>1 DEF Joins, Joining
<1>3. history \o held[s] \in Seq(Frames)
  BY <1>1, Joined
<1>4. wire'[s] = wire[s] \o (history \o held[s])
  BY <1>3, <1>1, Delivering
<1>5. \A z \in Seq(Frames) : <<>> \o z = z
  BY ConcatEmptySeq
<1>6. ToCome(s)' = history \o held[s]
  <2>1. wire'[s] = history \o held[s]
    BY <1>2, <1>3, <1>4, <1>5
  <2>2. ToCome(s)' = <<>> \o (history \o held[s])
    BY <1>1, <1>2, <2>1 DEF ToCome, Waiting, FreshTab
  <2> QED
    BY <1>3, <1>5, <2>2
<1>7. \A i \in 1..Len(history \o held[s]) : (history \o held[s])[i].kind \notin {"end"}
  <2>1. \A i \in 1..Len(history) : history[i].kind \notin {"end"}
    BY DEF Numbered, RecordKinds
  <2>2. \A i \in 1..Len(held[s]) : held[s][i].kind \notin {"end"}
    BY <1>1 DEF HeldIsHistory
  <2> QED
    BY <1>1, <2>1, <2>2, JoinedKinds
<1>8. sub'[s] = "live" /\ at'[s] = "tail"
  BY <1>1, <1>2 DEF Replay
<1> QED
  BY <1>1, <1>2, <1>6, <1>7, <1>8

LEMMA Ended ==
    ASSUME TypeOK, NEW s \in Sockets, NEW X, Ends(s, X)
    PROVE  /\ at'[s] = "done" /\ sub' = sub /\ tab' = tab /\ sock' = sock /\ X \in Seq(Frames)
           /\ sock[s] = "open" => ToCome(s)' = ToCome(s) \o X
           /\ sock[s] # "open" => wire'[s] = wire[s]
           /\ \A r \in Sockets : r # s => wire'[r] = wire[r] /\ at'[r] = at[r]
<1>1. /\ at'[s] = "done" /\ sub' = sub /\ tab' = tab /\ sock' = sock /\ X \in Seq(Frames)
      /\ \A r \in Sockets : r # s => at'[r] = at[r]
  BY DEF Ends, TypeOK
<1>2. /\ wire'[s] = IF sock[s] = "open" THEN wire[s] \o X ELSE wire[s]
      /\ \A r \in Sockets : r # s => wire'[r] = wire[r]
  BY Delivering DEF Ends
<1>3. Waiting(tab[s], wire[s] \o X) = Waiting(tab[s], wire[s]) \o X
  BY <1>1, FramesToCome, WaitingMore
<1>4. sock[s] = "open" => ToCome(s)' = ToCome(s) \o X
  BY <1>1, <1>2, <1>3 DEF ToCome
<1> QED
  BY <1>1, <1>2, <1>4

LEMMA JoinsStep ==
    ASSUME TypeOK, Numbered, Joins, HeldIsHistory, [Next]_vars
    PROVE  Joins'
<1> SUFFICES ASSUME NEW r \in Sockets PROVE Joining(r)'
  BY DEF Joins
<1>0. /\ Joining(r) /\ sub \in [Sockets -> {"none", "pending", "live"}]
      /\ at \in [Sockets -> {"none", "history", "provider", "tail", "commands", "done"}]
      /\ sock \in [Sockets -> {"new", "open", "closed"}]
      /\ tab \in [Sockets -> Tabs] /\ wire \in [Sockets -> Seq(Frames)]
  BY DEF Joins, TypeOK
<1>1. CASE Quiet
  BY <1>1, JoiningSame DEF Quiet, views, joins
<1>2. CASE (\E X : Announces(X)) \/ (\E kinds : Records(kinds))
  BY <1>2, Sending, JoiningSent
<1>3. ASSUME NEW s \in Sockets, Open(s) PROVE Joining(r)'
  <2>1. CASE r # s
    BY <1>0, <1>3, <2>1, JoiningSame DEF Open
  <2>2. CASE r = s
    <3>1. sock'[r] = "open" /\ at'[r] = "history" /\ sub'[r] = sub[r] /\ wire'[r] = wire[r] /\ tab'[r] = tab[r]
      BY <1>0, <1>3, <2>2 DEF Open
    <3>2. sock[r] = "new" /\ at[r] = "none" /\ sub[r] = "none" /\ wire[r] = <<>> /\ tab[r] = FreshTab
      BY <1>0, <1>3, <2>2 DEF Open, Joining
    <3> QED
      BY <1>0, <3>1, <3>2 DEF Joining, Following
  <2> QED
    BY <2>1, <2>2
<1>4. ASSUME NEW s \in Sockets, Register(s) PROVE Joining(r)'
  <2>1. CASE r # s
    BY <1>0, <1>4, <2>1, JoiningSame DEF Register
  <2>2. CASE r = s
    <3>1. sock'[r] = sock[r] /\ at'[r] = "provider" /\ sub'[r] = "pending" /\ wire'[r] = wire[r] /\ tab'[r] = tab[r]
      BY <1>0, <1>4, <2>2 DEF Register
    <3>2. at[r] = "history"
      BY <1>4, <2>2 DEF Register
    <3> QED
      BY <1>0, <3>1, <3>2 DEF Joining, Following
  <2> QED
    BY <2>1, <2>2
<1>5. ASSUME NEW s \in Sockets, Replay(s) PROVE Joining(r)'
  <2>0. /\ history \in Seq(Frames) /\ held[s] \in Seq(Frames) /\ Deliver(s, history \o held[s])
        /\ at[s] = "provider" /\ tab' = tab /\ sock' = sock
    BY <1>5 DEF Replay, TypeOK
  <2>1. history \o held[s] \in Seq(Frames)
    BY <2>0, Joined
  <2>2. CASE r # s
    <3>1. wire'[r] = wire[r]
      BY <2>0, <2>1, <2>2, Delivering
    <3> QED
      BY <1>0, <1>5, <2>0, <2>2, <3>1, JoiningSame DEF Replay
  <2>3. CASE r = s /\ sock[r] # "open"
    <3>1. at'[r] = "tail" /\ wire'[r] = wire[r]
      BY <1>0, <1>5, <2>0, <2>1, <2>3, Delivering DEF Replay
    <3> QED
      BY <1>0, <2>0, <2>3, <3>1 DEF Joining, Following
  <2>4. CASE r = s /\ sock[r] = "open"
    <3>1. /\ tab[r] = FreshTab /\ tab' = tab /\ sock' = sock /\ sub'[r] = "live" /\ at'[r] = "tail"
          /\ \A i \in 1..Len(ToCome(r)') : ToCome(r)'[i].kind # "end"
      BY <1>5, <2>4, Replaying
    <3>2. FreshTab = [FreshTab EXCEPT !.buf = FreshTab.buf] /\ FreshTab.loading
      BY DEF FreshTab
    <3> QED
      BY <2>4, <3>1, <3>2 DEF Joining, Following
  <2> QED
    BY <2>2, <2>3, <2>4
<1>6. ASSUME NEW s \in Sockets, NEW X, Ends(s, X) PROVE Joining(r)'
  <2>0. at[s] \in {"tail", "commands"}
    BY <1>6 DEF Ends
  <2>1. /\ at'[s] = "done" /\ sub' = sub /\ tab' = tab /\ sock' = sock
        /\ sock[s] # "open" => wire'[s] = wire[s]
        /\ \A q \in Sockets : q # s => wire'[q] = wire[q] /\ at'[q] = at[q]
    BY <1>6, Ended
  <2>2. CASE r # s
    BY <2>1, <2>2, JoiningSame
  <2>3. CASE r = s
    BY <1>0, <2>0, <2>1, <2>3 DEF Joining, Following
  <2> QED
    BY <2>2, <2>3
<1>7. ASSUME NEW s \in Sockets, Collects(s) PROVE Joining(r)'
  <2>1. CASE r # s
    BY <1>0, <1>7, <2>1, JoiningSame DEF Collects
  <2>2. CASE r = s
    <3>1. at[r] = "tail" /\ at'[r] = "commands" /\ sub' = sub /\ tab' = tab /\ sock' = sock /\ wire' = wire
      BY <1>0, <1>7, <2>2 DEF Collects
    <3> QED
      BY <1>0, <3>1 DEF Joining, Following, ToCome
  <2> QED
    BY <2>1, <2>2
<1>8. ASSUME NEW s \in Sockets, Close(s) PROVE Joining(r)'
  <2>1. CASE r # s
    BY <1>0, <1>8, <2>1, JoiningSame DEF Close
  <2>2. CASE r = s
    <3>1. /\ sock[r] = "open" /\ sock'[r] = "closed" /\ at' = at /\ wire'[r] = <<>> /\ tab'[r] = FreshTab
      BY <1>0, <1>8, <2>2 DEF Close
    <3> QED
      BY <1>0, <3>1 DEF Joining, Following, FreshTab
  <2> QED
    BY <2>1, <2>2
<1>9. ASSUME NEW s \in Sockets, Receive(s) PROVE Joining(r)'
  <2>1. CASE r # s
    BY <1>9, <2>1, Receiving, JoiningSame DEF joins
  <2> QED
    BY <1>9, <2>1, JoiningReceived
<1>10. ASSUME NEW s \in Sockets, Touches(s) PROVE Joining(r)'
  <2>1. CASE r # s \/ tab[s].loading
    BY <1>0, <1>10, <2>1, JoiningSame DEF Touches, joins
  <2>2. CASE r = s /\ ~tab[s].loading
    <3>1. /\ sock[r] = "open" /\ at' = at /\ sub' = sub /\ sock' = sock /\ wire' = wire
          /\ tab'[r].loading = tab[r].loading
      BY <1>0, <1>10, <2>2 DEF Touches, joins, Tabs
    <3>2. tab[r] # FreshTab
      BY <2>2 DEF FreshTab
    <3> QED
      BY <1>0, <2>2, <3>1, <3>2 DEF Joining, Following
  <2> QED
    BY <2>1, <2>2
<1> QED
  BY <1>1, <1>2, <1>3, <1>4, <1>5, <1>6, <1>7, <1>8, <1>9, <1>10, StepKinds

-----------------------------------------------------------------------------
(***************************************************************************)
(* What was kept back.                                                     *)
(***************************************************************************)
LEMMA SentGenuine ==
    ASSUME TypeOK, NEW X, Sent(X)
    PROVE  /\ \A f : Genuine(history, f) => Genuine(history', f)
           /\ \A i \in 1..Len(X) : X[i].kind \in Unique => Genuine(history', X[i])
<1>1. history \in Seq(Frames) /\ X \in Seq(Frames)
  BY DEF TypeOK, Sent
<1>2. CASE Extends(history, X, history')
  <2>1. /\ Len(history') = Len(history) + Len(X) /\ Len(history) \in Nat /\ Len(X) \in Nat
        /\ \A i \in 1..Len(X) : history'[Len(history) + i] = X[i]
        /\ \A f : Genuine(history, f) => Genuine(history', f)
    BY <1>1, <1>2, Extending
  <2>2. ASSUME NEW i \in 1..Len(X) PROVE Genuine(history', X[i])
    <3>1. Len(history) + i \in 1..Len(history')
      BY <2>1
    <3>2. X[i] = history'[Len(history) + i]
      BY <2>1
    <3>3. X[i].id = Len(history) + i
      BY <1>2, <3>1, <3>2 DEF Extends
    <3> QED
      BY <3>1, <3>2, <3>3 DEF Genuine
  <2> QED
    BY <2>1, <2>2
<1>3. CASE UNCHANGED history /\ \A i \in 1..Len(X) : X[i].kind \notin Unique
  BY <1>3
<1> QED
  BY <1>2, <1>3 DEF Sent

Kept(h, f) == f.kind # "end" /\ (f.kind \in Unique => Genuine(h, f))

LEMMA JoinedKept ==
    ASSUME NEW h, NEW a \in Seq(Frames), NEW b \in Seq(Frames),
           \A i \in 1..Len(a) : Kept(h, a[i]), \A i \in 1..Len(b) : Kept(h, b[i])
    PROVE  \A i \in 1..Len(a \o b) : Kept(h, (a \o b)[i])
<1>1. /\ Len(a \o b) = Len(a) + Len(b) /\ Len(a) \in Nat /\ Len(b) \in Nat
      /\ (\A i \in 1..Len(a) : (a \o b)[i] = a[i]) /\ (\A i \in 1..Len(b) : (a \o b)[Len(a) + i] = b[i])
  BY Joined
<1> DEFINE W == a \o b
<1> HIDE DEF W
<1>2. ASSUME NEW i \in 1..Len(W) PROVE Kept(h, W[i])
  <2>1. CASE i \in 1..Len(a)
    BY <1>1, <2>1 DEF W
  <2>2. CASE i \notin 1..Len(a)
    <3>1. i - Len(a) \in 1..Len(b) /\ Len(a) + (i - Len(a)) = i
      BY <1>1, <2>2 DEF W
    <3>2. W[i] = b[i - Len(a)]
      BY <1>1, <3>1 DEF W
    <3> QED
      BY <3>1, <3>2
  <2> QED
    BY <2>1, <2>2
<1> QED
  BY <1>2 DEF W

LEMMA HeldStep ==
    ASSUME TypeOK, Numbered, Joins, HeldIsHistory, [Next]_vars
    PROVE  HeldIsHistory'
<1> DEFINE Holds(r) == \A j \in 1..Len(held[r]) : Kept(history, held[r][j])
<1> SUFFICES ASSUME NEW r \in Sockets, at'[r] = "provider", sock'[r] = "open"
             PROVE  \A j \in 1..Len(held'[r]) : Kept(history', held'[r][j])
  BY DEF HeldIsHistory, Kept
<1>0. /\ at[r] = "provider" /\ sock[r] = "open" => Holds(r)
      /\ sub \in [Sockets -> {"none", "pending", "live"}]
      /\ at \in [Sockets -> {"none", "history", "provider", "tail", "commands", "done"}]
      /\ sock \in [Sockets -> {"new", "open", "closed"}]
      /\ held \in [Sockets -> Seq(Frames)] /\ <<>> \in Seq(Frames)
  BY DEF HeldIsHistory, TypeOK, Kept
<1>1. ASSUME at[r] = "provider", sock[r] = "open", held'[r] = held[r], history' = history
      PROVE  \A j \in 1..Len(held'[r]) : Kept(history', held'[r][j])
  BY <1>0, <1>1
<1>2. CASE Quiet
  BY <1>1, <1>2 DEF Quiet, views, joins
<1>3. ASSUME NEW X, Sent(X) PROVE \A j \in 1..Len(held'[r]) : Kept(history', held'[r][j])
  <2>1. at[r] = "provider" /\ sock[r] = "open" /\ sub[r] = "pending"
    BY <1>3 DEF Sent, Joins, Joining
  <2>2. held'[r] = held[r] \o X /\ held[r] \in Seq(Frames) /\ X \in Seq(Frames)
    BY <1>0, <1>3, <2>1, SentTo DEF Sent
  <2>3. \A i \in 1..Len(held[r]) : Kept(history', held[r][i])
    BY <1>0, <1>3, <2>1, SentGenuine DEF Kept
  <2>4. \A i \in 1..Len(X) : Kept(history', X[i])
    BY <1>3, SentGenuine DEF Kept, Sent
  <2>5. \A i \in 1..Len(held[r] \o X) : Kept(history', (held[r] \o X)[i])
    BY <2>2, <2>3, <2>4, JoinedKept
  <2> QED
    BY <2>2, <2>5
<1>4. CASE (\E X : Announces(X)) \/ (\E kinds : Records(kinds))
  BY <1>3, <1>4, Sending
<1>5. ASSUME NEW s \in Sockets, Open(s) PROVE \A j \in 1..Len(held'[r]) : Kept(history', held'[r][j])
  BY <1>0, <1>1, <1>5 DEF Open, server
<1>6. ASSUME NEW s \in Sockets, Register(s) PROVE \A j \in 1..Len(held'[r]) : Kept(history', held'[r][j])
  <2>1. r = s => held'[r] = <<>>
    BY <1>0, <1>6 DEF Register
  <2>2. r # s => at[r] = "provider" /\ sock[r] = "open" /\ held'[r] = held[r] /\ history' = history
    BY <1>0, <1>6 DEF Register, server
  <2> QED
    BY <1>1, <2>1, <2>2
<1>7. ASSUME NEW s \in Sockets, Replay(s) PROVE \A j \in 1..Len(held'[r]) : Kept(history', held'[r][j])
  BY <1>0, <1>1, <1>7 DEF Replay, server
<1>8. ASSUME NEW s \in Sockets, (\E X : Ends(s, X)) \/ Collects(s)
      PROVE  \A j \in 1..Len(held'[r]) : Kept(history', held'[r][j])
  BY <1>0, <1>1, <1>8 DEF Ends, Collects
<1>9. ASSUME NEW s \in Sockets, Close(s) PROVE \A j \in 1..Len(held'[r]) : Kept(history', held'[r][j])
  BY <1>0, <1>1, <1>9 DEF Close, server
<1>10. ASSUME NEW s \in Sockets, Receive(s) \/ Touches(s)
       PROVE  \A j \in 1..Len(held'[r]) : Kept(history', held'[r][j])
  BY <1>1, <1>10 DEF Receive, Touches, server, joins
<1> QED
  BY <1>2, <1>4, <1>5, <1>6, <1>7, <1>8, <1>9, <1>10, StepKinds

-----------------------------------------------------------------------------
(***************************************************************************)
(* Every message, once and in order.                                       *)
(***************************************************************************)
Told(r) == InStep(history, tab[r], ToCome(r), 0) /\ Screen(history, tab[r])

LEMMA ToldSent ==
    ASSUME TypeOK, Numbered, Joins, NEW X, Sent(X), NEW r \in Sockets, Following(r), Told(r)
    PROVE  Told(r)'
<1>1. /\ history \in Seq(Frames) /\ X \in Seq(Frames) /\ ToCome(r) \in Seq(Frames)
      /\ sub[r] = "live" /\ sock[r] = "open" /\ tab' = tab
  BY FramesToCome DEF TypeOK, Sent, Joins, Joining, Following
<1>2. ToCome(r)' = ToCome(r) \o X
  BY <1>1, SentTo
<1>3. InStep(history, tab[r], ToCome(r), 0) /\ Screen(history, tab[r])
  BY DEF Told
<1>4. CASE Extends(history, X, history')
  <2>1. InStep(history', tab[r], ToCome(r) \o X, 0)
    BY <1>1, <1>3, <1>4, InStepPush
  <2>2. Screen(history', tab[r])
    BY <1>1, <1>3, <1>4, ScreenPush DEF InStep
  <2> QED
    BY <1>1, <1>2, <2>1, <2>2 DEF Told
<1>5. CASE UNCHANGED history /\ \A i \in 1..Len(X) : X[i].kind \notin Unique
  <2>1. InStep(history, tab[r], ToCome(r) \o X, 0)
    BY <1>1, <1>3, <1>5, InStepMore
  <2> QED
    BY <1>1, <1>2, <1>3, <1>5, <2>1 DEF Told
<1> QED
  BY <1>4, <1>5 DEF Sent

LEMMA ToldReceived ==
    ASSUME TypeOK, Numbered, Joins, NEW s \in Sockets, Receive(s), Told(s)
    PROVE  Told(s)'
<1> DEFINE t == tab[s]
           W == ToCome(s)
           V == ToCome(s)'
           u == tab'[s]
<1>1. /\ history \in Seq(Frames) /\ W \in Seq(Frames) /\ t \in Tabs /\ t.buf \in Seq(Frames)
      /\ history' = history /\ \A i \in 1..Len(history) : history[i].id = i
  BY FramesToCome, Receiving DEF TypeOK, Numbered, server
<1>2. InStep(history, t, W, 0) /\ Screen(history, t)
  BY DEF Told
<1>3. SUFFICES InStep(history, u, V, 0) /\ Screen(history, u)
  BY <1>1 DEF Told
<1>4. CASE t.loading /\ Head(wire[s]).kind # "end"
  <2>1. u.seen = t.seen /\ u.shown = t.shown /\ V = W
    BY <1>1, <1>4, Buffering DEF Tabs
  <2> HIDE DEF u, V, t, W
  <2> QED
    BY <1>2, <2>1, InStepSame, ScreenSame
<1>5. CASE t.loading /\ Head(wire[s]).kind = "end"
  <2> DEFINE k == Len(t.buf)
             d == DispatchAll(t, t.buf)
  <2>1. /\ k \in 0..Len(W) /\ k < Len(W) /\ W[k + 1].kind = "end"
        /\ \A i \in 1..k : t.buf[i] = W[i]
        /\ Rest(W, k + 1, V)
        /\ u.seen = d.seen /\ u.shown = d.shown
    BY <1>5, Loaded
  <2> HIDE DEF u, V, t, W
  <2>2. d \in Tabs /\ InStep(history, d, W, k) /\ Screen(history, d)
    BY <1>1, <1>2, <2>1, InStepAll
  <2>3. W[k + 1].kind \notin Unique
    BY <2>1 DEF Unique
  <2>4. InStep(history, d, W, k + 1)
    BY <1>1, <2>1, <2>2, <2>3, InStepSkip
  <2>5. InStep(history, d, V, 0)
    BY <1>1, <2>1, <2>4, InStepRest DEF Rest
  <2> HIDE DEF d
  <2> QED
    BY <2>1, <2>2, <2>5, InStepSame, ScreenSame
<1>6. CASE ~t.loading
  <2>1. /\ 0 \in 0..Len(W) /\ 0 < Len(W) /\ W[1] \in Frames /\ Rest(W, 1, V)
        /\ u = Dispatch(t, W[1])
    BY <1>6, Live
  <2> HIDE DEF u, V, t, W
  <2>2. 0 + 1 = 1 /\ InStep(history, u, W, 0 + 1)
    BY <1>1, <1>2, <2>1, InStepNext
  <2>3. Screen(history, u)
    BY <1>1, <1>2, <2>1, ScreenNext
  <2>4. InStep(history, u, V, 0)
    BY <1>1, <2>1, <2>2, InStepRest DEF Rest
  <2> QED
    BY <2>3, <2>4
<1> QED
  BY <1>4, <1>5, <1>6

LEMMA InStepStep ==
    ASSUME TypeOK, Numbered, Joins, HeldIsHistory, InStepWithHistory, [Next]_vars
    PROVE  InStepWithHistory'
<1> SUFFICES ASSUME NEW r \in Sockets, Following(r)' PROVE Told(r)'
  BY DEF InStepWithHistory, Told
<1>0. /\ Following(r) => Told(r)
      /\ at \in [Sockets -> {"none", "history", "provider", "tail", "commands", "done"}]
      /\ sock \in [Sockets -> {"new", "open", "closed"}]
      /\ tab \in [Sockets -> Tabs]
  BY DEF InStepWithHistory, Told, TypeOK
<1>1. ASSUME at'[r] = at[r] \/ Following(r), sock'[r] = sock[r], wire'[r] = wire[r], tab'[r] = tab[r],
             history' = history
      PROVE  Told(r)'
  <2>1. Told(r)
    BY <1>0, <1>1 DEF Following
  <2>2. ToCome(r)' = ToCome(r)
    BY <1>1 DEF ToCome
  <2> QED
    BY <1>1, <2>1, <2>2 DEF Told
<1>2. CASE Quiet
  BY <1>1, <1>2 DEF Quiet, views, joins
<1>3. CASE (\E X : Announces(X)) \/ (\E kinds : Records(kinds))
  <2>1. PICK X : Sent(X)
    BY <1>3, Sending
  <2>2. Following(r)
    BY <2>1 DEF Sent, Following
  <2> QED
    BY <1>0, <2>1, <2>2, ToldSent
<1>4. ASSUME NEW s \in Sockets, Open(s) \/ Register(s) PROVE Told(r)'
  <2>1. r # s
    BY <1>0, <1>4 DEF Open, Register, Following
  <2> QED
    BY <1>0, <1>1, <1>4, <2>1 DEF Open, Register, server
<1>5. ASSUME NEW s \in Sockets, Replay(s) PROVE Told(r)'
  <2>0. /\ history \in Seq(Frames) /\ held[s] \in Seq(Frames) /\ Deliver(s, history \o held[s])
        /\ history' = history /\ tab' = tab /\ sock' = sock /\ at[s] = "provider"
    BY <1>5 DEF Replay, TypeOK, server
  <2>1. CASE r # s
    <3>1. history \o held[s] \in Seq(Frames)
      BY <2>0, Joined
    <3>2. wire'[r] = wire[r]
      BY <2>0, <2>1, <3>1, Delivering
    <3>3. at'[r] = at[r]
      BY <1>0, <1>5, <2>1 DEF Replay
    <3> QED
      BY <1>1, <2>0, <3>2, <3>3
  <2>2. CASE r = s
    <3>1. sock[s] = "open"
      BY <2>0, <2>2 DEF Following
    <3>2. tab[s] = FreshTab /\ ToCome(s)' = history \o held[s]
      BY <1>5, <3>1, Replaying
    <3>3. FreshTab.seen = {} /\ FreshTab.shown = <<>>
      BY DEF FreshTab
    <3>4. InStep(history, FreshTab, history \o held[s], 0)
      <4>1. \A j \in 1..Len(held[s]) : held[s][j].kind \in Unique => Genuine(history, held[s][j])
        BY <2>0, <3>1 DEF HeldIsHistory
      <4>2. \A i \in 1..Len(history) : history[i].id = i
        BY DEF Numbered
      <4> QED
        BY <2>0, <3>3, <4>1, <4>2, InStepReplay
    <3>5. Screen(history, FreshTab)
      BY <3>3 DEF Screen, Places
    <3> QED
      BY <2>0, <2>2, <3>2, <3>4, <3>5 DEF Told
  <2> QED
    BY <2>1, <2>2
<1>6. ASSUME NEW s \in Sockets, NEW X, Ends(s, X) PROVE Told(r)'
  <2>1. /\ tab' = tab /\ sock' = sock /\ X \in Seq(Frames) /\ history' = history
        /\ sock[s] = "open" => ToCome(s)' = ToCome(s) \o X
        /\ \A q \in Sockets : q # s => wire'[q] = wire[q] /\ at'[q] = at[q]
    BY <1>6, Ended DEF Ends
  <2>2. CASE r # s
    BY <1>1, <2>1, <2>2
  <2>3. CASE r = s
    <3>1. sock[r] = "open" /\ Following(r)
      BY <1>6, <2>1, <2>3 DEF Following, Ends
    <3>2. ASSUME NEW i \in 1..Len(X) PROVE X[i].kind \notin Unique
      <4>1. CASE i = 1
        BY <1>6, <4>1 DEF Ends, Unique, End
      <4>2. CASE i # 1
        <5>1. i \in 2..Len(X)
          BY <2>1, <4>2, LenProperties
        <5> QED
          BY <1>6, <5>1 DEF Ends, Unique
      <4> QED
        BY <4>1, <4>2
    <3>3. InStep(history, tab[r], ToCome(r), 0) /\ Screen(history, tab[r])
      BY <1>0, <3>1 DEF Told
    <3>4. ToCome(r) \in Seq(Frames) /\ history \in Seq(Frames)
      BY FramesToCome DEF TypeOK
    <3>5. InStep(history, tab[r], ToCome(r) \o X, 0)
      BY <2>1, <3>2, <3>3, <3>4, InStepMore
    <3> QED
      BY <2>1, <2>3, <3>1, <3>3, <3>5 DEF Told
  <2> QED
    BY <2>2, <2>3
<1>7. ASSUME NEW s \in Sockets, Collects(s) PROVE Told(r)'
  <2>1. at'[r] = at[r] \/ Following(r)
    BY <1>0, <1>7 DEF Collects, Following
  <2> QED
    BY <1>1, <1>7, <2>1 DEF Collects
<1>8. ASSUME NEW s \in Sockets, Close(s) PROVE Told(r)'
  <2>1. r # s
    BY <1>0, <1>8 DEF Close, Following
  <2> QED
    BY <1>0, <1>1, <1>8, <2>1 DEF Close, server
<1>9. ASSUME NEW s \in Sockets, Receive(s) PROVE Told(r)'
  <2>1. Following(r)
    BY <1>9 DEF Receive, joins, Following
  <2>2. CASE r # s
    BY <1>1, <1>9, <2>2, Receiving DEF joins, server
  <2> QED
    BY <1>0, <1>9, <2>1, <2>2, ToldReceived
<1>10. ASSUME NEW s \in Sockets, Touches(s) PROVE Told(r)'
  <2>1. Following(r) /\ history' = history /\ wire' = wire
    BY <1>10 DEF Touches, joins, Following
  <2>2. tab'[r].seen = tab[r].seen /\ tab'[r].shown = tab[r].shown
        /\ tab'[r].loading = tab[r].loading /\ tab'[r].buf = tab[r].buf
    BY <1>0, <1>10 DEF Touches, Tabs
  <2>3. ToCome(r)' = ToCome(r)
    BY <2>1, <2>2 DEF ToCome, Waiting
  <2>4. InStep(history, tab[r], ToCome(r), 0) /\ Screen(history, tab[r])
    BY <1>0, <2>1 DEF Told
  <2>5. InStep(history, tab'[r], ToCome(r), 0) /\ Screen(history, tab'[r])
    BY <2>2, <2>4, InStepSame, ScreenSame
  <2> QED
    BY <2>1, <2>3, <2>5 DEF Told
<1> QED
  BY <1>2, <1>3, <1>4, <1>5, <1>6, <1>7, <1>8, <1>9, <1>10, StepKinds

-----------------------------------------------------------------------------
\* A tab that has caught up has seen everything.
LEMMA AllShown ==
    ASSUME TypeOK, Numbered, NEW s \in Sockets, Settled(s),
           InStep(history, tab[s], ToCome(s), 0), Screen(history, tab[s])
    PROVE  ShowsOnce(tab[s].shown, {"message"})
<1> DEFINE t == tab[s]
           M == Places(t.shown, {"message"})
           H == Places(history, {"message"})
<1>1. ToCome(s) = <<>>
  BY DEF Settled, ToCome, Waiting
<1>2. Recognised(history) \subseteq t.seen
  BY <1>1 DEF InStep, Ahead
<1>3. H \subseteq Recognised(history)
  BY DEF Places, Recognised, Unique
<1>4. \A j \in M : \E i \in H : t.shown[j] = history[i]
  <2>1. ASSUME NEW j \in M PROVE \E i \in H : t.shown[j] = history[i]
    <3>1. Genuine(history, t.shown[j]) /\ t.shown[j].kind = "message"
      BY <2>1 DEF Screen, Places
    <3>2. t.shown[j].id \in H /\ t.shown[j] = history[t.shown[j].id]
      BY <3>1 DEF Genuine, Places
    <3> QED
      BY <3>2
  <2> QED
    BY <2>1
<1>5. \A i \in H : \E j \in M : t.shown[j] = history[i]
  <2>1. ASSUME NEW i \in H PROVE \E j \in M : t.shown[j] = history[i]
    <3>1. i \in t.seen /\ history[i].kind = "message"
      BY <1>2, <1>3 DEF Places
    <3> QED
      BY <3>1 DEF Screen
  <2> QED
    BY <2>1
<1>6. \A i, j \in M : i < j => t.shown[i].id < t.shown[j].id
  BY DEF Screen
<1> HIDE DEF t, M, H
<1>7. {t.shown[j] : j \in M} = {history[i] : i \in H}
  BY <1>4, <1>5
<1> QED
  BY <1>6, <1>7 DEF ShowsOnce, t, M, H

Inv == TypeOK /\ Numbered /\ Joins /\ HeldIsHistory /\ InStepWithHistory

LEMMA InvInit == Init => Inv
<1> SUFFICES ASSUME Init PROVE Inv
  OBVIOUS
<1>1. <<>> \in Seq(Frames) /\ Len(<<>>) = 0 /\ FreshTab \in Tabs /\ IsFiniteSet({})
  BY FreshTabIsTab, FS_EmptySet
<1>2. TypeOK
  BY <1>1 DEF Init, TypeOK, NoTurn
<1>3. Numbered
  BY <1>1 DEF Init, Numbered
<1>4. FreshTab = [FreshTab EXCEPT !.buf = FreshTab.buf] /\ FreshTab.loading
  BY DEF FreshTab
<1>5. Joins
  BY <1>4 DEF Init, Joins, Joining, Following
<1>6. HeldIsHistory /\ InStepWithHistory
  BY DEF Init, HeldIsHistory, InStepWithHistory, Following
<1> QED
  BY <1>2, <1>3, <1>5, <1>6 DEF Inv

LEMMA InvStep == Inv /\ [Next]_vars => Inv'
  BY TypeStep, NumberedStep, JoinsStep, HeldStep, InStepStep DEF Inv

LEMMA InvHolds == Spec => []Inv
  BY InvInit, InvStep, PTL DEF Spec

(* A tab that has caught up shows every message of the conversation, once  *)
(* and in order, for any number of sockets, records and messages, whether  *)
(* sockets close early, prompts overlap or POSTs fail.                     *)
THEOREM EveryMessageIsShownOnce == Spec => []EveryMessageShownOnce
<1>1. Inv => EveryMessageShownOnce
  <2> SUFFICES ASSUME Inv, NEW s \in Sockets, Settled(s) PROVE ShowsOnce(tab[s].shown, {"message"})
    BY DEF EveryMessageShownOnce
  <2>1. InStep(history, tab[s], ToCome(s), 0) /\ Screen(history, tab[s])
    BY DEF Inv, InStepWithHistory, Settled, Following
  <2> QED
    BY <2>1, AllShown DEF Inv
<1> QED
  BY <1>1, InvHolds, PTL

-----------------------------------------------------------------------------
(***************************************************************************)
(* The prompt that waits.                                                  *)
(***************************************************************************)
LEMMA WillPromptNext ==
    ASSUME NEW t \in Tabs, NEW W \in Seq(Frames), NEW k \in 0..Len(W), k < Len(W), NEW p,
           WillPrompt(t, W, k, p)
    PROVE  WillPrompt(Dispatch(t, W[k + 1]), W, k + 1, p)
<1> DEFINE f == W[k + 1]
           d == Dispatch(t, f)
<1>0. Len(W) \in Nat /\ k + 1 \in 1..Len(W) /\ f \in Frames
  BY SomeFrame
<1>1. d.prompt = Prompted(t, f)
  <2>1. f.kind \in Unique /\ f.id \in t.seen => d = t
    BY <1>0, DispatchOne
  <2>2. ~(f.kind \in Unique /\ f.id \in t.seen) => d.prompt = Prompted(t, f)
    BY <1>0, DispatchOne
  <2>3. f.kind \in Unique => Prompted(t, f) = t.prompt
    BY DEF Prompted, Unique
  <2> HIDE DEF d, f
  <2> QED
    BY <2>1, <2>2, <2>3
<1>2. \A i \in 1..Len(W) : k + 1 < i => k < i
  BY <1>0
<1> HIDE DEF d
<1>3. ASSUME NEW j \in 1..Len(W), k < j, W[j] = Prompt(p), \A i \in 1..Len(W) : j < i => W[i].kind # "prompt"
      PROVE  WillPrompt(d, W, k + 1, p)
  <2>1. CASE j = k + 1
    <3>1. d.prompt = p
      BY <1>1, <1>3, <2>1 DEF Prompted, Prompt
    <3> QED
      BY <1>3, <2>1, <3>1 DEF WillPrompt
  <2>2. CASE j # k + 1
    <3>1. k + 1 < j
      BY <1>0, <1>3, <2>2
    <3> QED
      BY <1>3, <3>1 DEF WillPrompt
  <2> QED
    BY <2>1, <2>2
<1>4. ASSUME t.prompt = p, \A i \in 1..Len(W) : k < i => W[i].kind # "prompt"
      PROVE  WillPrompt(d, W, k + 1, p)
  <2>1. f.kind # "prompt"
    BY <1>0, <1>4
  <2>2. d.prompt = p
    BY <1>1, <1>4, <2>1 DEF Prompted
  <2> QED
    BY <1>2, <1>4, <2>2 DEF WillPrompt
<1> QED
  BY <1>3, <1>4 DEF WillPrompt, d

LEMMA WillPromptSkip ==
    ASSUME NEW t, NEW W \in Seq(Frames), NEW k \in 0..Len(W), k < Len(W), NEW p,
           W[k + 1].kind # "prompt", WillPrompt(t, W, k, p)
    PROVE  WillPrompt(t, W, k + 1, p)
<1>0. Len(W) \in Nat
  BY LenProperties
<1>1. \A i \in 1..Len(W) : k + 1 < i => k < i
  BY <1>0
<1>2. \A j \in 1..Len(W) : k < j /\ W[j] = Prompt(p) => k + 1 < j
  <2>1. \A j \in 1..Len(W) : W[j] = Prompt(p) => j # k + 1
    BY DEF Prompt
  <2> QED
    BY <1>0, <2>1
<1> QED
  BY <1>1, <1>2 DEF WillPrompt

LEMMA WillPromptRest ==
    ASSUME NEW t, NEW W \in Seq(Frames), NEW k, NEW V, Rest(W, k, V), NEW p, WillPrompt(t, W, k, p)
    PROVE  WillPrompt(t, V, 0, p)
<1>0. /\ Len(W) \in Nat /\ Len(V) \in Nat /\ k \in Nat /\ Len(V) = Len(W) - k
      /\ \A i \in 1..Len(V) : V[i] = W[k + i] /\ k + i \in 1..Len(W) /\ k < k + i
  <2>1. V \in Seq(Frames) /\ k \in 0..Len(W) /\ Len(V) = Len(W) - k /\ \A i \in 1..Len(V) : V[i] = W[k + i]
    BY DEF Rest
  <2>2. Len(W) \in Nat /\ Len(V) \in Nat
    BY <2>1, LenProperties
  <2> QED
    BY <2>1, <2>2
<1>1. ASSUME NEW j \in 1..Len(W), k < j, W[j] = Prompt(p), \A i \in 1..Len(W) : j < i => W[i].kind # "prompt"
      PROVE  WillPrompt(t, V, 0, p)
  <2>1. PICK n \in 1..Len(V) : k + n = j
    <3>1. j - k \in 1..Len(V) /\ k + (j - k) = j
      BY <1>0, <1>1
    <3> QED
      BY <3>1
  <2>2. V[n] = Prompt(p) /\ 0 < n
    <3>1. V[n] = W[k + n]
      BY <1>0, <2>1
    <3>2. W[k + n] = Prompt(p)
      BY <1>1, <2>1
    <3>3. n \in 1..Len(V)
      BY <2>1
    <3>4. 0 < n
      BY <1>0, <3>3
    <3> QED
      BY <3>1, <3>2, <3>4
  <2>3. ASSUME NEW i \in 1..Len(V), n < i PROVE V[i].kind # "prompt"
    <3>1. k + i \in 1..Len(W) /\ j < k + i /\ V[i] = W[k + i]
      BY <1>0, <2>1, <2>3
    <3> QED
      BY <1>1, <3>1
  <2> QED
    BY <2>2, <2>3 DEF WillPrompt
<1>2. ASSUME t.prompt = p, \A i \in 1..Len(W) : k < i => W[i].kind # "prompt"
      PROVE  WillPrompt(t, V, 0, p)
  BY <1>0, <1>2 DEF WillPrompt
<1> QED
  BY <1>1, <1>2 DEF WillPrompt

LEMMA WillPromptSame ==
    ASSUME NEW t, NEW u, u.prompt = t.prompt, NEW W, NEW k, NEW p, WillPrompt(t, W, k, p)
    PROVE  WillPrompt(u, W, k, p)
  BY DEF WillPrompt

LEMMA WillPromptMore ==
    ASSUME NEW t, NEW W \in Seq(Frames), NEW X \in Seq(Frames), NEW p, WillPrompt(t, W, 0, p),
           \A i \in 1..Len(X) : X[i].kind # "prompt"
    PROVE  WillPrompt(t, W \o X, 0, p)
<1> DEFINE V == W \o X
<1>1. /\ V \in Seq(Frames) /\ Len(V) = Len(W) + Len(X) /\ Len(W) \in Nat /\ Len(X) \in Nat
      /\ (\A i \in 1..Len(W) : V[i] = W[i]) /\ (\A i \in 1..Len(X) : V[Len(W) + i] = X[i])
  BY Joined
<1> HIDE DEF V
<1>2. ASSUME NEW i \in 1..Len(V), V[i].kind = "prompt" PROVE i \in 1..Len(W) /\ W[i].kind = "prompt"
  <2>1. SUFFICES ASSUME i \notin 1..Len(W) PROVE FALSE
    BY <1>1, <1>2
  <2>2. i - Len(W) \in 1..Len(X) /\ Len(W) + (i - Len(W)) = i
    BY <1>1, <2>1
  <2>3. V[i] = X[i - Len(W)]
    BY <1>1, <2>2
  <2> QED
    BY <1>2, <2>2, <2>3
<1>3. \A j \in 1..Len(W) : j \in 1..Len(V) /\ V[j] = W[j]
  BY <1>1
<1>4. WillPrompt(t, V, 0, p)
  BY <1>2, <1>3 DEF WillPrompt
<1> QED
  BY <1>4 DEF V

LEMMA WillPromptLast ==
    ASSUME NEW t, NEW W \in Seq(Frames), NEW X \in Seq(Frames), NEW p, X # <<>>, X[Len(X)] = Prompt(p)
    PROVE  WillPrompt(t, W \o X, 0, p)
<1> DEFINE V == W \o X
<1>1. /\ V \in Seq(Frames) /\ Len(V) = Len(W) + Len(X) /\ Len(W) \in Nat /\ Len(X) \in Nat /\ Len(X) # 0
      /\ (\A i \in 1..Len(X) : V[Len(W) + i] = X[i])
  BY Joined, EmptySeq
<1> HIDE DEF V
<1>2. Len(V) \in 1..Len(V) /\ 0 < Len(V) /\ V[Len(V)] = Prompt(p)
  BY <1>1
<1>3. \A i \in 1..Len(V) : ~(Len(V) < i)
  BY <1>1
<1>4. WillPrompt(t, V, 0, p)
  BY <1>2, <1>3 DEF WillPrompt
<1> QED
  BY <1>4 DEF V

LEMMA WillPromptAll ==
    ASSUME NEW t \in Tabs, NEW W \in Seq(Frames), NEW buf \in Seq(Frames), NEW p,
           Len(buf) <= Len(W), \A i \in 1..Len(buf) : buf[i] = W[i],
           WillPrompt(t, W, 0, p)
    PROVE  WillPrompt(DispatchAll(t, buf), W, Len(buf), p)
<1> DEFINE n == Len(buf)
<1>0. n \in Nat /\ Len(W) \in Nat
  BY LenProperties
<1>1. PICK after : /\ after[0] = t /\ DispatchAll(t, buf) = after[Len(buf)]
                   /\ \A k \in 0..Len(buf) : k < Len(buf) => after[k + 1] = Dispatch(after[k], buf[k + 1])
  BY Dispatching
<1> DEFINE S == {k \in Nat : after[k] \in Tabs /\ WillPrompt(after[k], W, k, p)}
<1>2. 0 \in S
  BY <1>1
<1>3. ASSUME NEW k \in 0..n, k \in S, k < n PROVE k + 1 \in S
  <2>1. k + 1 \in 1..n /\ k + 1 \in 1..Len(W) /\ k \in 0..Len(W) /\ k < Len(W) /\ k + 1 \in Nat
    BY <1>0, <1>3
  <2>2. after[k + 1] = Dispatch(after[k], W[k + 1]) /\ W[k + 1] \in Frames
    BY <1>1, <1>3, <2>1, SomeFrame
  <2>3. after[k] \in Tabs /\ WillPrompt(after[k], W, k, p)
    BY <1>3
  <2>4. after[k + 1] \in Tabs
    BY <2>2, <2>3, DispatchOne
  <2>5. WillPrompt(after[k + 1], W, k + 1, p)
    BY <2>1, <2>2, <2>3, WillPromptNext
  <2> QED
    BY <2>1, <2>4, <2>5
<1> HIDE DEF S, n
<1>4. \A k \in 0..n : k \in S
  BY <1>0, <1>2, <1>3, UpTo
<1>5. n \in S
  BY <1>0, <1>4
<1> QED
  BY <1>1, <1>5 DEF S, n

Facing(p, r) == WillPrompt(tab[r], ToCome(r), 0, p)

LEMMA FacingReceived ==
    ASSUME TypeOK, NEW s \in Sockets, Receive(s), NEW p, Facing(p, s)
    PROVE  WillPrompt(tab'[s], ToCome(s)', 0, p)
<1> DEFINE t == tab[s]
           W == ToCome(s)
           V == ToCome(s)'
           u == tab'[s]
<1>1. W \in Seq(Frames) /\ t \in Tabs /\ t.buf \in Seq(Frames) /\ WillPrompt(t, W, 0, p)
  BY FramesToCome DEF Facing
<1>4. CASE t.loading /\ Head(wire[s]).kind # "end"
  <2>1. u.prompt = t.prompt /\ V = W
    BY <1>1, <1>4, Buffering DEF Tabs
  <2> HIDE DEF u, V, t, W
  <2>2. WillPrompt(u, V, 0, p)
    BY <1>1, <2>1, WillPromptSame
  <2> QED
    BY <2>2 DEF u, V
<1>5. CASE t.loading /\ Head(wire[s]).kind = "end"
  <2> DEFINE k == Len(t.buf)
             d == DispatchAll(t, t.buf)
  <2>1. /\ k \in 0..Len(W) /\ k < Len(W) /\ W[k + 1].kind = "end"
        /\ \A i \in 1..k : t.buf[i] = W[i]
        /\ Rest(W, k + 1, V)
        /\ u.prompt = d.prompt
    BY <1>5, Loaded
  <2> HIDE DEF u, V, t, W
  <2>2. WillPrompt(d, W, k, p)
    BY <1>1, <2>1, WillPromptAll
  <2>3. WillPrompt(d, W, k + 1, p)
    BY <1>1, <2>1, <2>2, WillPromptSkip
  <2>4. WillPrompt(d, V, 0, p)
    BY <1>1, <2>1, <2>3, WillPromptRest
  <2> HIDE DEF d
  <2>5. WillPrompt(u, V, 0, p)
    BY <2>1, <2>4, WillPromptSame
  <2> QED
    BY <2>5 DEF u, V
<1>6. CASE ~t.loading
  <2>1. /\ 0 \in 0..Len(W) /\ 0 < Len(W) /\ Rest(W, 1, V)
        /\ u = Dispatch(t, W[1])
    BY <1>6, Live
  <2> HIDE DEF u, V, t, W
  <2>2. 0 + 1 = 1 /\ WillPrompt(u, W, 0 + 1, p)
    BY <1>1, <2>1, WillPromptNext
  <2>3. WillPrompt(u, V, 0, p)
    BY <1>1, <2>1, <2>2, WillPromptRest
  <2> QED
    BY <2>3 DEF u, V
<1> QED
  BY <1>4, <1>5, <1>6

\* The prompts sent at the end of the history: the one that waits is last.
LEMMA PromptLast ==
    ASSUME TypeOK, NEW p \in Prompts, pending = {p}, NEW F \in PromptFrames(pending), NEW H \in Seq(Frames)
    PROVE  H \o F # <<>> /\ (H \o F)[Len(H \o F)] = Prompt(p) /\ H \o F \in Seq(Frames)
<1>1. /\ F \in Seq(Frames) /\ (\A i \in 1..Len(F) : F[i] = Prompt(p))
      /\ \E i \in 1..Len(F) : F[i] = Prompt(p)
  <2>1. /\ F \in Seq(Frames)
        /\ \A i \in 1..Len(F) : \E q \in pending : F[i] = Prompt(q)
        /\ \A q \in pending : \E i \in 1..Len(F) : F[i] = Prompt(q)
    BY PromptsSent DEF TypeOK
  <2> QED
    BY <2>1
<1> HIDE DEF Frames
<1>2. /\ H \o F \in Seq(Frames) /\ Len(H \o F) = Len(H) + Len(F) /\ Len(H) \in Nat /\ Len(F) \in Nat
      /\ (\A i \in 1..Len(F) : (H \o F)[Len(H) + i] = F[i])
  BY <1>1, Joined
<1>3. Len(F) \in 1..Len(F)
  BY <1>1, <1>2
<1>4. (H \o F)[Len(H) + Len(F)] = Prompt(p) /\ Len(H \o F) # 0
  BY <1>1, <1>2, <1>3
<1> QED
  BY <1>2, <1>4, EmptySeq

LEMMA SinglePromptStep ==
    ASSUME ~ManyPrompts, TypeOK, SinglePrompt, [Next]_vars
    PROVE  SinglePrompt'
<1>1. pending' \subseteq pending \/ \E p \in Prompts : Ask(p)
  BY DEF Next, vars, server, Arrive, Lost, Begin, Stream, Say, Result, Fail, TimeOut, Open, Register,
         Replay, TailStep, Commands, Close, Receive, Send, Answer, Cancel, Clear
<1>2. CASE pending' \subseteq pending
  BY <1>2 DEF SinglePrompt
<1>3. ASSUME NEW p \in Prompts, Ask(p) PROVE SinglePrompt'
  <2>1. pending' = {p}
    BY <1>3 DEF Ask
  <2> QED
    BY <2>1 DEF SinglePrompt
<1> QED
  BY <1>1, <1>2, <1>3

LEMMA PromptStep ==
    ASSUME ~ManyPrompts, TypeOK, Numbered, Joins, HeldIsHistory, SinglePrompt, PromptComes, [Next]_vars
    PROVE  PromptComes'
<1> SUFFICES ASSUME NEW p \in pending', NEW r \in Sockets, sock'[r] = "open", at'[r] = "done"
             PROVE  WillPrompt(tab'[r], ToCome(r)', 0, p)
  BY DEF PromptComes, ToCome
<1>0. /\ at \in [Sockets -> {"none", "history", "provider", "tail", "commands", "done"}]
      /\ sock \in [Sockets -> {"new", "open", "closed"}]
      /\ tab \in [Sockets -> Tabs] /\ ToCome(r) \in Seq(Frames)
  BY FramesToCome DEF TypeOK
<1>1. p \in pending \/ (p \in Prompts /\ Ask(p))
  <2>1. pending' \subseteq pending \/ \E q \in Prompts : Ask(q)
    BY DEF Next, vars, server, Arrive, Lost, Begin, Stream, Say, Result, Fail, Ask, TimeOut, Open, Register,
           Replay, TailStep, Commands, Close, Receive, Send, Answer, Cancel, Clear
  <2>2. ASSUME NEW q \in Prompts, Ask(q) PROVE p \in pending \/ p = q
    BY <2>2 DEF Ask
  <2> QED
    BY <2>1, <2>2
<1>2. CASE p \in Prompts /\ Ask(p)
  <2>1. <<Prompt(p)>> \in Seq(Frames) /\ Broadcast(<<Prompt(p)>>)
    BY <1>2, FramesSent DEF Ask
  <2>2. UNCHANGED <<history, sub, at, sock, tab>>
    BY <1>2 DEF Ask
  <2>3. Sent(<<Prompt(p)>>)
    BY <2>1, <2>2 DEF Sent, Prompt, Unique
  <2>4. sub[r] = "live" /\ sock[r] = "open"
    BY <2>2 DEF Joins, Joining, Following
  <2>5. ToCome(r)' = ToCome(r) \o <<Prompt(p)>>
    BY <2>3, <2>4, SentTo
  <2>6. <<Prompt(p)>> # <<>> /\ <<Prompt(p)>>[Len(<<Prompt(p)>>)] = Prompt(p)
    OBVIOUS
  <2>7. WillPrompt(tab[r], ToCome(r) \o <<Prompt(p)>>, 0, p)
    BY <1>0, <2>1, <2>6, WillPromptLast
  <2> QED
    BY <2>2, <2>5, <2>7
<1>3. CASE p \in pending
  <2>0. /\ sock[r] = "open" /\ at[r] = "done" => Facing(p, r)
        /\ pending = {p} /\ p \in Prompts
        /\ ~\E q \in Prompts : Ask(q)
    <3>1. ~\E q \in Prompts : Ask(q)
      BY <1>3 DEF Ask
    <3> QED
      BY <1>3, <3>1 DEF PromptComes, Facing, SinglePrompt, TypeOK
  <2>1. ASSUME sock'[r] = sock[r], at'[r] = at[r], wire'[r] = wire[r], tab'[r] = tab[r]
        PROVE  WillPrompt(tab'[r], ToCome(r)', 0, p)
    <3>1. ToCome(r)' = ToCome(r)
      BY <2>1 DEF ToCome
    <3> QED
      BY <2>0, <2>1, <3>1 DEF Facing
  <2>2. ASSUME NEW X, Sent(X), \A i \in 1..Len(X) : X[i].kind # "prompt"
        PROVE  WillPrompt(tab'[r], ToCome(r)', 0, p)
    <3>1. tab' = tab /\ sock[r] = "open" /\ at[r] = "done" /\ X \in Seq(Frames)
      BY <2>2 DEF Sent
    <3>2. sub[r] = "live"
      BY <3>1 DEF Joins, Joining, Following
    <3>3. ToCome(r)' = ToCome(r) \o X
      BY <2>2, <3>1, <3>2, SentTo
    <3>4. WillPrompt(tab[r], ToCome(r) \o X, 0, p)
      BY <1>0, <2>0, <2>2, <3>1, WillPromptMore DEF Facing
    <3> QED
      BY <3>1, <3>3, <3>4
  <2>3. CASE Quiet
    BY <2>1, <2>3 DEF Quiet, views, joins
  <2>4. CASE Stream
    <3>1. Start(Len(history)) \in Frames /\ Start(Len(history)).kind = "start"
      BY LenProperties, FramesSent DEF TypeOK
    <3>2. <<Start(Len(history))>> \in Seq(Frames) /\ Len(<<Start(Len(history))>>) = 1
          /\ <<Start(Len(history))>>[1].kind = "start"
      BY <3>1
    <3>3. Sent(<<Start(Len(history))>>)
      BY <2>4, <3>2 DEF Stream, Sent, Unique
    <3> QED
      BY <2>2, <3>2, <3>3
  <2>5. ASSUME NEW kinds, Records(kinds) PROVE WillPrompt(tab'[r], ToCome(r)', 0, p)
    <3>1. PICK X : Sent(X) /\ \A i \in 1..Len(X) : X[i].kind \in RecordKinds
      BY <2>5, RecordsSent
    <3>2. \A i \in 1..Len(X) : X[i].kind # "prompt"
      BY <3>1 DEF RecordKinds
    <3> QED
      BY <2>2, <3>1, <3>2
  <2>6. ASSUME NEW s \in Sockets, Open(s) \/ Register(s) \/ Collects(s)
        PROVE  WillPrompt(tab'[r], ToCome(r)', 0, p)
    <3>1. r # s
      BY <1>0, <2>6 DEF Open, Register, Collects
    <3> QED
      BY <1>0, <2>1, <2>6, <3>1 DEF Open, Register, Collects
  <2>7. ASSUME NEW s \in Sockets, Replay(s) PROVE WillPrompt(tab'[r], ToCome(r)', 0, p)
    <3>1. r # s
      BY <1>0, <2>7 DEF Replay
    <3>2. history \o held[s] \in Seq(Frames) /\ Deliver(s, history \o held[s])
      BY <2>7, Joined DEF Replay, TypeOK
    <3>3. wire'[r] = wire[r]
      BY <3>1, <3>2, Delivering
    <3> QED
      BY <1>0, <2>1, <2>7, <3>1, <3>3 DEF Replay
  <2>8. ASSUME NEW s \in Sockets, TailStep(s) \/ Commands(s), NEW X, Ends(s, X)
        PROVE  WillPrompt(tab'[r], ToCome(r)', 0, p)
    <3>1. /\ tab' = tab /\ sock' = sock
          /\ \A q \in Sockets : q # s => wire'[q] = wire[q] /\ at'[q] = at[q]
      BY <2>8, Ended
    <3>2. CASE r # s
      BY <2>1, <3>1, <3>2
    <3>3. CASE r = s
      <4>1. at'[s] # "commands"
        BY <3>3
      <4>2. PICK H \in {<<End>>, <<End, SyntheticInit>>}, F \in PromptFrames(pending) : Deliver(s, H \o F)
        BY <1>0, <2>8, <4>1 DEF TailStep, Commands
      <4>3. H \in Seq(Frames)
        <5>1. End \in Frames /\ SyntheticInit \in Frames
          BY FramesSent
        <5> HIDE DEF Frames
        <5>2. CASE H = <<End>>
          BY <5>1, <5>2
        <5>3. CASE H = <<End, SyntheticInit>>
          BY <5>1, <5>3
        <5> QED
          BY <5>2, <5>3
      <4>4. H \o F # <<>> /\ (H \o F)[Len(H \o F)] = Prompt(p) /\ H \o F \in Seq(Frames)
        BY <2>0, <4>3, PromptLast
      <4>5. WillPrompt(tab[r], ToCome(r) \o (H \o F), 0, p)
        BY <1>0, <4>4, WillPromptLast
      <4>6. wire'[s] = wire[s] \o (H \o F)
        BY <3>1, <3>3, <4>2, <4>4, Delivering
      <4> tab[s] \in Tabs /\ wire[s] \in Seq(Frames)
        BY FramesToCome
      <4>7. Waiting(tab[s], wire[s] \o (H \o F)) = Waiting(tab[s], wire[s]) \o (H \o F)
        BY <4>4, WaitingMore
      <4>8. ToCome(r)' = ToCome(r) \o (H \o F)
        BY <3>1, <3>3, <4>6, <4>7 DEF ToCome
      <4> QED
        BY <3>1, <4>5, <4>8
    <3> QED
      BY <3>2, <3>3
  <2>9. ASSUME NEW s \in Sockets, Close(s) PROVE WillPrompt(tab'[r], ToCome(r)', 0, p)
    <3>1. r # s
      BY <1>0, <2>9 DEF Close
    <3> QED
      BY <1>0, <2>1, <2>9, <3>1 DEF Close
  <2>10. ASSUME NEW s \in Sockets, Receive(s) PROVE WillPrompt(tab'[r], ToCome(r)', 0, p)
    <3>1. CASE r # s
      BY <2>1, <2>10, <3>1, Receiving DEF joins
    <3>2. CASE r = s
      <4>1. Facing(p, s)
        BY <2>0, <2>10, <3>2 DEF Receive, joins
      <4> QED
        BY <2>10, <3>2, <4>1, FacingReceived
    <3> QED
      BY <3>1, <3>2
  <2>11. ASSUME NEW s \in Sockets, Send(s) \/ Answer(s) \/ Cancel(s)
         PROVE  WillPrompt(tab'[r], ToCome(r)', 0, p)
    <3>1. /\ UNCHANGED joins /\ ToCome(r)' = ToCome(r) /\ (r # s => tab'[r] = tab[r])
          /\ Send(s) \/ Cancel(s) => tab'[r].prompt = tab[r].prompt
      BY <2>11, Writing
    <3>2. WillPrompt(tab[r], ToCome(r), 0, p)
      BY <2>0, <3>1 DEF joins, Facing
    <3>3. CASE tab'[r].prompt = tab[r].prompt
      <4>1. WillPrompt(tab'[r], ToCome(r), 0, p)
        BY <3>2, <3>3, WillPromptSame
      <4> QED
        BY <3>1, <4>1
    <3>4. CASE tab'[r].prompt # tab[r].prompt
      <4>1. Answer(s) /\ r = s
        BY <2>11, <3>1, <3>4
      <4>2. p # tab[r].prompt
        BY <4>1 DEF Answer
      <4>3. WillPrompt(tab'[r], ToCome(r), 0, p)
        BY <3>2, <4>2 DEF WillPrompt
      <4> QED
        BY <3>1, <4>3
    <3> QED
      BY <3>3, <3>4
  <2> QED
    <3>1. \/ Quiet \/ Stream \/ \E kinds : Records(kinds)
          \/ \E s \in Sockets :
                \/ Open(s) \/ Register(s) \/ Collects(s) \/ Replay(s) \/ Close(s) \/ Receive(s)
                \/ (TailStep(s) \/ Commands(s)) /\ \E X : Ends(s, X)
                \/ Send(s) \/ Answer(s) \/ Cancel(s)
      BY <2>0, StepKinds
    <3> QED
      BY <2>3, <2>4, <2>5, <2>6, <2>7, <2>8, <2>9, <2>10, <2>11, <3>1
<1> QED
  BY <1>1, <1>2, <1>3

(* While at most one permission is asked for at a time, the one the SDK    *)
(* waits for is on the screen of every tab that has caught up, whenever it *)
(* attached and whoever answers or lets it time out.                       *)
THEOREM PromptIsOnScreen == ~ManyPrompts => (Spec => []PromptOnScreen)
<1> SUFFICES ASSUME ~ManyPrompts PROVE Spec => []PromptOnScreen
  OBVIOUS
<1> DEFINE PInv == Inv /\ SinglePrompt /\ PromptComes
<1>1. Init => PInv
  BY InvInit DEF Init, SinglePrompt, PromptComes
<1>2. PInv /\ [Next]_vars => PInv'
  <2>1. Inv /\ [Next]_vars => Inv'
    BY InvStep
  <2>2. Inv /\ SinglePrompt /\ [Next]_vars => SinglePrompt'
    BY SinglePromptStep DEF Inv
  <2>3. PInv /\ [Next]_vars => PromptComes'
    BY PromptStep DEF Inv
  <2> QED
    BY <2>1, <2>2, <2>3
<1>3. PInv => PromptOnScreen
  <2> SUFFICES ASSUME PInv, pending # {}, NEW s \in Sockets, Settled(s) PROVE tab[s].prompt \in pending
    BY DEF PromptOnScreen
  <2>1. PICK p \in pending : TRUE
    OBVIOUS
  <2>2. WillPrompt(tab[s], ToCome(s), 0, p)
    BY <2>1 DEF PromptComes, Settled
  <2>3. ToCome(s) = <<>> /\ Len(ToCome(s)) = 0
    BY DEF ToCome, Waiting, Settled
  <2>4. tab[s].prompt = p
    BY <2>2, <2>3 DEF WillPrompt
  <2> QED
    BY <2>1, <2>4
<1> HIDE DEF PInv
<1> QED
  BY <1>1, <1>2, <1>3, PTL DEF Spec

-----------------------------------------------------------------------------
(***************************************************************************)
(* The running flag.                                                       *)
(***************************************************************************)
\* Frames that neither start nor stop anything.
Calm(X) == \A i \in 1..Len(X) : ~Starts(X[i]) /\ ~Stops(X[i])

\* A live frame that is not a repetition.
LEMMA RunsNext ==
    ASSUME NEW t \in Tabs, NEW W \in Seq(Frames), 0 < Len(W), ~t.loading, NEW b \in BOOLEAN,
           ~(W[1].kind \in Unique /\ W[1].id \in t.seen),
           RunsTo(W, 0, t.running, b)
    PROVE  RunsTo(W, 1, Dispatch(t, W[1]).running, b)
<1> DEFINE f == W[1]
           d == Dispatch(t, f)
<1>0. Len(W) \in Nat /\ 1 \in 1..Len(W) /\ f \in Frames
  BY SomeFrame
<1>1. d.running = Moved(t, f)
  BY <1>0, DispatchOne
<1>2. d.running = IF Starts(f) THEN TRUE ELSE IF Stops(f) THEN FALSE ELSE t.running
  BY <1>1 DEF Moved
<1>3. ~(Starts(f) /\ Stops(f))
  BY DEF Starts, Stops
<1>4. t.running \in BOOLEAN
  BY DEF Tabs
<1>5. \A i \in 1..Len(W) : 1 < i => 0 < i
  BY <1>0
<1> HIDE DEF d
<1>6. ASSUME NEW j \in 1..Len(W), IF b THEN Starts(W[j]) ELSE Stops(W[j]),
             \A i \in 1..Len(W) : j < i => ~Starts(W[i]) /\ ~Stops(W[i])
      PROVE  RunsTo(W, 1, d.running, b)
  <2>1. CASE j = 1
    <3>1. d.running <=> b
      BY <1>2, <1>3, <1>6, <2>1
    <3> QED
      BY <1>6, <2>1, <3>1 DEF RunsTo
  <2>2. CASE j # 1
    <3>1. 1 < j
      BY <1>0, <2>2
    <3> QED
      BY <1>6, <3>1 DEF RunsTo
  <2> QED
    BY <2>1, <2>2
<1>7. ASSUME t.running <=> b, \A i \in 1..Len(W) : 0 < i => ~Starts(W[i]) /\ ~Stops(W[i])
      PROVE  RunsTo(W, 1, d.running, b)
  <2>1. ~Starts(f) /\ ~Stops(f)
    BY <1>0, <1>7
  <2>2. d.running <=> b
    BY <1>2, <1>4, <1>7, <2>1
  <2> QED
    BY <1>5, <1>7, <2>2 DEF RunsTo
<1> QED
  BY <1>6, <1>7 DEF RunsTo, d

LEMMA RunsRest ==
    ASSUME NEW W, NEW k, NEW V, Rest(W, k, V), W \in Seq(Frames), NEW b0, NEW b, RunsTo(W, k, b0, b)
    PROVE  RunsTo(V, 0, b0, b)
<1>0. /\ Len(W) \in Nat /\ Len(V) \in Nat /\ k \in Nat /\ Len(V) = Len(W) - k
      /\ \A i \in 1..Len(V) : V[i] = W[k + i] /\ k + i \in 1..Len(W) /\ k < k + i
  <2>1. V \in Seq(Frames) /\ k \in 0..Len(W) /\ Len(V) = Len(W) - k /\ \A i \in 1..Len(V) : V[i] = W[k + i]
    BY DEF Rest
  <2>2. Len(W) \in Nat /\ Len(V) \in Nat
    BY <2>1, LenProperties
  <2> QED
    BY <2>1, <2>2
<1>1. ASSUME NEW j \in 1..Len(W), k < j, IF b THEN Starts(W[j]) ELSE Stops(W[j]),
             \A i \in 1..Len(W) : j < i => ~Starts(W[i]) /\ ~Stops(W[i])
      PROVE  RunsTo(V, 0, b0, b)
  <2>1. PICK n \in 1..Len(V) : k + n = j
    <3>1. j - k \in 1..Len(V) /\ k + (j - k) = j
      BY <1>0, <1>1
    <3> QED
      BY <3>1
  <2>2. V[n] = W[j] /\ 0 < n
    <3>1. V[n] = W[k + n] /\ n \in 1..Len(V)
      BY <1>0, <2>1
    <3>2. V[n] = W[j]
      BY <2>1, <3>1
    <3> QED
      BY <1>0, <3>1, <3>2
  <2>3. ASSUME NEW i \in 1..Len(V), n < i PROVE ~Starts(V[i]) /\ ~Stops(V[i])
    <3>1. k + i \in 1..Len(W) /\ j < k + i /\ V[i] = W[k + i]
      BY <1>0, <2>1, <2>3
    <3> QED
      BY <1>1, <3>1
  <2>4. IF b THEN Starts(V[n]) ELSE Stops(V[n])
    BY <1>1, <2>2
  <2> QED
    BY <2>2, <2>3, <2>4 DEF RunsTo
<1>2. ASSUME b0 <=> b, \A i \in 1..Len(W) : k < i => ~Starts(W[i]) /\ ~Stops(W[i])
      PROVE  RunsTo(V, 0, b0, b)
  <2>1. \A i \in 1..Len(V) : ~Starts(V[i]) /\ ~Stops(V[i])
    BY <1>0, <1>2
  <2> QED
    BY <1>2, <2>1 DEF RunsTo
<1> QED
  BY <1>1, <1>2 DEF RunsTo

\* Frames that are calm are added.
LEMMA RunsMore ==
    ASSUME NEW W \in Seq(Frames), NEW X \in Seq(Frames), NEW k, NEW b0, NEW b, RunsTo(W, k, b0, b), Calm(X)
    PROVE  RunsTo(W \o X, k, b0, b)
<1> DEFINE V == W \o X
<1>1. /\ V \in Seq(Frames) /\ Len(V) = Len(W) + Len(X) /\ Len(W) \in Nat /\ Len(X) \in Nat
      /\ (\A i \in 1..Len(W) : V[i] = W[i]) /\ (\A i \in 1..Len(X) : V[Len(W) + i] = X[i])
  BY Joined
<1> HIDE DEF V
<1>2. ASSUME NEW i \in 1..Len(V), Starts(V[i]) \/ Stops(V[i])
      PROVE  i \in 1..Len(W) /\ V[i] = W[i]
  <2>1. SUFFICES ASSUME i \notin 1..Len(W) PROVE FALSE
    BY <1>1
  <2>2. i - Len(W) \in 1..Len(X) /\ Len(W) + (i - Len(W)) = i
    BY <1>1, <2>1
  <2>3. V[i] = X[i - Len(W)]
    BY <1>1, <2>2
  <2> QED
    BY <1>2, <2>2, <2>3 DEF Calm
<1>3. \A j \in 1..Len(W) : j \in 1..Len(V) /\ V[j] = W[j]
  BY <1>1
<1>4. ASSUME NEW j \in 1..Len(W), k < j, IF b THEN Starts(W[j]) ELSE Stops(W[j]),
             \A i \in 1..Len(W) : j < i => ~Starts(W[i]) /\ ~Stops(W[i])
      PROVE  RunsTo(V, k, b0, b)
  <2>1. \A i \in 1..Len(V) : j < i => ~Starts(V[i]) /\ ~Stops(V[i])
    BY <1>2, <1>4
  <2>2. j \in 1..Len(V) /\ IF b THEN Starts(V[j]) ELSE Stops(V[j])
    BY <1>3, <1>4
  <2> QED
    BY <1>4, <2>1, <2>2 DEF RunsTo
<1>5. ASSUME b0 <=> b, \A i \in 1..Len(W) : k < i => ~Starts(W[i]) /\ ~Stops(W[i])
      PROVE  RunsTo(V, k, b0, b)
  <2>1. \A i \in 1..Len(V) : k < i => ~Starts(V[i]) /\ ~Stops(V[i])
    BY <1>2, <1>5
  <2> QED
    BY <1>5, <2>1 DEF RunsTo
<1> QED
  BY <1>4, <1>5 DEF RunsTo, V

\* The last of the frames that are added decides.
LEMMA RunsLast ==
    ASSUME NEW W \in Seq(Frames), NEW X \in Seq(Frames), NEW b0, NEW b,
           NEW j \in 1..Len(X), NEW k, k < Len(W) + j, IF b THEN Starts(X[j]) ELSE Stops(X[j]),
           \A i \in 1..Len(X) : j < i => ~Starts(X[i]) /\ ~Stops(X[i])
    PROVE  RunsTo(W \o X, k, b0, b)
<1> DEFINE V == W \o X
           n == Len(W) + j
<1>1. /\ V \in Seq(Frames) /\ Len(V) = Len(W) + Len(X) /\ Len(W) \in Nat /\ Len(X) \in Nat
      /\ (\A i \in 1..Len(X) : V[Len(W) + i] = X[i])
  BY Joined
<1> HIDE DEF V
<1>2. n \in 1..Len(V) /\ k < n /\ V[n] = X[j]
  BY <1>1
<1>3. ASSUME NEW i \in 1..Len(V), n < i PROVE ~Starts(V[i]) /\ ~Stops(V[i])
  <2>1. i - Len(W) \in 1..Len(X) /\ Len(W) + (i - Len(W)) = i /\ j < i - Len(W)
    BY <1>1, <1>3
  <2>2. V[i] = X[i - Len(W)]
    BY <1>1, <2>1
  <2> QED
    BY <2>1, <2>2
<1>4. IF b THEN Starts(V[n]) ELSE Stops(V[n])
  BY <1>2
<1> HIDE DEF n
<1>5. RunsTo(V, k, b0, b)
  BY <1>2, <1>3, <1>4 DEF RunsTo
<1> QED
  BY <1>5 DEF V

-----------------------------------------------------------------------------
(***************************************************************************)
(* A stream left unfinished.                                               *)
(***************************************************************************)
\* Only the first n frames matter.
LEMMA UnfinishedSame ==
    ASSUME NEW W, NEW V, NEW n \in Nat, \A i \in 1..n : V[i] = W[i]
    PROVE  UnfinishedTo(V, n) <=> UnfinishedTo(W, n)
<1>1. \A i \in 1..n : \A j \in i..n : j \in 1..n
  OBVIOUS
<1> QED
  BY <1>1 DEF UnfinishedTo

\* Calm frames leave it so.
LEMMA UnfinishedMore ==
    ASSUME NEW W \in Seq(Frames), NEW X \in Seq(Frames), Calm(X)
    PROVE  UnfinishedTo(W \o X, Len(W \o X)) <=> UnfinishedTo(W, Len(W))
<1> DEFINE V == W \o X
<1>1. /\ V \in Seq(Frames) /\ Len(V) = Len(W) + Len(X) /\ Len(W) \in Nat /\ Len(X) \in Nat
      /\ (\A i \in 1..Len(W) : V[i] = W[i]) /\ (\A i \in 1..Len(X) : V[Len(W) + i] = X[i])
  BY Joined
<1> HIDE DEF V
<1>2. ASSUME NEW i \in 1..Len(V), V[i].kind \in {"start", "result", "marker"}
      PROVE  i \in 1..Len(W)
  <2>1. SUFFICES ASSUME i \notin 1..Len(W) PROVE FALSE
    BY <1>1
  <2>2. i - Len(W) \in 1..Len(X) /\ Len(W) + (i - Len(W)) = i
    BY <1>1, <2>1
  <2>3. V[i] = X[i - Len(W)]
    BY <1>1, <2>2
  <2> QED
    BY <1>2, <2>2, <2>3 DEF Calm, Starts, Stops
<1>3. ASSUME UnfinishedTo(V, Len(V)) PROVE UnfinishedTo(W, Len(W))
  <2>1. PICK i \in 1..Len(V) : V[i].kind = "start" /\ \A j \in i..Len(V) : V[j].kind \notin {"result", "marker"}
    BY <1>3 DEF UnfinishedTo
  <2>2. i \in 1..Len(W) /\ W[i].kind = "start"
    BY <1>1, <1>2, <2>1
  <2>3. \A j \in i..Len(W) : j \in i..Len(V) /\ V[j] = W[j]
    BY <1>1, <2>2
  <2> QED
    BY <2>1, <2>2, <2>3 DEF UnfinishedTo
<1>4. ASSUME UnfinishedTo(W, Len(W)) PROVE UnfinishedTo(V, Len(V))
  <2>1. PICK i \in 1..Len(W) : W[i].kind = "start" /\ \A j \in i..Len(W) : W[j].kind \notin {"result", "marker"}
    BY <1>4 DEF UnfinishedTo
  <2>2. i \in 1..Len(V) /\ V[i].kind = "start"
    BY <1>1, <2>1
  <2>3. ASSUME NEW j \in i..Len(V), V[j].kind \in {"result", "marker"} PROVE FALSE
    <3>1. j \in 1..Len(V)
      BY <1>1, <2>1, <2>3
    <3>2. j \in 1..Len(W) /\ j \in i..Len(W) /\ W[j] = V[j]
      BY <1>1, <1>2, <2>3, <3>1
    <3> QED
      BY <2>1, <2>3, <3>2
  <2> QED
    BY <2>2, <2>3 DEF UnfinishedTo
<1> QED
  BY <1>3, <1>4 DEF V

\* A stream begins, or a result is the last frame.
LEMMA UnfinishedLast ==
    ASSUME NEW W \in Seq(Frames), NEW X \in Seq(Frames), X # <<>>
    PROVE  /\ X[Len(X)].kind = "start" => UnfinishedTo(W \o X, Len(W \o X))
           /\ X[Len(X)].kind \in {"result", "marker"} => ~UnfinishedTo(W \o X, Len(W \o X))
<1> DEFINE V == W \o X
           n == Len(V)
<1>1. /\ V \in Seq(Frames) /\ Len(V) = Len(W) + Len(X) /\ Len(W) \in Nat /\ Len(X) \in Nat /\ Len(X) # 0
      /\ (\A i \in 1..Len(X) : V[Len(W) + i] = X[i])
  BY Joined, EmptySeq
<1> HIDE DEF V
<1>2. n \in 1..n /\ V[n] = X[Len(X)]
  BY <1>1
<1>3. \A j \in n..n : j = n
  BY <1>1
<1>4. \A i \in 1..n : n \in i..n
  BY <1>1
<1> HIDE DEF n
<1>5. X[Len(X)].kind = "start" => UnfinishedTo(V, n)
  BY <1>2, <1>3 DEF UnfinishedTo
<1>6. X[Len(X)].kind \in {"result", "marker"} => ~UnfinishedTo(V, n)
  BY <1>2, <1>4 DEF UnfinishedTo
<1> QED
  BY <1>5, <1>6 DEF V, n

\* The history holds no start of a stream.
LEMMA UnfinishedHeld ==
    ASSUME NEW h \in Seq(Frames), NEW X \in Seq(Frames), \A i \in 1..Len(h) : h[i].kind # "start",
           UnfinishedTo(h \o X, Len(h \o X))
    PROVE  UnfinishedTo(X, Len(X))
<1> DEFINE V == h \o X
<1>1. /\ V \in Seq(Frames) /\ Len(V) = Len(h) + Len(X) /\ Len(h) \in Nat /\ Len(X) \in Nat
      /\ (\A i \in 1..Len(h) : V[i] = h[i]) /\ (\A i \in 1..Len(X) : V[Len(h) + i] = X[i])
  BY Joined
<1>2. UnfinishedTo(V, Len(V))
  OBVIOUS
<1> HIDE DEF V
<1>3. PICK i \in 1..Len(V) : V[i].kind = "start" /\ \A j \in i..Len(V) : V[j].kind \notin {"result", "marker"}
  BY <1>2 DEF UnfinishedTo
<1>4. i \notin 1..Len(h)
  BY <1>1, <1>3
<1>5. i - Len(h) \in 1..Len(X) /\ Len(h) + (i - Len(h)) = i
  BY <1>1, <1>4
<1>6. X[i - Len(h)].kind = "start"
  BY <1>1, <1>3, <1>5
<1>7. ASSUME NEW j \in (i - Len(h))..Len(X) PROVE X[j].kind \notin {"result", "marker"}
  <2>1. j \in 1..Len(X) /\ Len(h) + j \in i..Len(V)
    BY <1>1, <1>5
  <2>2. V[Len(h) + j] = X[j]
    BY <1>1, <2>1
  <2> QED
    BY <1>3, <2>1, <2>2
<1> QED
  BY <1>5, <1>6, <1>7 DEF UnfinishedTo

-----------------------------------------------------------------------------
(***************************************************************************)
(* The place from which frames move the flag.                              *)
(***************************************************************************)
LEMMA CountsMore ==
    ASSUME NEW t \in Tabs, NEW W \in Seq(Frames), NEW X \in Seq(Frames), NEW e \in 0..Len(W),
           Counts(t, W, e), \A i \in 1..Len(X) : X[i].kind # "end"
    PROVE  /\ e \in 0..Len(W \o X) /\ Counts(t, W \o X, e)
           /\ Flag(t, W \o X, e) <=> Flag(t, W, e)
<1> DEFINE V == W \o X
<1>1. /\ V \in Seq(Frames) /\ Len(V) = Len(W) + Len(X) /\ Len(W) \in Nat /\ Len(X) \in Nat
      /\ (\A i \in 1..Len(W) : V[i] = W[i]) /\ (\A i \in 1..Len(X) : V[Len(W) + i] = X[i])
  BY Joined
<1>2. Len(t.buf) \in Nat
  BY LenProperties DEF Tabs
<1> HIDE DEF V
<1>3. e \in 0..Len(V)
  BY <1>1
<1>4. CASE ~t.loading
  <2>1. Counts(t, V, e) /\ (Flag(t, V, e) <=> Flag(t, W, e))
    BY <1>4 DEF Counts, Flag
  <2> QED
    BY <1>3, <2>1 DEF V
<1>5. CASE t.loading
  <2>1. e \in Len(t.buf)+1..Len(W) /\ W[e].kind = "end" /\ \A i \in 1..Len(W) : W[i].kind = "end" => i = e
    BY <1>5 DEF Counts
  <2>2. e \in Len(t.buf)+1..Len(V) /\ e \in 1..Len(W) /\ e - 1 \in Nat
    BY <1>1, <1>2, <2>1
  <2>3. ASSUME NEW i \in 1..Len(V), V[i].kind = "end" PROVE i = e
    <3>1. CASE i \in 1..Len(W)
      BY <1>1, <2>1, <2>3, <3>1
    <3>2. CASE i \notin 1..Len(W)
      <4>1. i - Len(W) \in 1..Len(X) /\ Len(W) + (i - Len(W)) = i
        BY <1>1, <3>2
      <4>2. V[i] = X[i - Len(W)]
        BY <1>1, <4>1
      <4> QED
        BY <2>3, <4>1, <4>2
    <3> QED
      BY <3>1, <3>2
  <2>4. Counts(t, V, e)
    BY <1>1, <1>5, <2>1, <2>2, <2>3 DEF Counts
  <2>5. \A i \in 1..e-1 : V[i] = W[i]
    BY <1>1, <2>2
  <2>6. UnfinishedTo(V, e-1) <=> UnfinishedTo(W, e-1)
    BY <2>2, <2>5, UnfinishedSame
  <2>7. Flag(t, V, e) <=> Flag(t, W, e)
    BY <1>5, <2>6 DEF Flag
  <2> QED
    BY <1>3, <2>4, <2>7 DEF V
<1> QED
  BY <1>4, <1>5

\* Frames with ids beyond m, after frames with ids up to m.
LEMMA NoRepeatMore ==
    ASSUME NEW t, NEW W \in Seq(Frames), NEW X \in Seq(Frames), NEW e, NEW m \in Nat, NoRepeat(t, W, e),
           t.seen \subseteq 1..m, \A i \in 1..Len(W) : W[i].kind \in Unique => W[i].id \in 1..m,
           \A i \in 1..Len(X) : X[i].kind \in Unique => X[i].id = m + i
    PROVE  NoRepeat(t, W \o X, e)
<1> DEFINE V == W \o X
<1>1. /\ V \in Seq(Frames) /\ Len(V) = Len(W) + Len(X) /\ Len(W) \in Nat /\ Len(X) \in Nat
      /\ (\A i \in 1..Len(W) : V[i] = W[i]) /\ (\A i \in 1..Len(X) : V[Len(W) + i] = X[i])
  BY Joined
<1> HIDE DEF V
<1>2. ASSUME NEW j \in 1..Len(V), j \notin 1..Len(W)
      PROVE  \E x \in 1..Len(X) : j = Len(W) + x /\ V[j] = X[x]
  <2>1. j - Len(W) \in 1..Len(X) /\ Len(W) + (j - Len(W)) = j
    BY <1>1, <1>2
  <2> QED
    BY <1>1, <2>1
<1>3. ASSUME NEW j \in 1..Len(V), e < j, V[j].kind \in Unique,
             NEW i \in 1..j-1, V[i].kind \in Unique
      PROVE  V[j].id \notin t.seen /\ V[i].id # V[j].id
  <2>1. CASE j \in 1..Len(W)
    <3>1. i \in 1..Len(W) /\ V[i] = W[i] /\ V[j] = W[j]
      BY <1>1, <2>1
    <3> QED
      BY <1>3, <2>1, <3>1 DEF NoRepeat
  <2>2. CASE j \notin 1..Len(W)
    <3>1. PICK x \in 1..Len(X) : j = Len(W) + x /\ V[j] = X[x]
      BY <1>2, <2>2
    <3>2. V[j].id = m + x
      BY <1>3, <3>1
    <3>3. m + x \notin 1..m
      BY <3>1
    <3>4. CASE i \in 1..Len(W)
      <4>1. V[i].id \in 1..m
        BY <1>1, <1>3, <3>4
      <4> QED
        BY <3>2, <3>3, <4>1
    <3>5. CASE i \notin 1..Len(W)
      <4>1. i \in 1..Len(V)
        BY <1>1
      <4>2. PICK y \in 1..Len(X) : i = Len(W) + y /\ V[i] = X[y]
        BY <1>2, <3>5, <4>1
      <4>3. V[i].id = m + y
        BY <1>3, <4>2
      <4>4. y # x
        BY <1>1, <3>1, <4>2
      <4> QED
        BY <3>2, <3>3, <4>3, <4>4
    <3> QED
      BY <3>4, <3>5
  <2> QED
    BY <2>1, <2>2
<1>4. ASSUME NEW j \in 1..Len(V), e < j, V[j].kind \in Unique PROVE V[j].id \notin t.seen
  <2>1. CASE j \in 1..Len(W)
    BY <1>1, <1>4, <2>1 DEF NoRepeat
  <2>2. CASE j \notin 1..Len(W)
    <3>1. PICK x \in 1..Len(X) : j = Len(W) + x /\ V[j] = X[x]
      BY <1>2, <2>2
    <3>2. V[j].id = m + x
      BY <1>4, <3>1
    <3> QED
      BY <3>1, <3>2
  <2> QED
    BY <2>1, <2>2
<1>5. NoRepeat(t, V, e)
  BY <1>3, <1>4 DEF NoRepeat
<1> QED
  BY <1>5 DEF V

\* What is sent to a tab that follows leaves its mark where it is.
LEMMA MarkedSent ==
    ASSUME TypeOK, Numbered, Joins, InStepWithHistory, NEW X, Sent(X), NEW r \in Sockets, Following(r),
           NEW e, Marked(tab[r], ToCome(r), e)
    PROVE  LET t == tab[r]  W == ToCome(r)  V == ToCome(r)' IN
           /\ tab'[r] = t /\ V = W \o X /\ W \in Seq(Frames) /\ X \in Seq(Frames)
           /\ Marked(t, V, e) /\ (Flag(t, V, e) <=> Flag(t, W, e))
<1> DEFINE t == tab[r]
           W == ToCome(r)
           m == Len(history)
<1>1. /\ history \in Seq(Frames) /\ X \in Seq(Frames) /\ W \in Seq(Frames) /\ t \in Tabs
      /\ sub[r] = "live" /\ sock[r] = "open" /\ tab' = tab
  BY FramesToCome DEF TypeOK, Sent, Joins, Joining, Following
<1>2. ToCome(r)' = W \o X
  BY <1>1, SentTo
<1>3. InStep(history, t, W, 0)
  BY DEF InStepWithHistory
<1>4. m \in Nat /\ Len(W) \in Nat
  BY <1>1, LenProperties
<1>5. t.seen \subseteq 1..m
  BY <1>3 DEF InStep, Recognised
<1>6. \A i \in 1..Len(W) : W[i].kind \in Unique => W[i].id \in 1..m
  <2>1. \A i \in 1..Len(W) : 0 < i
    BY <1>4
  <2> HIDE DEF W
  <2> QED
    BY <1>3, <2>1 DEF InStep, Genuine
<1>7. ASSUME NEW i \in 1..Len(X), X[i].kind \in Unique PROVE X[i].id = m + i
  <2>1. Extends(history, X, history')
    BY <1>7 DEF Sent
  <2>2. /\ Len(history') = m + Len(X) /\ Len(X) \in Nat
        /\ history'[m + i] = X[i]
    BY <1>1, <2>1, Extending
  <2>3. m + i \in 1..Len(history')
    BY <1>4, <2>2
  <2> QED
    BY <2>1, <2>2, <2>3 DEF Extends
<1>8. \A i \in 1..Len(X) : X[i].kind # "end"
  BY DEF Sent
<1>9. Marked(t, W, e)
  OBVIOUS
<1> HIDE DEF t, W, m
<1>10. NoRepeat(t, W \o X, e)
  BY <1>1, <1>4, <1>5, <1>6, <1>7, <1>9, NoRepeatMore DEF Marked
<1>11. e \in 0..Len(W \o X) /\ Counts(t, W \o X, e) /\ (Flag(t, W \o X, e) <=> Flag(t, W, e))
  BY <1>1, <1>8, <1>9, CountsMore DEF Marked
<1>12. Marked(t, W \o X, e)
  BY <1>10, <1>11 DEF Marked
<1> QED
  BY <1>1, <1>2, <1>11, <1>12 DEF t, W

\* The first frames are gone, those before the mark e included.
LEMMA NoRepeatRest ==
    ASSUME NEW t, NEW u, NEW W \in Seq(Frames), NEW e \in 0..Len(W), NEW k \in 0..Len(W), e <= k,
           NEW V, Rest(W, k, V), NoRepeat(t, W, e),
           \A i \in u.seen : i \in t.seen \/ \E n \in 1..k : W[n].kind \in Unique /\ W[n].id = i
    PROVE  NoRepeat(u, V, 0)
<1>0. /\ Len(W) \in Nat /\ Len(V) \in Nat /\ k \in Nat /\ e \in Nat /\ Len(V) = Len(W) - k
      /\ \A i \in 1..Len(V) : V[i] = W[k + i] /\ k + i \in 1..Len(W) /\ e < k + i
  <2>1. V \in Seq(Frames) /\ Len(V) = Len(W) - k /\ \A i \in 1..Len(V) : V[i] = W[k + i]
    BY DEF Rest
  <2>2. Len(W) \in Nat /\ Len(V) \in Nat
    BY <2>1, LenProperties
  <2> QED
    BY <2>1, <2>2
<1>1. ASSUME NEW j \in 1..Len(V), V[j].kind \in Unique
      PROVE  /\ V[j].id \notin t.seen
             /\ \A n \in 1..(k + j) - 1 : W[n].kind \in Unique => W[n].id # V[j].id
  BY <1>0, <1>1 DEF NoRepeat
<1>2. ASSUME NEW j \in 1..Len(V), V[j].kind \in Unique PROVE V[j].id \notin u.seen
  <2>1. \A n \in 1..k : n \in 1..(k + j) - 1
    BY <1>0
  <2> QED
    BY <1>1, <1>2, <2>1
<1>3. ASSUME NEW j \in 1..Len(V), V[j].kind \in Unique, NEW i \in 1..j-1, V[i].kind \in Unique
      PROVE  V[i].id # V[j].id
  <2>1. i \in 1..Len(V) /\ k + i \in 1..(k + j) - 1
    BY <1>0
  <2>2. V[i] = W[k + i]
    BY <1>0, <2>1
  <2> QED
    BY <1>1, <1>3, <2>1, <2>2
<1> QED
  BY <1>2, <1>3 DEF NoRepeat

\* A frame is received: where the flag was to move to, it still will.
LEMMA MarkedReceived ==
    ASSUME TypeOK, Joins, NEW s \in Sockets, Receive(s), NEW e, Marked(tab[s], ToCome(s), e)
    PROVE  \E g : /\ Marked(tab'[s], ToCome(s)', g)
                  /\ \A b \in BOOLEAN : Runs(tab[s], ToCome(s), e, b) => Runs(tab'[s], ToCome(s)', g, b)
<1> DEFINE t == tab[s]
           W == ToCome(s)
           V == ToCome(s)'
           u == tab'[s]
<1>1. /\ W \in Seq(Frames) /\ t \in Tabs /\ t.buf \in Seq(Frames)
      /\ Len(W) \in Nat /\ Len(t.buf) \in Nat
      /\ e \in 0..Len(W) /\ Counts(t, W, e) /\ NoRepeat(t, W, e)
  BY FramesToCome DEF Marked
<1>2. t.loading => t.seen = {}
  <2>1. t.loading => t = [FreshTab EXCEPT !.buf = t.buf]
    BY DEF Joins, Joining
  <2> QED
    BY <2>1 DEF FreshTab
<1>3. CASE t.loading /\ Head(wire[s]).kind # "end"
  <2>1. /\ u = [t EXCEPT !.buf = u.buf] /\ Len(u.buf) = Len(t.buf) + 1
        /\ W[Len(t.buf) + 1].kind # "end" /\ V = W
    BY <1>3, Buffering
  <2>2. u.loading /\ u.seen = t.seen
    BY <1>1, <1>3, <2>1 DEF Tabs
  <2> HIDE DEF u, V, t, W
  <2>3. Counts(u, W, e) /\ NoRepeat(u, W, e)
    BY <1>1, <1>3, <2>1, <2>2 DEF Counts, NoRepeat
  <2>4. \A b : Runs(t, W, e, b) => Runs(u, W, e, b)
    BY <1>3, <2>2 DEF Runs, Flag
  <2>5. Marked(u, V, e) /\ \A b \in BOOLEAN : Runs(t, W, e, b) => Runs(u, V, e, b)
    BY <1>1, <2>1, <2>3, <2>4 DEF Marked
  <2> QED
    BY <2>5 DEF u, V, t, W
<1>4. CASE t.loading /\ Head(wire[s]).kind = "end"
  <2> DEFINE k == Len(t.buf)
             d == DispatchAll(t, t.buf)
  <2>1. /\ k \in 0..Len(W) /\ k < Len(W) /\ W[k + 1].kind = "end"
        /\ (\A i \in 1..k : t.buf[i] = W[i])
        /\ Rest(W, k + 1, V)
        /\ u.loading = FALSE /\ u.running = Unfinished(t.buf) /\ u.seen = d.seen
    BY <1>4, Loaded
  <2>2. d.seen \subseteq t.seen \union {i \in Nat : \E j \in 1..Len(t.buf) : t.buf[j].kind \in Unique /\ t.buf[j].id = i}
    BY <1>1, DispatchAllIsTab
  <2> HIDE DEF u, V, t, W, d
  <2>3. e = k + 1 /\ k + 1 \in 0..Len(W)
    <3>1. k + 1 \in 1..Len(W)
      BY <1>1, <2>1
    <3> QED
      BY <1>1, <1>4, <2>1, <3>1 DEF Counts
  <2>4. \A i \in u.seen : i \in t.seen \/ \E n \in 1..k+1 : W[n].kind \in Unique /\ W[n].id = i
    <3>1. \A n \in 1..k : n \in 1..k+1
      BY <1>1
    <3> QED
      BY <2>1, <2>2, <3>1
  <2>5. NoRepeat(u, V, 0)
    BY <1>1, <2>1, <2>3, <2>4, NoRepeatRest
  <2>6. u.running <=> Flag(t, W, e)
    <3>1. Unfinished(t.buf) <=> UnfinishedTo(t.buf, k)
      BY DEF Unfinished, UnfinishedTo
    <3>2. UnfinishedTo(t.buf, k) <=> UnfinishedTo(W, k)
      BY <1>1, <2>1, UnfinishedSame
    <3>3. e - 1 = k
      BY <1>1, <2>3
    <3>4. Flag(t, W, e) <=> UnfinishedTo(W, k)
      BY <1>4, <3>3 DEF Flag
    <3> QED
      BY <2>1, <3>1, <3>2, <3>4
  <2>7. ASSUME NEW b \in BOOLEAN, Runs(t, W, e, b) PROVE Runs(u, V, 0, b)
    <3>1. RunsTo(W, k + 1, Flag(t, W, e), b)
      BY <2>3, <2>7 DEF Runs
    <3>2. RunsTo(V, 0, Flag(t, W, e), b)
      BY <1>1, <2>1, <3>1, RunsRest
    <3>3. RunsTo(V, 0, u.running, b)
      BY <2>6, <3>2 DEF RunsTo
    <3>4. Flag(u, V, 0) = u.running
      BY <2>1 DEF Flag
    <3> QED
      BY <3>3, <3>4 DEF Runs
  <2>8. Marked(u, V, 0)
    <3>1. Len(V) \in Nat
      BY <2>1, LenProperties DEF Rest
    <3>2. 0 \in 0..Len(V) /\ Counts(u, V, 0)
      BY <2>1, <3>1 DEF Counts
    <3> QED
      BY <2>5, <3>2 DEF Marked
  <2>9. \E g : Marked(u, V, g) /\ \A b \in BOOLEAN : Runs(t, W, e, b) => Runs(u, V, g, b)
    BY <2>7, <2>8
  <2> QED
    BY <2>9 DEF u, V, t, W
<1>5. CASE ~t.loading
  <2>1. /\ 0 < Len(W) /\ W[1] \in Frames /\ Rest(W, 1, V)
        /\ u = Dispatch(t, W[1]) /\ u.loading = FALSE
    BY <1>5, Live
  <2> HIDE DEF u, V, t, W
  <2>2. e = 0 /\ 1 \in 0..Len(W) /\ 1 \in 1..Len(W) /\ 0 \in 0..Len(W)
    BY <1>1, <1>5, <2>1 DEF Counts
  <2>3. ~(W[1].kind \in Unique /\ W[1].id \in t.seen)
    BY <1>1, <2>2 DEF NoRepeat
  <2>4. \A i \in u.seen : i \in t.seen \/ \E n \in 1..1 : W[n].kind \in Unique /\ W[n].id = i
    <3>1. \A i \in u.seen : i \in t.seen \/ (W[1].kind \in Unique /\ i = W[1].id)
      BY <1>1, <2>1, DispatchSees
    <3> QED
      BY <3>1
  <2>5. NoRepeat(u, V, 0)
    BY <1>1, <2>1, <2>2, <2>4, NoRepeatRest
  <2>6. ASSUME NEW b \in BOOLEAN, Runs(t, W, e, b) PROVE Runs(u, V, 0, b)
    <3>1. RunsTo(W, 0, t.running, b)
      BY <1>5, <2>2, <2>6 DEF Runs, Flag
    <3>2. RunsTo(W, 1, u.running, b)
      BY <1>1, <1>5, <2>1, <2>3, <3>1, RunsNext
    <3>3. RunsTo(V, 0, u.running, b)
      BY <1>1, <2>1, <3>2, RunsRest
    <3>4. Flag(u, V, 0) = u.running
      BY <2>1 DEF Flag
    <3> QED
      BY <3>3, <3>4 DEF Runs
  <2>7. Marked(u, V, 0)
    <3>1. Len(V) \in Nat
      BY <2>1, LenProperties DEF Rest
    <3>2. 0 \in 0..Len(V) /\ Counts(u, V, 0)
      BY <2>1, <3>1 DEF Counts
    <3> QED
      BY <2>5, <3>2 DEF Marked
  <2>8. \E g : Marked(u, V, g) /\ \A b \in BOOLEAN : Runs(t, W, e, b) => Runs(u, V, g, b)
    BY <2>6, <2>7
  <2> QED
    BY <2>8 DEF u, V, t, W
<1> QED
  BY <1>3, <1>4, <1>5

\* The end of the history is sent to a tab that buffers: that is the mark,
\* and what is unfinished before it is the flag.
LEMMA MarkedEnded ==
    ASSUME NEW t \in Tabs, t.loading, NEW W \in Seq(Frames), Len(t.buf) <= Len(W),
           \A i \in 1..Len(W) : W[i].kind # "end",
           NEW X \in Seq(Frames), X # <<>>, X[1] = End,
           \A i \in 2..Len(X) : X[i].kind \in {"synthetic", "prompt"}
    PROVE  /\ Marked(t, W \o X, Len(W) + 1)
           /\ Flag(t, W \o X, Len(W) + 1) <=> UnfinishedTo(W, Len(W))
           /\ (\A i \in 2..Len(X) : X[i].kind = "prompt") =>
                 \A b \in BOOLEAN : (UnfinishedTo(W, Len(W)) <=> b) => Runs(t, W \o X, Len(W) + 1, b)
<1> DEFINE V == W \o X
           e == Len(W) + 1
<1>1. /\ V \in Seq(Frames) /\ Len(V) = Len(W) + Len(X) /\ Len(W) \in Nat /\ Len(X) \in Nat /\ Len(X) # 0
      /\ (\A i \in 1..Len(W) : V[i] = W[i]) /\ (\A i \in 1..Len(X) : V[Len(W) + i] = X[i])
  BY Joined, EmptySeq
<1>2. Len(t.buf) \in Nat
  BY LenProperties DEF Tabs
<1> HIDE DEF V
<1>3. V[e].kind = "end" /\ e \in 1..Len(V) /\ e \in 0..Len(V) /\ e \in Len(t.buf)+1..Len(V)
  <2>1. 1 \in 1..Len(X)
    BY <1>1
  <2>2. V[e] = End
    BY <1>1, <2>1
  <2> QED
    BY <1>1, <1>2, <2>2 DEF End
<1>4. ASSUME NEW j \in 1..Len(V), e < j
      PROVE  /\ V[j].kind \in {"synthetic", "prompt"}
             /\ (\A i \in 2..Len(X) : X[i].kind = "prompt") => V[j].kind = "prompt"
  <2>1. j - Len(W) \in 2..Len(X) /\ j - Len(W) \in 1..Len(X) /\ Len(W) + (j - Len(W)) = j
    BY <1>1, <1>4
  <2>2. V[j] = X[j - Len(W)]
    BY <1>1, <2>1
  <2> QED
    BY <2>1, <2>2
<1>5. ASSUME NEW j \in 1..Len(V), V[j].kind = "end" PROVE j = e
  <2>1. CASE j \in 1..Len(W)
    BY <1>1, <1>5, <2>1
  <2>2. CASE j \notin 1..Len(W)
    <3>0. Len(V) \in Nat /\ Len(W) \in Nat
      BY <1>1
    <3>1. j = e \/ e < j
      BY <2>2, <3>0
    <3> QED
      BY <1>4, <1>5, <3>1
  <2> QED
    BY <2>1, <2>2
<1>6. e - 1 = Len(W)
  BY <1>1
<1> HIDE DEF e
<1>7. Counts(t, V, e) /\ NoRepeat(t, V, e)
  BY <1>3, <1>4, <1>5 DEF Counts, NoRepeat, Unique
<1>8. UnfinishedTo(V, Len(W)) <=> UnfinishedTo(W, Len(W))
  BY <1>1, UnfinishedSame
<1>9. Flag(t, V, e) <=> UnfinishedTo(W, Len(W))
  BY <1>6, <1>8 DEF Flag
<1>10. ASSUME \A i \in 2..Len(X) : X[i].kind = "prompt", NEW b \in BOOLEAN, UnfinishedTo(W, Len(W)) <=> b
       PROVE  Runs(t, V, e, b)
  <2>1. \A j \in 1..Len(V) : e < j => ~Starts(V[j]) /\ ~Stops(V[j])
    BY <1>4, <1>10 DEF Starts, Stops
  <2>2. Flag(t, V, e) <=> b
    BY <1>9, <1>10
  <2> QED
    BY <2>1, <2>2 DEF Runs, RunsTo
<1> QED
  BY <1>3, <1>7, <1>9, <1>10 DEF Marked, V, e

-----------------------------------------------------------------------------
(***************************************************************************)
(* What a step does to the turn.                                           *)
(***************************************************************************)
Idles ==
    /\ Quiet /\ turn' = turn
    /\ (Waits => Waits') \/ \A s \in Writers : sock[s] # "open"
Keeps(X) == Sent(X) /\ Calm(X) /\ turn' = turn /\ (Waits => Waits')
Begins(X) == Sent(X) /\ turn'.on /\ ~turn'.streamed
Streams(X) == Sent(X) /\ X # <<>> /\ X[Len(X)].kind = "start" /\ turn'.on
Finishes(X) == Sent(X) /\ X # <<>> /\ X[Len(X)].kind \in {"result", "marker"} /\ ~turn'.on

LEMMA PushSent ==
    ASSUME TypeOK, Numbered, NEW kinds \in Seq(RecordKinds), Push(kinds), UNCHANGED <<sub, at, sock, tab>>
    PROVE  \E X : Sent(X) /\ Len(X) = Len(kinds) /\ \A i \in 1..Len(X) : X[i].kind = kinds[i]
<1>1. Records(kinds)
  BY DEF Records
<1> QED
  BY <1>1, RecordsSent

\* One record, or two.
LEMMA PushOne ==
    ASSUME TypeOK, Numbered, NEW a \in RecordKinds, Push(<<a>>), UNCHANGED <<sub, at, sock, tab>>
    PROVE  \E X : Sent(X) /\ Len(X) = 1 /\ X # <<>> /\ X[Len(X)].kind = a
<1>1. <<a>> \in Seq(RecordKinds) /\ Len(<<a>>) = 1 /\ <<a>>[1] = a
  OBVIOUS
<1>2. PICK X : Sent(X) /\ Len(X) = Len(<<a>>) /\ \A i \in 1..Len(X) : X[i].kind = <<a>>[i]
  BY <1>1, PushSent
<1>3. Len(X) = 1 /\ X[1].kind = a
  BY <1>1, <1>2
<1> QED
  BY <1>2, <1>3

LEMMA PushTwo ==
    ASSUME TypeOK, Numbered, NEW a \in RecordKinds, NEW b \in RecordKinds, Push(<<a, b>>),
           UNCHANGED <<sub, at, sock, tab>>
    PROVE  \E X : Sent(X) /\ X # <<>> /\ X[Len(X)].kind = b
<1>1. <<a, b>> \in Seq(RecordKinds) /\ Len(<<a, b>>) = 2 /\ <<a, b>>[2] = b
  OBVIOUS
<1>2. PICK X : Sent(X) /\ Len(X) = Len(<<a, b>>) /\ \A i \in 1..Len(X) : X[i].kind = <<a, b>>[i]
  BY <1>1, PushSent
<1>3. Len(X) = 2 /\ X[2].kind = b
  BY <1>1, <1>2
<1> QED
  BY <1>2, <1>3

\* One record of a kind that moves no flag.
LEMMA PushCalm ==
    ASSUME TypeOK, Numbered, NEW kind, kind \in {"message", "boundary"}, Push(<<kind>>),
           UNCHANGED <<sub, at, sock, tab>>
    PROVE  \E X : Sent(X) /\ Calm(X)
<1>1. <<kind>> \in Seq(RecordKinds) /\ Len(<<kind>>) = 1
  BY DEF RecordKinds
<1>2. PICK X : Sent(X) /\ Len(X) = 1 /\ \A i \in 1..Len(X) : X[i].kind = <<kind>>[i]
  BY <1>1, PushSent
<1>3. \A i \in 1..Len(X) : i = 1
  BY <1>2
<1>4. Calm(X)
  BY <1>2, <1>3 DEF Calm, Starts, Stops
<1> QED
  BY <1>2, <1>4

LEMMA OneFrameSent ==
    ASSUME TypeOK, NEW f \in Frames, f.kind \in {"start", "prompt"}, Broadcast(<<f>>),
           UNCHANGED <<history, sub, at, sock, tab>>
    PROVE  /\ Sent(<<f>>) /\ <<f>> # <<>> /\ <<f>>[Len(<<f>>)] = f
           /\ f.kind = "prompt" => Calm(<<f>>)
<1>1. /\ <<f>> \in Seq(Frames) /\ Len(<<f>>) = 1 /\ <<f>> # <<>> /\ <<f>>[1] = f
      /\ \A i \in 1..Len(<<f>>) : <<f>>[i] = f
  OBVIOUS
<1> QED
  BY <1>1 DEF Sent, Unique, Calm, Starts, Stops

LEMMA TurnKinds ==
    ASSUME TypeOK, Numbered, ~PostMayFail, [Next]_vars
    PROVE  \/ Idles
           \/ \E X : Keeps(X) \/ Begins(X) \/ Streams(X) \/ Finishes(X)
           \/ \E s \in Sockets : Open(s) \/ Register(s) \/ Replay(s) \/ TailStep(s) \/ Commands(s)
                                 \/ Close(s) \/ Receive(s) \/ Send(s) \/ Answer(s) \/ Cancel(s)
<1>0. inputs \in Nat /\ queued \in Nat /\ posts \in Nat /\ Len(history) \in Nat
  BY LenProperties DEF TypeOK
<1>1. CASE UNCHANGED vars
  BY <1>1 DEF vars, views, Quiet, server, joins, Idles, Waits
<1>2. CASE Arrive
  <2>1. turn' = turn /\ Waits'
    BY <1>0, <1>2 DEF Arrive, Waits
  <2>2. CASE turn.generating \/ queued > 0
    BY <1>2, <2>1, <2>2 DEF Arrive, Quiet, views, joins, Idles
  <2>3. CASE ~(turn.generating \/ queued > 0)
    <3>1. Push(<<"message">>) /\ UNCHANGED <<sub, at, sock, tab>>
      BY <1>2, <2>3 DEF Arrive
    <3>2. PICK X : Sent(X) /\ Calm(X)
      BY <3>1, PushCalm
    <3> QED
      BY <2>1, <3>2 DEF Keeps
  <2> QED
    BY <2>2, <2>3
<1>3. CASE Lost
  BY <1>3 DEF Lost, Quiet, views, server, Idles
<1>4. CASE Begin
  <2>1. Push(<<"init">>) /\ UNCHANGED <<sub, at, sock, tab>>
    BY <1>4 DEF Begin
  <2>2. PICK X : Sent(X)
    BY <2>1, PushOne DEF RecordKinds
  <2>3. turn'.on /\ ~turn'.streamed
    BY <1>4 DEF Begin
  <2> QED
    BY <2>2, <2>3 DEF Begins
<1>5. CASE Stream
  <2>1. Start(Len(history)) \in Frames /\ Start(Len(history)).kind = "start"
    BY <1>0, FramesSent
  <2>2. turn'.on /\ Broadcast(<<Start(Len(history))>>) /\ UNCHANGED <<history, sub, at, sock, tab>>
    BY <1>5 DEF Stream, TypeOK
  <2>3. Streams(<<Start(Len(history))>>)
    BY <2>1, <2>2, OneFrameSent DEF Streams
  <2> QED
    BY <2>3
<1>6. CASE Say
  <2>1. Push(<<"message">>) /\ UNCHANGED <<turn, inputs, queued, posts, sub, at, sock, tab>>
    BY <1>6 DEF Say
  <2>2. PICK X : Sent(X) /\ Calm(X)
    BY <2>1, PushCalm
  <2> QED
    BY <2>1, <2>2 DEF Keeps, Waits
<1>7. CASE Result
  <2>1. ~turn'.on /\ UNCHANGED <<sub, at, sock, tab>>
    BY <1>7 DEF Result, NoTurn
  <2>2. CASE queued > 0
    <3>1. Push(<<"message", "result">>)
      BY <1>7, <2>2 DEF Result
    <3>2. PICK X : Sent(X) /\ X # <<>> /\ X[Len(X)].kind = "result"
      BY <2>1, <3>1, PushTwo DEF RecordKinds
    <3> QED
      BY <2>1, <3>2 DEF Finishes
  <2>3. CASE ~(queued > 0)
    <3>1. Push(<<"result">>)
      BY <1>7, <2>3 DEF Result
    <3>2. PICK X : Sent(X) /\ X # <<>> /\ X[Len(X)].kind = "result"
      BY <2>1, <3>1, PushOne DEF RecordKinds
    <3> QED
      BY <2>1, <3>2 DEF Finishes
  <2> QED
    BY <2>2, <2>3
<1>8. CASE Fail
  <2>0. ~turn'.on
    BY <1>8 DEF Fail, NoTurn
  <2>1. Push(<<"note", "marker">>) /\ UNCHANGED <<sub, at, sock, tab>>
    BY <1>8 DEF Fail
  <2>2. PICK X : Sent(X) /\ X # <<>> /\ X[Len(X)].kind = "marker"
    BY <2>1, PushTwo DEF RecordKinds
  <2> QED
    BY <2>0, <2>2 DEF Finishes
<1>9. ASSUME NEW p \in Prompts, Ask(p) PROVE \E X : Keeps(X)
  <2>1. /\ Broadcast(<<Prompt(p)>>) /\ UNCHANGED <<history, sub, at, sock, tab>>
        /\ UNCHANGED <<turn, inputs, queued, posts>>
    BY <1>9 DEF Ask
  <2>2. Prompt(p) \in Frames /\ Prompt(p).kind = "prompt"
    BY FramesSent
  <2>3. Keeps(<<Prompt(p)>>)
    BY <2>1, <2>2, OneFrameSent DEF Keeps, Waits
  <2> QED
    BY <2>3
<1>10. ASSUME NEW p \in Prompts, TimeOut(p) PROVE Idles
  BY <1>10 DEF TimeOut, Quiet, views, Idles, Waits
<1>11. ASSUME NEW s \in Sockets, Clear(s) PROVE \E X : Keeps(X)
  <2>1. Push(<<"boundary">>) /\ UNCHANGED <<turn, inputs, queued, posts, sub, at, sock, tab>>
    BY <1>11 DEF Clear
  <2>2. PICK X : Sent(X) /\ Calm(X)
    BY <2>1, PushCalm
  <2> QED
    BY <2>1, <2>2 DEF Keeps, Waits
<1> QED
  BY <1>1, <1>2, <1>3, <1>4, <1>5, <1>6, <1>7, <1>8, <1>9, <1>10, <1>11 DEF Next

-----------------------------------------------------------------------------
(***************************************************************************)
(* Before the end of the history is sent.                                  *)
(***************************************************************************)
\* What attach has kept back or sent so far tells whether a stream goes on.
Tells(r) ==
    /\ at[r] = "provider" /\ ~turn.on => ~UnfinishedTo(held[r], Len(held[r]))
    /\ at[r] \in {"tail", "commands"} /\ ~turn.on => ~UnfinishedTo(ToCome(r), Len(ToCome(r)))
    /\ at[r] = "commands" /\ Streaming => UnfinishedTo(ToCome(r), Len(ToCome(r)))

LEMMA TellsSame ==
    ASSUME NEW r, Tells(r), at'[r] = at[r], held'[r] = held[r], ToCome(r)' = ToCome(r),
           ~turn'.on => ~turn.on, Streaming' => Streaming
    PROVE  Tells(r)'
  BY DEF Tells

LEMMA TellsSent ==
    ASSUME TypeOK, Joins, NEW X, Sent(X), Keeps(X) \/ Begins(X) \/ Streams(X) \/ Finishes(X),
           NEW r \in Sockets, sock[r] = "open", Tells(r)
    PROVE  Tells(r)'
<1>1. /\ X \in Seq(Frames) /\ held[r] \in Seq(Frames) /\ ToCome(r) \in Seq(Frames) /\ at' = at
  BY FramesToCome DEF Sent
<1>2. at[r] = "provider" => held'[r] = held[r] \o X
  <2>1. at[r] = "provider" => sub[r] = "pending"
    BY DEF Joins, Joining
  <2> QED
    BY <2>1, SentTo
<1>3. at[r] \in {"tail", "commands"} => ToCome(r)' = ToCome(r) \o X
  <2>1. at[r] \in {"tail", "commands"} => sub[r] = "live"
    BY DEF Joins, Joining, Following
  <2> QED
    BY <2>1, SentTo
<1> DEFINE F(W) == UnfinishedTo(W, Len(W))
<1>4. CASE Keeps(X)
  <2>1. (F(held[r] \o X) <=> F(held[r])) /\ (F(ToCome(r) \o X) <=> F(ToCome(r)))
    BY <1>1, <1>4, UnfinishedMore DEF Keeps
  <2>2. turn' = turn
    BY <1>4 DEF Keeps
  <2>3. /\ at[r] = "provider" => (F(held'[r]) <=> F(held[r]))
        /\ at[r] \in {"tail", "commands"} => (F(ToCome(r)') <=> F(ToCome(r)))
    BY <1>2, <1>3, <2>1
  <2> QED
    BY <1>1, <2>2, <2>3 DEF Tells, Streaming
<1>5. CASE Begins(X)
  BY <1>5 DEF Begins, Tells, Streaming
<1>6. CASE Streams(X)
  <2>1. turn'.on /\ F(ToCome(r) \o X)
    BY <1>1, <1>6, UnfinishedLast DEF Streams
  <2>2. at[r] = "commands" => F(ToCome(r)')
    BY <1>3, <2>1
  <2> QED
    BY <1>1, <2>1, <2>2 DEF Tells
<1>7. CASE Finishes(X)
  <2>1. ~turn'.on /\ ~F(held[r] \o X) /\ ~F(ToCome(r) \o X)
    BY <1>1, <1>7, UnfinishedLast DEF Finishes
  <2>2. /\ at[r] = "provider" => ~F(held'[r])
        /\ at[r] \in {"tail", "commands"} => ~F(ToCome(r)')
    BY <1>2, <1>3, <2>1
  <2> QED
    BY <1>1, <2>1, <2>2 DEF Tells, Streaming
<1> QED
  BY <1>4, <1>5, <1>6, <1>7

LEMMA ReplayedStep ==
    ASSUME TypeOK, Numbered, Joins, HeldIsHistory, GenerationIsTurn, ~PostMayFail, Replayed, [Next]_vars
    PROVE  Replayed'
<1> SUFFICES ASSUME NEW r \in Sockets, sock'[r] = "open" PROVE Tells(r)'
  BY DEF Replayed, Tells
<1>0. /\ at \in [Sockets -> {"none", "history", "provider", "tail", "commands", "done"}]
      /\ sock \in [Sockets -> {"new", "open", "closed"}]
      /\ tab \in [Sockets -> Tabs] /\ held \in [Sockets -> Seq(Frames)]
      /\ sock[r] = "open" => Tells(r)
  BY DEF TypeOK, Replayed, Tells
<1>1. CASE Idles
  <2>1. /\ sock[r] = "open" /\ at'[r] = at[r] /\ held'[r] = held[r] /\ turn' = turn
        /\ wire'[r] = wire[r] /\ tab'[r] = tab[r]
    BY <1>1 DEF Idles, Quiet, views, joins
  <2>2. ToCome(r)' = ToCome(r)
    BY <2>1 DEF ToCome
  <2> QED
    BY <1>0, <2>1, <2>2, TellsSame DEF Streaming
<1>2. ASSUME NEW X, Keeps(X) \/ Begins(X) \/ Streams(X) \/ Finishes(X) PROVE Tells(r)'
  <2>1. Sent(X)
    BY <1>2 DEF Keeps, Begins, Streams, Finishes
  <2>2. sock[r] = "open"
    BY <2>1 DEF Sent
  <2> QED
    BY <1>0, <1>2, <2>1, <2>2, TellsSent
<1>3. ASSUME NEW s \in Sockets, r # s, turn' = turn, sock'[r] = sock[r], at'[r] = at[r], held'[r] = held[r],
             wire'[r] = wire[r], tab'[r] = tab[r]
      PROVE  Tells(r)'
  <2>1. ToCome(r)' = ToCome(r)
    BY <1>3 DEF ToCome
  <2> QED
    BY <1>0, <1>3, <2>1, TellsSame DEF Streaming
<1>4. ASSUME NEW s \in Sockets, Open(s) PROVE Tells(r)'
  <2>1. CASE r = s
    BY <1>0, <1>4, <2>1 DEF Open, Tells
  <2> QED
    BY <1>0, <1>3, <1>4, <2>1 DEF Open, server
<1>5. ASSUME NEW s \in Sockets, Register(s) PROVE Tells(r)'
  <2>1. CASE r = s
    <3>1. at'[r] = "provider" /\ held'[r] = <<>>
      BY <1>0, <1>5, <2>1 DEF Register
    <3>2. ~UnfinishedTo(<<>>, Len(<<>>))
      BY DEF UnfinishedTo
    <3> QED
      BY <3>1, <3>2 DEF Tells
  <2> QED
    BY <1>0, <1>3, <1>5, <2>1 DEF Register, server
<1>6. ASSUME NEW s \in Sockets, Replay(s) PROVE Tells(r)'
  <2>0. /\ history \in Seq(Frames) /\ held[s] \in Seq(Frames) /\ Deliver(s, history \o held[s])
        /\ at[s] = "provider" /\ UNCHANGED <<tab, sock, turn>>
    BY <1>6 DEF Replay, TypeOK, server
  <2>1. CASE r = s
    <3>1. /\ sock[s] = "open" /\ ToCome(s)' = history \o held[s] /\ at'[s] = "tail"
      BY <1>6, <2>0, <2>1, Replaying
    <3>2. \A i \in 1..Len(history) : history[i].kind # "start"
      BY DEF Numbered, RecordKinds
    <3>3. ~turn.on => ~UnfinishedTo(held[s], Len(held[s]))
      BY <1>0, <2>0, <2>1, <3>1 DEF Tells
    <3>4. ~turn.on => ~UnfinishedTo(history \o held[s], Len(history \o held[s]))
      BY <2>0, <3>2, <3>3, UnfinishedHeld
    <3> QED
      BY <2>0, <2>1, <3>1, <3>4 DEF Tells
  <2>2. CASE r # s
    <3>1. history \o held[s] \in Seq(Frames)
      BY <2>0, Joined
    <3>2. wire'[r] = wire[r]
      BY <2>0, <2>2, <3>1, Delivering
    <3> QED
      BY <1>0, <1>3, <1>6, <2>0, <2>2, <3>2 DEF Replay
  <2> QED
    BY <2>1, <2>2
<1>7. ASSUME NEW s \in Sockets, TailStep(s) \/ Commands(s) PROVE Tells(r)'
  <2>0. UNCHANGED <<turn, held, sock, tab>>
    BY <1>7 DEF TailStep, Commands, server
  <2>1. (TailStep(s) /\ Collects(s)) \/ \E X : Ends(s, X)
    BY <1>7, TailStepEnds, CommandsEnds
  <2>2. ASSUME NEW X, Ends(s, X) PROVE Tells(r)'
    <3>1. /\ at'[s] = "done" /\ \A q \in Sockets : q # s => wire'[q] = wire[q] /\ at'[q] = at[q]
      BY <2>2, Ended
    <3>2. CASE r = s
      BY <3>1, <3>2 DEF Tells
    <3>3. CASE r # s
      BY <1>3, <2>0, <3>1, <3>3
    <3> QED
      BY <3>2, <3>3
  <2>3. CASE TailStep(s) /\ Collects(s)
    <3>1. /\ at[s] = "tail" /\ at' = [at EXCEPT ![s] = "commands"] /\ wire' = wire
      BY <2>3 DEF Collects
    <3>2. CASE r = s
      <4>1. ~turn.generating
        BY <1>0, <2>3, <3>1 DEF TailStep
      <4>2. ToCome(r)' = ToCome(r)
        BY <2>0, <3>1 DEF ToCome
      <4>3. at[r] = "tail" /\ at'[r] = "commands" /\ sock[r] = "open"
        BY <1>0, <2>0, <3>1, <3>2
      <4> QED
        BY <1>0, <2>0, <4>1, <4>2, <4>3 DEF Tells, Streaming
    <3>3. CASE r # s
      BY <1>0, <1>3, <2>0, <3>1, <3>3
    <3> QED
      BY <3>2, <3>3
  <2> QED
    BY <2>1, <2>2, <2>3
<1>8. ASSUME NEW s \in Sockets, Close(s) PROVE Tells(r)'
  <2>1. r # s
    BY <1>0, <1>8 DEF Close
  <2> QED
    BY <1>0, <1>3, <1>8, <2>1 DEF Close, server
<1>9. ASSUME NEW s \in Sockets, Receive(s) PROVE Tells(r)'
  <2>0. UNCHANGED <<turn, joins>> /\ wire[s] # <<>>
    BY <1>9 DEF Receive, server
  <2>1. CASE r # s
    BY <1>3, <1>9, <2>0, <2>1, Receiving DEF joins
  <2>2. CASE r = s
    <3>1. at[s] # "provider" /\ sock[s] = "open" /\ at'[s] = at[s] /\ held'[s] = held[s]
      BY <2>0, <2>2 DEF Joins, Joining, joins
    <3>2. CASE at[s] \in {"tail", "commands"}
      <4>1. tab[s].loading /\ \A i \in 1..Len(ToCome(s)) : ToCome(s)[i].kind # "end"
        BY <3>1, <3>2 DEF Joins, Joining
      <4>2. Head(wire[s]).kind # "end"
        <5>1. SUFFICES ASSUME Head(wire[s]).kind = "end" PROVE FALSE
          OBVIOUS
        <5>2. /\ Len(tab[s].buf) < Len(ToCome(s)) /\ ToCome(s)[Len(tab[s].buf) + 1].kind = "end"
          BY <1>9, <4>1, <5>1, Loaded
        <5>3. Len(tab[s].buf) + 1 \in 1..Len(ToCome(s))
          BY <5>2, FramesToCome
        <5> QED
          BY <4>1, <5>2, <5>3
      <4>3. ToCome(s)' = ToCome(s)
        BY <1>9, <4>1, <4>2, Buffering
      <4> QED
        BY <1>0, <2>0, <2>2, <3>1, <4>3, TellsSame DEF Streaming
    <3>3. CASE at[s] \notin {"tail", "commands"}
      BY <2>2, <3>1, <3>3 DEF Tells
    <3> QED
      BY <3>2, <3>3
  <2> QED
    BY <2>1, <2>2
<1>10. ASSUME NEW s \in Sockets, Send(s) \/ Answer(s) \/ Cancel(s) PROVE Tells(r)'
  <2>1. UNCHANGED joins /\ ToCome(r)' = ToCome(r)
    BY <1>10, Writing
  <2>2. sock[r] = "open" /\ at'[r] = at[r] /\ held'[r] = held[r]
    BY <2>1 DEF joins
  <2>3. turn' = turn \/ turn' = [turn EXCEPT !.generating = FALSE]
    BY <1>10 DEF Send, Answer, Cancel, server
  <2>4. (~turn'.on => ~turn.on) /\ (Streaming' => Streaming)
    BY <2>3 DEF TypeOK, Streaming
  <2> QED
    BY <1>0, <2>1, <2>2, <2>4, TellsSame
<1> QED
  BY <1>1, <1>2, <1>4, <1>5, <1>6, <1>7, <1>8, <1>9, <1>10, TurnKinds

LEMMA GenerationStep ==
    ASSUME TypeOK, GenerationIsTurn, [Next]_vars
    PROVE  GenerationIsTurn'
<1>1. \/ turn' = turn \/ turn' = NoTurn
      \/ turn' = [on |-> TRUE, streamed |-> FALSE, generating |-> TRUE]
      \/ turn.on /\ turn' = [turn EXCEPT !.streamed = TRUE]
      \/ turn' = [turn EXCEPT !.generating = FALSE]
  BY DEF Next, vars, server, Arrive, Lost, Begin, Stream, Say, Result, Fail, Ask, TimeOut, Open, Register,
         Replay, TailStep, Commands, Close, Receive, Send, Answer, Cancel, Clear
<1>2. turn \in [on : BOOLEAN, streamed : BOOLEAN, generating : BOOLEAN]
  BY DEF TypeOK
<1> QED
  BY <1>1, <1>2 DEF GenerationIsTurn, NoTurn

-----------------------------------------------------------------------------
(***************************************************************************)
(* After the end of the history was sent.                                  *)
(***************************************************************************)
Spun(r) == \E e : Marked(tab[r], ToCome(r), e) /\ ShowsTurn(r, tab[r], ToCome(r), e)

\* The turn goes on, and the tab's flag moves to where it would have.
LEMMA SpunKept ==
    ASSUME NEW r, NEW e, ShowsTurn(r, tab[r], ToCome(r), e), NEW g, Marked(tab'[r], ToCome(r)', g),
           \A b \in BOOLEAN : Runs(tab[r], ToCome(r), e, b) => Runs(tab'[r], ToCome(r)', g, b),
           turn' = turn, (Waits => Waits') \/ r \notin Writers
    PROVE  Spun(r)'
<1>1. Streaming' => Runs(tab'[r], ToCome(r)', g, TRUE)
  BY DEF ShowsTurn, Streaming
<1>2. ~turn'.on => Runs(tab'[r], ToCome(r)', g, FALSE) \/ (r \in Writers /\ Waits')
  BY DEF ShowsTurn
<1> QED
  BY <1>1, <1>2 DEF Spun, ShowsTurn

LEMMA SpunSame ==
    ASSUME NEW r, Spun(r), tab'[r] = tab[r], ToCome(r)' = ToCome(r),
           turn' = turn, (Waits => Waits') \/ r \notin Writers
    PROVE  Spun(r)'
<1>1. PICK e : Marked(tab[r], ToCome(r), e) /\ ShowsTurn(r, tab[r], ToCome(r), e)
  BY DEF Spun
<1>2. Marked(tab'[r], ToCome(r)', e)
  BY <1>1
<1>3. \A b \in BOOLEAN : Runs(tab[r], ToCome(r), e, b) => Runs(tab'[r], ToCome(r)', e, b)
  OBVIOUS
<1> QED
  BY <1>1, <1>2, <1>3, SpunKept

LEMMA SpunSent ==
    ASSUME TypeOK, Numbered, Joins, InStepWithHistory,
           NEW X, Sent(X), Keeps(X) \/ Begins(X) \/ Streams(X) \/ Finishes(X),
           NEW r \in Sockets, Following(r), Spun(r)
    PROVE  Spun(r)'
<1> DEFINE t == tab[r]
           W == ToCome(r)
           V == ToCome(r)'
<1>1. PICK e : Marked(t, W, e) /\ ShowsTurn(r, t, W, e)
  BY DEF Spun
<1>2. /\ tab'[r] = t /\ V = W \o X /\ W \in Seq(Frames) /\ X \in Seq(Frames)
      /\ Marked(t, V, e) /\ (Flag(t, V, e) <=> Flag(t, W, e))
  BY <1>1, MarkedSent
<1>3. Marked(tab'[r], ToCome(r)', e)
  BY <1>2
<1>4. Len(X) \in Nat /\ e \in 0..Len(W) /\ (X # <<>> => Len(X) \in 1..Len(X))
  BY <1>1, <1>2, LenProperties, EmptySeq DEF Marked
<1>5. ASSUME NEW b \in BOOLEAN, X # <<>>, IF b THEN Starts(X[Len(X)]) ELSE Stops(X[Len(X)])
      PROVE  Runs(tab'[r], V, e, b)
  <2>1. /\ \A i \in 1..Len(X) : ~(Len(X) < i)
        /\ e < Len(W) + Len(X)
    BY <1>2, <1>4, <1>5, LenProperties
  <2> HIDE DEF t, W, V
  <2>2. RunsTo(W \o X, e, Flag(t, V, e), b)
    BY <1>2, <1>4, <1>5, <2>1, RunsLast
  <2> QED
    BY <1>2, <2>2 DEF Runs
<1>6. CASE Keeps(X)
  <2>1. ASSUME NEW b \in BOOLEAN, Runs(t, W, e, b) PROVE Runs(tab'[r], V, e, b)
    <3> HIDE DEF t, W, V
    <3>1. RunsTo(W, e, Flag(t, W, e), b) /\ Calm(X)
      BY <1>6, <2>1 DEF Runs, Keeps
    <3>2. RunsTo(W \o X, e, Flag(t, W, e), b)
      BY <1>2, <3>1, RunsMore
    <3>3. RunsTo(W \o X, e, Flag(t, V, e), b)
      BY <1>2, <3>2 DEF RunsTo
    <3> QED
      BY <1>2, <3>3 DEF Runs
  <2> QED
    BY <1>1, <1>3, <1>6, <2>1, SpunKept DEF Keeps
<1>7. CASE Begins(X)
  <2>1. turn'.on /\ ~Streaming'
    BY <1>7 DEF Begins, Streaming
  <2> QED
    BY <1>3, <2>1 DEF Spun, ShowsTurn
<1>8. CASE Streams(X)
  <2>1. turn'.on /\ Runs(tab'[r], ToCome(r)', e, TRUE)
    BY <1>5, <1>8 DEF Streams, Starts
  <2> QED
    BY <1>3, <2>1 DEF Spun, ShowsTurn
<1>9. CASE Finishes(X)
  <2>1. ~Streaming' /\ Runs(tab'[r], ToCome(r)', e, FALSE)
    BY <1>5, <1>9 DEF Finishes, Stops, Streaming
  <2> QED
    BY <1>3, <2>1 DEF Spun, ShowsTurn
<1> QED
  BY <1>6, <1>7, <1>8, <1>9

\* What is left to prove of the frames that end the history.
LEMMA EndFrames ==
    ASSUME TypeOK, NEW F \in PromptFrames(pending)
    PROVE  /\ \A i \in 2..Len(<<End>> \o F) : (<<End>> \o F)[i].kind = "prompt"
           /\ LET X == <<End, SyntheticInit>> \o F IN
              /\ 2 \in 1..Len(X) /\ Starts(X[2])
              /\ \A i \in 1..Len(X) : 2 < i => ~Starts(X[i]) /\ ~Stops(X[i])
<1>1. F \in Seq(Frames) /\ \A i \in 1..Len(F) : F[i].kind = "prompt"
  <2>1. F \in Seq(Frames) /\ \A i \in 1..Len(F) : \E p \in pending : F[i] = Prompt(p)
    BY PromptsSent DEF TypeOK
  <2> QED
    BY <2>1, FramesSent
<1>2. End \in Frames /\ SyntheticInit \in Frames
  BY FramesSent
<1> HIDE DEF Frames
<1>3. <<End>> \in Seq(Frames) /\ Len(<<End>>) = 1
  BY <1>2
<1>4. <<End, SyntheticInit>> \in Seq(Frames) /\ Len(<<End, SyntheticInit>>) = 2 /\ <<End, SyntheticInit>>[2] = SyntheticInit
  BY <1>2
<1>5. ASSUME NEW H \in Seq(Frames)
      PROVE  /\ Len(H \o F) = Len(H) + Len(F) /\ Len(H) \in Nat /\ Len(F) \in Nat
             /\ \A i \in 1..Len(H) : (H \o F)[i] = H[i]
             /\ \A i \in 1..Len(H \o F) : Len(H) < i => (H \o F)[i].kind = "prompt"
  <2>1. /\ Len(H \o F) = Len(H) + Len(F) /\ Len(H) \in Nat /\ Len(F) \in Nat
        /\ (\A i \in 1..Len(H) : (H \o F)[i] = H[i])
        /\ \A i \in 1..Len(F) : (H \o F)[Len(H) + i] = F[i]
    BY <1>1, Joined
  <2>2. ASSUME NEW i \in 1..Len(H \o F), Len(H) < i PROVE (H \o F)[i].kind = "prompt"
    <3>1. i - Len(H) \in 1..Len(F) /\ Len(H) + (i - Len(H)) = i
      BY <2>1, <2>2
    <3>2. (H \o F)[i] = F[i - Len(H)]
      BY <2>1, <3>1
    <3> QED
      BY <1>1, <3>1, <3>2
  <2> QED
    BY <2>1, <2>2
<1>6. \A i \in 2..Len(<<End>> \o F) : (<<End>> \o F)[i].kind = "prompt"
  <2>1. \A i \in 2..Len(<<End>> \o F) : i \in 1..Len(<<End>> \o F) /\ Len(<<End>>) < i
    BY <1>3
  <2> QED
    BY <1>3, <1>5, <2>1
<1> DEFINE G == <<End, SyntheticInit>>
           X == G \o F
<1>7. /\ Len(X) = 2 + Len(F) /\ Len(F) \in Nat /\ X[2] = SyntheticInit
      /\ \A i \in 1..Len(X) : 2 < i => X[i].kind = "prompt"
  <2>1. G \in Seq(Frames) /\ Len(G) = 2 /\ G[2] = SyntheticInit
    BY <1>4
  <2> HIDE DEF G
  <2>2. /\ Len(X) = 2 + Len(F) /\ Len(F) \in Nat
        /\ \A i \in 1..2 : X[i] = G[i]
        /\ \A i \in 1..Len(X) : 2 < i => X[i].kind = "prompt"
    BY <1>5, <2>1
  <2> QED
    BY <2>1, <2>2
<1> HIDE DEF X
<1>8. 2 \in 1..Len(X) /\ Starts(X[2]) /\ \A i \in 1..Len(X) : 2 < i => ~Starts(X[i]) /\ ~Stops(X[i])
  BY <1>7, FramesSent DEF Starts, Stops
<1> QED
  BY <1>6, <1>8 DEF X

LEMMA SpunEnded ==
    ASSUME TypeOK, Joins, GenerationIsTurn, Replayed, NEW s \in Sockets, sock[s] = "open",
           TailStep(s) \/ Commands(s), at'[s] = "done"
    PROVE  Spun(s)'
<1> DEFINE t == tab[s]
           W == ToCome(s)
           e == Len(W) + 1
<1>0. /\ turn' = turn /\ sock' = sock /\ tab' = tab /\ at \in [Sockets -> {"none", "history", "provider", "tail", "commands", "done"}]
      /\ at[s] \in {"tail", "commands"}
  BY DEF TailStep, Commands, server, TypeOK
<1>1. /\ t \in Tabs /\ t.loading /\ t.buf \in Seq(Frames) /\ W \in Seq(Frames) /\ Len(W) \in Nat
      /\ \A i \in 1..Len(W) : W[i].kind # "end"
  BY <1>0, FramesToCome DEF Joins, Joining
<1>2. Len(t.buf) <= Len(W)
  <2>1. W = t.buf \o wire[s] /\ wire[s] \in Seq(Frames)
    BY <1>1, FramesToCome DEF ToCome, Waiting
  <2>2. \A b \in Seq(Frames), w \in Seq(Frames) : Len(b \o w) = Len(b) + Len(w) /\ Len(b) \in Nat /\ Len(w) \in Nat
    BY Joined
  <2> HIDE DEF W
  <2>3. Len(W) = Len(t.buf) + Len(wire[s]) /\ Len(t.buf) \in Nat /\ Len(wire[s]) \in Nat
    BY <1>1, <2>1, <2>2
  <2>4. \A a, b \in Nat : a <= a + b
    OBVIOUS
  <2>5. Len(t.buf) <= Len(t.buf) + Len(wire[s])
    BY <2>3, <2>4
  <2> QED
    BY <2>3, <2>5 DEF W
<1>3. ASSUME NEW F \in PromptFrames(pending), NEW H, H \in {<<End>>, <<End, SyntheticInit>>}, Deliver(s, H \o F)
      PROVE  /\ ToCome(s)' = W \o (H \o F) /\ H \o F \in Seq(Frames)
             /\ Marked(t, W \o (H \o F), e)
             /\ Flag(t, W \o (H \o F), e) <=> UnfinishedTo(W, Len(W))
             /\ (\A i \in 2..Len(H \o F) : (H \o F)[i].kind = "prompt") =>
                   \A b \in BOOLEAN : (UnfinishedTo(W, Len(W)) <=> b) => Runs(t, W \o (H \o F), e, b)
  <2> DEFINE X == H \o F
  <2>1. /\ X \in Seq(Frames) /\ X # <<>> /\ X[1] = End
        /\ \A i \in 2..Len(X) : X[i].kind \in {"synthetic", "prompt"}
    BY <1>3, Ending
  <2>2. Deliver(s, X)
    BY <1>3
  <2> HIDE DEF X
  <2>3. wire'[s] = wire[s] \o X
    BY <2>1, <2>2, Delivering
  <2>4. Waiting(tab[s], wire[s] \o X) = Waiting(tab[s], wire[s]) \o X
    BY <2>1, FramesToCome, WaitingMore
  <2>5. ToCome(s)' = W \o X
    BY <1>0, <2>3, <2>4 DEF ToCome
  <2> HIDE DEF t, W
  <2>6. /\ Marked(t, W \o X, Len(W) + 1)
        /\ Flag(t, W \o X, Len(W) + 1) <=> UnfinishedTo(W, Len(W))
        /\ (\A i \in 2..Len(X) : X[i].kind = "prompt") =>
              \A b \in BOOLEAN : (UnfinishedTo(W, Len(W)) <=> b) => Runs(t, W \o X, Len(W) + 1, b)
    BY <1>1, <1>2, <2>1, MarkedEnded
  <2> QED
    BY <2>1, <2>5, <2>6 DEF X
<1>4. CASE TailStep(s)
  <2>1. turn.generating /\ turn.on
    BY <1>0, <1>4 DEF TailStep, GenerationIsTurn
  <2>2. PICK F \in PromptFrames(pending) : Deliver(s, <<End, SyntheticInit>> \o F)
    BY <1>4, <2>1 DEF TailStep
  <2> DEFINE X == <<End, SyntheticInit>> \o F
  <2>3. ToCome(s)' = W \o X /\ X \in Seq(Frames) /\ Marked(t, W \o X, e)
    BY <1>3, <2>2
  <2>4. 2 \in 1..Len(X) /\ Starts(X[2]) /\ \A i \in 1..Len(X) : 2 < i => ~Starts(X[i]) /\ ~Stops(X[i])
    BY EndFrames
  <2>5. e < Len(W) + 2
    BY <1>1
  <2> HIDE DEF X, t, W, e
  <2>6. RunsTo(W \o X, e, Flag(t, W \o X, e), TRUE)
    BY <1>1, <2>3, <2>4, <2>5, RunsLast
  <2>7. Runs(tab'[s], ToCome(s)', e, TRUE)
    BY <1>0, <2>3, <2>6 DEF Runs, t
  <2>8. Marked(tab'[s], ToCome(s)', e)
    BY <1>0, <2>3 DEF t
  <2> QED
    BY <1>0, <2>1, <2>7, <2>8 DEF Spun, ShowsTurn
<1>5. CASE Commands(s)
  <2>1. PICK F \in PromptFrames(pending) : Deliver(s, <<End>> \o F)
    BY <1>5 DEF Commands
  <2> DEFINE X == <<End>> \o F
  <2>2. /\ ToCome(s)' = W \o X /\ X \in Seq(Frames) /\ Marked(t, W \o X, e)
        /\ (\A i \in 2..Len(X) : X[i].kind = "prompt") =>
              \A b \in BOOLEAN : (UnfinishedTo(W, Len(W)) <=> b) => Runs(t, W \o X, e, b)
    BY <1>3, <2>1
  <2>3. \A i \in 2..Len(X) : X[i].kind = "prompt"
    BY EndFrames
  <2>4. /\ Streaming => UnfinishedTo(W, Len(W))
        /\ ~turn.on => ~UnfinishedTo(W, Len(W))
    BY <1>5 DEF Replayed, Commands
  <2> HIDE DEF X, t, W, e
  <2>5. Marked(tab'[s], ToCome(s)', e)
    BY <1>0, <2>2 DEF t
  <2>6. \A b \in BOOLEAN : (UnfinishedTo(W, Len(W)) <=> b) => Runs(tab'[s], ToCome(s)', e, b)
    BY <1>0, <2>2, <2>3 DEF t
  <2>7. Streaming' => Runs(tab'[s], ToCome(s)', e, TRUE)
    BY <1>0, <2>4, <2>6 DEF Streaming
  <2>8. ~turn'.on => Runs(tab'[s], ToCome(s)', e, FALSE)
    BY <1>0, <2>4, <2>6
  <2> QED
    BY <2>5, <2>7, <2>8 DEF Spun, ShowsTurn
<1> QED
  BY <1>4, <1>5

LEMMA SpinningStep ==
    ASSUME TypeOK, Numbered, Joins, HeldIsHistory, InStepWithHistory, GenerationIsTurn, Replayed,
           ~PostMayFail, Spinning, [Next]_vars
    PROVE  Spinning'
<1> SUFFICES ASSUME NEW r \in Sockets, sock'[r] = "open", at'[r] = "done" PROVE Spun(r)'
  BY DEF Spinning, Spun, Marked
<1>0. /\ at \in [Sockets -> {"none", "history", "provider", "tail", "commands", "done"}]
      /\ sock \in [Sockets -> {"new", "open", "closed"}]
      /\ tab \in [Sockets -> Tabs]
      /\ sock[r] = "open" /\ at[r] = "done" => Spun(r) /\ Following(r)
  BY DEF TypeOK, Spinning, Spun, Following
<1>1. CASE Idles
  <2>1. /\ sock[r] = "open" /\ at[r] = "done" /\ turn' = turn
        /\ wire'[r] = wire[r] /\ tab'[r] = tab[r]
    BY <1>1 DEF Idles, Quiet, views, joins
  <2>2. ToCome(r)' = ToCome(r)
    BY <2>1 DEF ToCome
  <2>3. (Waits => Waits') \/ r \notin Writers
    BY <1>1, <2>1 DEF Idles
  <2> QED
    BY <1>0, <2>1, <2>2, <2>3, SpunSame
<1>2. ASSUME NEW X, Keeps(X) \/ Begins(X) \/ Streams(X) \/ Finishes(X) PROVE Spun(r)'
  <2>1. Sent(X)
    BY <1>2 DEF Keeps, Begins, Streams, Finishes
  <2>2. sock[r] = "open" /\ at[r] = "done"
    BY <2>1 DEF Sent
  <2> QED
    BY <1>0, <1>2, <2>1, <2>2, SpunSent
<1>3. ASSUME turn' = turn, inputs' = inputs, queued' = queued, posts' = posts, sock'[r] = sock[r], at'[r] = at[r],
             wire'[r] = wire[r], tab'[r] = tab[r]
      PROVE  Spun(r)'
  <2>1. ToCome(r)' = ToCome(r)
    BY <1>3 DEF ToCome
  <2>2. Waits => Waits'
    BY <1>3 DEF Waits
  <2> QED
    BY <1>0, <1>3, <2>1, <2>2, SpunSame
<1>4. ASSUME NEW s \in Sockets, Open(s) \/ Register(s) PROVE Spun(r)'
  <2>1. r # s
    BY <1>0, <1>4 DEF Open, Register
  <2> QED
    BY <1>0, <1>3, <1>4, <2>1 DEF Open, Register, server
<1>5. ASSUME NEW s \in Sockets, Replay(s) PROVE Spun(r)'
  <2>1. r # s
    BY <1>0, <1>5 DEF Replay
  <2>2. history \o held[s] \in Seq(Frames) /\ Deliver(s, history \o held[s])
    BY <1>5, Joined DEF Replay, TypeOK
  <2>3. wire'[r] = wire[r]
    BY <2>1, <2>2, Delivering
  <2> QED
    BY <1>0, <1>3, <1>5, <2>1, <2>3 DEF Replay, server
<1>6. ASSUME NEW s \in Sockets, TailStep(s) \/ Commands(s) PROVE Spun(r)'
  <2>0. UNCHANGED <<turn, inputs, queued, posts, sock, tab>>
    BY <1>6 DEF TailStep, Commands, server
  <2>1. CASE r = s
    BY <1>6, <2>0, <2>1, SpunEnded
  <2>2. CASE r # s
    <3>1. Collects(s) \/ \E X : Ends(s, X)
      BY <1>6, TailStepEnds, CommandsEnds
    <3>2. wire'[r] = wire[r] /\ at'[r] = at[r]
      BY <1>0, <2>2, <3>1, Ended DEF Collects
    <3> QED
      BY <1>3, <2>0, <3>2
  <2> QED
    BY <2>1, <2>2
<1>7. ASSUME NEW s \in Sockets, Close(s) PROVE Spun(r)'
  <2>1. r # s
    BY <1>0, <1>7 DEF Close
  <2> QED
    BY <1>0, <1>3, <1>7, <2>1 DEF Close, server
<1>8. ASSUME NEW s \in Sockets, Receive(s) PROVE Spun(r)'
  <2>0. UNCHANGED <<turn, inputs, queued, posts, at, sock>>
    BY <1>8 DEF Receive, server, joins
  <2>1. CASE r # s
    BY <1>3, <1>8, <2>0, <2>1, Receiving
  <2>2. CASE r = s
    <3>1. PICK e : Marked(tab[r], ToCome(r), e) /\ ShowsTurn(r, tab[r], ToCome(r), e)
      BY <1>0, <2>0 DEF Spun
    <3>2. PICK g : /\ Marked(tab'[r], ToCome(r)', g)
                   /\ \A b \in BOOLEAN : Runs(tab[r], ToCome(r), e, b) => Runs(tab'[r], ToCome(r)', g, b)
      BY <1>8, <2>2, <3>1, MarkedReceived
    <3>3. Waits => Waits'
      BY <2>0 DEF Waits
    <3> QED
      BY <2>0, <3>1, <3>2, <3>3, SpunKept
  <2> QED
    BY <2>1, <2>2
<1>9. ASSUME NEW s \in Sockets, Send(s) \/ Answer(s) \/ Cancel(s) PROVE Spun(r)'
  <2>1. /\ UNCHANGED joins /\ ToCome(r)' = ToCome(r)
        /\ r # s => tab'[r] = tab[r]
        /\ tab'[r].loading = tab[r].loading /\ tab'[r].buf = tab[r].buf /\ tab'[r].seen = tab[r].seen
        /\ Send(s) => tab'[s].running = TRUE
        /\ Answer(s) => tab'[s].running = tab[s].running
    BY <1>9, Writing
  <2>2. sock[r] = "open" /\ at[r] = "done"
    BY <2>1 DEF joins
  <2>3. PICK e : Marked(tab[r], ToCome(r), e) /\ ShowsTurn(r, tab[r], ToCome(r), e)
    BY <1>0, <2>2 DEF Spun
  <2>4. Marked(tab'[r], ToCome(r)', e)
    BY <2>1, <2>3 DEF Marked, Counts, NoRepeat
  <2>5. CASE Send(s)
    <3>1. /\ turn' = turn /\ s \in Writers /\ ~tab[s].loading
          /\ UNCHANGED <<inputs, queued>> /\ posts' = posts + 1
      BY <2>5 DEF Send, server
    <3>2. Waits'
      BY <3>1 DEF Waits, TypeOK
    <3>3. CASE r # s
      <4>1. tab'[r] = tab[r]
        BY <2>1, <3>3
      <4> QED
        BY <1>0, <2>1, <2>2, <3>1, <3>2, <4>1, SpunSame
    <3>4. CASE r = s
      <4>1. e = 0
        BY <2>3, <3>1, <3>4 DEF Marked, Counts
      <4>2. Flag(tab[r], ToCome(r), e) = tab[r].running /\ Flag(tab'[r], ToCome(r)', e) = TRUE
        BY <2>1, <2>5, <3>1, <3>4 DEF Flag
      <4>3. Runs(tab[r], ToCome(r), e, TRUE) => Runs(tab'[r], ToCome(r)', e, TRUE)
        BY <2>1, <4>2 DEF Runs, RunsTo
      <4>4. Streaming' => Runs(tab'[r], ToCome(r)', e, TRUE)
        BY <2>3, <3>1, <4>3 DEF ShowsTurn, Streaming
      <4> QED
        BY <2>4, <3>1, <3>2, <3>4, <4>4 DEF Spun, ShowsTurn
    <3> QED
      BY <3>3, <3>4
  <2>6. CASE Answer(s)
    <3>1. UNCHANGED <<turn, inputs, queued, posts>>
      BY <2>6 DEF Answer
    <3>2. tab'[r].running = tab[r].running
      BY <2>1, <2>6
    <3>3. Flag(tab'[r], ToCome(r)', e) <=> Flag(tab[r], ToCome(r), e)
      BY <2>1, <3>2 DEF Flag
    <3>4. \A b \in BOOLEAN : Runs(tab[r], ToCome(r), e, b) => Runs(tab'[r], ToCome(r)', e, b)
      BY <2>1, <3>3 DEF Runs, RunsTo
    <3>5. Waits => Waits'
      BY <3>1 DEF Waits
    <3> QED
      BY <2>3, <2>4, <3>1, <3>4, <3>5, SpunKept
  <2>7. CASE Cancel(s)
    <3>1. turn'.on /\ ~Streaming'
      BY <2>7 DEF Cancel, TypeOK, Streaming
    <3> QED
      BY <2>4, <3>1 DEF Spun, ShowsTurn
  <2> QED
    BY <1>9, <2>5, <2>6, <2>7
<1> QED
  BY <1>1, <1>2, <1>4, <1>5, <1>6, <1>7, <1>8, <1>9, TurnKinds

(* When no POST is lost, a tab that has caught up shows a running turn     *)
(* while the SDK streams one, and shows none once nothing runs or waits:   *)
(* for any number of tabs, whenever they attached, and whoever cancels.    *)
THEOREM SpinnerIsAlwaysTrue == ~PostMayFail => (Spec => []SpinnerIsTrue)
<1> SUFFICES ASSUME ~PostMayFail PROVE Spec => []SpinnerIsTrue
  OBVIOUS
<1> DEFINE SInv == Inv /\ GenerationIsTurn /\ Replayed /\ Spinning
<1>1. Init => SInv
  <2>1. Init => GenerationIsTurn /\ Replayed /\ Spinning
    BY DEF Init, GenerationIsTurn, NoTurn, Replayed, Spinning
  <2> QED
    BY <2>1, InvInit
<1>2. SInv /\ [Next]_vars => SInv'
  <2>1. Inv /\ [Next]_vars => Inv'
    BY InvStep
  <2>2. SInv /\ [Next]_vars => GenerationIsTurn'
    BY GenerationStep DEF Inv
  <2>3. SInv /\ [Next]_vars => Replayed'
    BY ReplayedStep DEF Inv
  <2>4. SInv /\ [Next]_vars => Spinning'
    BY SpinningStep DEF Inv
  <2> QED
    BY <2>1, <2>2, <2>3, <2>4
<1>3. SInv => SpinnerIsTrue
  <2> SUFFICES ASSUME SInv, NEW s \in Sockets, Settled(s)
               PROVE  /\ turn.on /\ turn.generating /\ turn.streamed => tab[s].running
                      /\ ~turn.on /\ inputs + queued + posts = 0 => ~tab[s].running
    BY DEF SpinnerIsTrue
  <2>1. PICK e : Marked(tab[s], ToCome(s), e) /\ ShowsTurn(s, tab[s], ToCome(s), e)
    BY DEF Spinning, Settled
  <2>2. ToCome(s) = <<>> /\ Len(ToCome(s)) = 0 /\ ~tab[s].loading
    BY DEF ToCome, Waiting, Settled
  <2>3. \A b \in BOOLEAN : Runs(tab[s], ToCome(s), e, b) => (tab[s].running <=> b)
    BY <2>2 DEF Runs, RunsTo, Flag
  <2>4. turn.on /\ turn.generating /\ turn.streamed => tab[s].running
    BY <2>1, <2>3 DEF ShowsTurn, Streaming
  <2>5. inputs + queued + posts = 0 => ~Waits
    BY DEF Waits
  <2>6. ~turn.on /\ inputs + queued + posts = 0 => ~tab[s].running
    BY <2>1, <2>3, <2>5 DEF ShowsTurn
  <2> QED
    BY <2>4, <2>6
<1> HIDE DEF SInv
<1> QED
  BY <1>1, <1>2, <1>3, PTL DEF Spec
=============================================================================
