--------------------------- MODULE GitSync_proofs ---------------------------
(***************************************************************************)
(* Theorems about GitSync, for any checkouts, edits, places and requests,  *)
(* with failing commands, unanswered pushes and crashes of the server.     *)
(***************************************************************************)
EXTENDS GitSync, SequenceTheorems, WellFoundedInduction, TLAPS

Commits == SUBSET (Edits \union {Markers})
Branches == [base : Nat, local : Seq(Commits)]
Steps == {"idle", "commit", "fetch", "rebase", "stopped", "push", "merge", "unwedge", "reset", "inspect",
          "sync", "syncPush", "remove", "done"}
Results == {"none", "ok", "error", "conflict", "needsPull", "diverged"}
CallType == [at : Checkouts \union {None}, op : NotesOps \union PersonalOps \union {"none"},
             pc : Steps, res : Results]

TypeOK ==
    /\ kind \in {"notes", "personal"}
    /\ origin \in Seq(Commits)
    /\ base \in [Checkouts -> Nat]
    /\ local \in [Checkouts -> Seq(Commits)]
    /\ dirty \in [Checkouts -> Commits]
    /\ fetched \in [Checkouts -> Nat]
    /\ stopped \in [Checkouts -> Branches \union {None}]
    /\ staging \in [Checkouts -> SUBSET Edits]
    /\ gone \in [Checkouts -> BOOLEAN]
    /\ call \in [Calls -> CallType]
    /\ made \in [Checkouts -> SUBSET Edits]
    /\ dropped \in [Checkouts -> Commits]
    /\ owed \in [Calls -> Commits]
    /\ \A k \in Calls : call[k].pc # "idle" => call[k].at \in Checkouts

\* Branches are based on commits the remote has.
BasedAt(c) ==
    /\ base[c] <= Len(origin) /\ fetched[c] <= Len(origin)
    /\ stopped[c] # None => stopped[c].base <= Len(origin)

\* Conflict markers are in a working tree whose rebase stopped, and nowhere else.
UnmarkedAt(c) ==
    /\ Markers \notin Content(local[c])
    /\ IF stopped[c] = None THEN Markers \notin dirty[c] ELSE Markers \notin Content(stopped[c].local)

\* While a rebase is stopped, the branch it came from holds what was replayed, and
\* what was not committed is in files that neither side has: the abort keeps it.
RestorableAt(c) ==
    stopped[c] # None =>
        /\ Content(local[c]) \subseteq Content(stopped[c].local)
        /\ PlacesOf(dirty[c]) \intersect (Tracked(base[c], local[c])
                \union Tracked(stopped[c].base, stopped[c].local)) = {}

\* personal/ is only removed, unless that is forced, when it has nothing of its own.
Bare(c) == dirty[c] = {} /\ Content(local[c]) = {} /\ stopped[c] = None
Erasable ==
    \A k \in Calls :
        /\ Busy(k, "inspect") => call[k].op \in {"erase", "forceErase"}
        /\ Busy(k, "syncPush") => dirty[call[k].at] \subseteq {Markers}
        /\ Busy(k, "remove") /\ call[k].op # "forceErase" => Bare(call[k].at)

\* What a save committed is in the checkout until it lands.
Held(c) == Content(local[c]) \union (IF stopped[c] = None THEN {} ELSE Content(stopped[c].local))
Underway == {"fetch", "rebase", "stopped", "push"}
Delivering ==
    \A k \in Calls :
        /\ call[k].res = "ok" => Busy(k, "done")
        /\ call[k].op = "save" => call[k].pc \in Underway \union {"commit", "done"}
        /\ call[k].op = "save" /\ call[k].pc \in Underway =>
               owed[k] \subseteq OnOrigin \union dropped[call[k].at] \union Held(call[k].at)

TreeAt(c) == BasedAt(c) /\ UnmarkedAt(c) /\ RestorableAt(c)
TreeInv == NothingLost /\ NothingConflictedPublished /\ \A c \in Checkouts : TreeAt(c)

-----------------------------------------------------------------------------
(***************************************************************************)
(* Commits and their contents.                                             *)
(***************************************************************************)
LEMMA ContentIs ==
    ASSUME NEW s \in Seq(Commits)
    PROVE  /\ \A e : e \in Content(s) <=> \E i \in 1..Len(s) : e \in s[i]
           /\ Content(s) \in Commits
<1>1. Range(s) = {s[i] : i \in 1..Len(s)}
  BY RangeEquality
<1>2. Range(s) \in SUBSET Commits
  BY RangeOfSeq
<1> QED
  BY <1>1, <1>2 DEF Content, Commits

LEMMA ContentEmpty == <<>> \in Seq(Commits) /\ Content(<<>>) = {}
<1>1. <<>> \in Seq(Commits) /\ Len(<<>>) = 0
  BY EmptySeq
<1>2. ASSUME NEW e PROVE e \notin Content(<<>>)
  <2>1. \A i \in 1..Len(<<>>) : e \notin <<>>[i]
    BY <1>1
  <2> QED
    BY <1>1, <2>1, ContentIs
<1> QED
  BY <1>1, <1>2

LEMMA ContentConcat ==
    ASSUME NEW s \in Seq(Commits), NEW t \in Seq(Commits)
    PROVE  /\ s \o t \in Seq(Commits) /\ Len(s \o t) = Len(s) + Len(t)
           /\ Content(s \o t) = Content(s) \union Content(t)
<1>1. Range(s \o t) = Range(s) \union Range(t)
  BY RangeConcatenation
<1> QED
  BY <1>1, ConcatProperties DEF Content

LEMMA ContentAppend ==
    ASSUME NEW s \in Seq(Commits), NEW e \in Commits
    PROVE  /\ Append(s, e) \in Seq(Commits)
           /\ Append(s, e) = s \o <<e>> /\ <<e>> \in Seq(Commits)
           /\ Content(<<e>>) = e /\ Content(Append(s, e)) = Content(s) \union e
<1>1. <<e>> \in Seq(Commits) /\ Len(<<e>>) = 1 /\ <<e>>[1] = e
  OBVIOUS
<1>2. Content(<<e>>) = e
  <2>1. Range(<<e>>) = {<<e>>[i] : i \in 1..Len(<<e>>)}
    BY <1>1, RangeEquality
  <2>2. Range(<<e>>) = {e}
    BY <1>1, <2>1
  <2> QED
    BY <2>2 DEF Content
<1>3. Append(s, e) = s \o <<e>>
  BY AppendIsConcat
<1> QED
  BY <1>1, <1>2, <1>3, ContentConcat

LEMMA ContentPart ==
    ASSUME NEW s \in Seq(Commits), NEW m \in Nat \ {0}, NEW n \in 0..Len(s)
    PROVE  /\ SubSeq(s, m, n) \in Seq(Commits)
           /\ \A e : e \in Content(SubSeq(s, m, n)) <=> \E i \in m..n : e \in s[i]
<1>1. \A i \in m..n : s[i] \in Commits
  BY ElementOfSeq, LenProperties
<1>2. /\ SubSeq(s, m, n) \in Seq(Commits)
      /\ Len(SubSeq(s, m, n)) = IF m <= n THEN n - m + 1 ELSE 0
      /\ \A i \in 1..(n - m + 1) : SubSeq(s, m, n)[i] = s[m + i - 1]
  BY <1>1, SubSeqProperties, LenProperties
<1>3. ASSUME NEW e, e \in Content(SubSeq(s, m, n)) PROVE \E i \in m..n : e \in s[i]
  <2>1. PICK i \in 1..Len(SubSeq(s, m, n)) : e \in SubSeq(s, m, n)[i]
    BY <1>2, <1>3, ContentIs
  <2>2. m + i - 1 \in m..n /\ SubSeq(s, m, n)[i] = s[m + i - 1]
    BY <1>2, <2>1, LenProperties
  <2> QED
    BY <2>1, <2>2
<1>4. ASSUME NEW e, NEW i \in m..n, e \in s[i] PROVE e \in Content(SubSeq(s, m, n))
  <2>1. i - m + 1 \in 1..Len(SubSeq(s, m, n)) /\ SubSeq(s, m, n)[i - m + 1] = s[i]
    BY <1>2, LenProperties
  <2> QED
    BY <1>2, <1>4, <2>1, ContentIs
<1> QED
  BY <1>2, <1>3, <1>4

LEMMA ContentFirst ==
    ASSUME NEW s \in Seq(Commits), NEW n \in 0..Len(s)
    PROVE  SubSeq(s, 1, n) \in Seq(Commits) /\ Content(SubSeq(s, 1, n)) \subseteq Content(s)
<1>1. 1..n \subseteq 1..Len(s)
  BY LenProperties
<1> QED
  BY <1>1, ContentPart, ContentIs

LEMMA PlacesGrow ==
    ASSUME NEW S, NEW T, S \subseteq T
    PROVE  PlacesOf(S) \subseteq PlacesOf(T)
  BY DEF PlacesOf

\* The remote branch only grows, and what it had stays where it was.
LEMMA OriginGrows ==
    ASSUME origin \in Seq(Commits), NEW x \in Seq(Commits), origin' = origin \o x
    PROVE  /\ origin' \in Seq(Commits) /\ Len(origin') = Len(origin) + Len(x)
           /\ Len(origin) <= Len(origin')
           /\ OnOrigin' = OnOrigin \union Content(x)
           /\ \A n \in 0..Len(origin) : Prefix(n)' = Prefix(n)
<1>1. ASSUME NEW n \in 0..Len(origin) PROVE SubSeq(origin \o x, 1, n) = SubSeq(origin, 1, n)
  <2>1. CASE n = 0
    BY <2>1, SubSeqEmpty
  <2>2. CASE n # 0
    <3>1. 1 \in 1..Len(origin) /\ n \in 1..Len(origin)
      BY <2>2, LenProperties
    <3> QED
      BY <3>1, SubSeqOfConcat1
  <2> QED
    BY <2>1, <2>2
<1>2. Len(x) \in Nat /\ Len(origin) \in Nat
  BY LenProperties
<1> QED
  BY <1>1, <1>2, ContentConcat DEF OnOrigin, Prefix

\* What a later prefix of the remote has beyond an earlier one came from upstream.
LEMMA UpstreamCovers ==
    ASSUME origin \in Seq(Commits), NEW b \in 0..Len(origin), NEW n \in 0..Len(origin)
    PROVE  Content(Prefix(n)) \subseteq Content(Prefix(b)) \union Upstream(b, n)
<1> SUFFICES ASSUME NEW e \in Content(Prefix(n)) PROVE e \in Content(Prefix(b)) \union Upstream(b, n)
  OBVIOUS
<1>1. Len(origin) \in Nat
  BY LenProperties
<1>2. PICK i \in 1..n : e \in origin[i]
  BY ContentPart DEF Prefix
<1>3. CASE i <= b
  BY <1>1, <1>2, <1>3, ContentPart DEF Prefix
<1>4. CASE i > b
  <2>1. i \in (b + 1)..n /\ b + 1 \in Nat \ {0}
    BY <1>1, <1>4
  <2> QED
    BY <1>2, <2>1, ContentPart DEF Upstream
<1> QED
  BY <1>1, <1>3, <1>4

\* Every set of numbers has a least one, so the first conflict exists.
LEMMA LeastNumber ==
    ASSUME NEW T, T \subseteq Nat, T # {}
    PROVE  \E n \in T : \A m \in T : n <= m
<1> DEFINE R == OpToRel(<, Nat)
<1>1. IsWellFoundedOn(R, Nat)
  BY NatLessThanWellFounded
<1>2. ASSUME NEW m \in Nat, NEW n \in Nat, m < n PROVE <<m, n>> \in R
  BY <1>2 DEF OpToRel
<1> HIDE DEF R
<1>3. PICK x \in T : \A y \in T : <<y, x>> \notin R
  BY <1>1, WFMin
<1>4. ASSUME NEW y \in T PROVE x <= y
  <2>1. x \in Nat /\ y \in Nat /\ ~ (y < x)
    BY <1>2, <1>3
  <2> QED
    BY <2>1
<1> QED
  BY <1>4

LEMMA FirstConflictIn ==
    ASSUME NEW l \in Seq(Commits), NEW u, Conflicts(l, u) # {}
    PROVE  FirstConflict(l, u) \in 1..Len(l)
<1>1. Conflicts(l, u) \subseteq 1..Len(l) /\ Conflicts(l, u) \subseteq Nat
  BY LenProperties DEF Conflicts
<1>2. \E i \in Conflicts(l, u) : \A j \in Conflicts(l, u) : i <= j
  BY <1>1, LeastNumber
<1>3. FirstConflict(l, u) \in Conflicts(l, u)
  BY <1>2 DEF FirstConflict
<1> QED
  BY <1>1, <1>3

-----------------------------------------------------------------------------
(***************************************************************************)
(* What a step does to the requests.                                       *)
(***************************************************************************)
\* Request k goes on to step p with the answer r; the others stay.
Moves(k, p, r) ==
    /\ call' \in [Calls -> CallType]
    /\ \A j \in Calls : j # k => call'[j] = call[j]
    /\ call'[k].at = call[k].at /\ call'[k].op = call[k].op
    /\ call'[k].pc = p /\ call'[k].res = r

LEMMA IsStep ==
    /\ "idle" \in Steps /\ "commit" \in Steps /\ "fetch" \in Steps /\ "rebase" \in Steps
    /\ "stopped" \in Steps /\ "push" \in Steps /\ "merge" \in Steps /\ "unwedge" \in Steps
    /\ "reset" \in Steps /\ "inspect" \in Steps /\ "sync" \in Steps /\ "syncPush" \in Steps
    /\ "remove" \in Steps /\ "done" \in Steps
    /\ "none" \in Results /\ "ok" \in Results /\ "error" \in Results /\ "conflict" \in Results
    /\ "needsPull" \in Results /\ "diverged" \in Results
  BY DEF Steps, Results

LEMMA RowMoves ==
    ASSUME call \in [Calls -> CallType], NEW k \in Calls, NEW p \in Steps, NEW r \in Results,
           call' = [call EXCEPT ![k].pc = p, ![k].res = r]
    PROVE  Moves(k, p, r)
  BY DEF Moves, CallType

LEMMA AnswerMoves ==
    ASSUME call \in [Calls -> CallType], NEW k \in Calls, NEW r \in Results, Answer(k, r)
    PROVE  Moves(k, "done", r)
  BY RowMoves, IsStep DEF Answer

LEMMA GoMoves ==
    ASSUME call \in [Calls -> CallType], NEW k \in Calls, NEW p \in Steps, Go(k, p)
    PROVE  Moves(k, p, call[k].res)
  BY DEF Go, Moves, CallType

\* The step after a fetch.
LEMMA AfterFetchIs ==
    ASSUME NEW op
    PROVE  /\ AfterFetch(op) \in {"rebase", "merge", "done", "reset"}
           /\ op = "save" => AfterFetch(op) = "rebase"
           /\ op = "behind" <=> AfterFetch(op) = "done"
  BY DEF AfterFetch

LEMMA FetchMoves ==
    ASSUME call \in [Calls -> CallType], NEW k \in Calls, Fetch(k)
    PROVE  \E r \in Results : /\ Moves(k, AfterFetch(call[k].op), r)
                              /\ r = IF call[k].op = "behind" THEN "ok" ELSE call[k].res
<1> DEFINE p == AfterFetch(call[k].op)
           r == IF call[k].op = "behind" THEN "ok" ELSE call[k].res
<1>1. call' = [call EXCEPT ![k].pc = p, ![k].res = r]
  BY DEF Fetch
<1>2. p \in Steps /\ r \in Results
  BY AfterFetchIs, IsStep DEF CallType
<1> HIDE DEF p, r
<1>3. Moves(k, p, r)
  BY <1>1, <1>2, RowMoves
<1> QED
  BY <1>2, <1>3 DEF p, r

LEMMA RebaseMoves ==
    ASSUME call \in [Calls -> CallType], NEW k \in Calls, Rebase(k)
    PROVE  \E p \in {"push", "done", "stopped"}, r \in Results :
               /\ Moves(k, p, r)
               /\ r = "ok" => r = call[k].res \/ (p = "done" /\ call[k].op # "save")
<1> DEFINE next == IF call[k].op = "save" THEN "push" ELSE "done"
           result == IF call[k].op = "save" THEN "none" ELSE "ok"
<1>1. \/ call' = [call EXCEPT ![k].pc = next, ![k].res = result]
      \/ Answer(k, "error")
      \/ Go(k, "stopped")
  BY DEF Rebase
<1>2. next \in Steps /\ result \in Results /\ call[k].res \in Results
  BY IsStep DEF CallType
<1>3. next \in {"push", "done"} /\ (result = "ok" => next = "done" /\ call[k].op # "save")
  OBVIOUS
<1> HIDE DEF next, result
<1>4. CASE call' = [call EXCEPT ![k].pc = next, ![k].res = result]
  <2>1. Moves(k, next, result)
    BY <1>2, <1>4, RowMoves
  <2> QED
    BY <1>2, <1>3, <2>1
<1>5. CASE Answer(k, "error")
  <2>1. Moves(k, "done", "error")
    BY <1>5, AnswerMoves, IsStep
  <2> QED
    BY <2>1, IsStep
<1>6. CASE Go(k, "stopped")
  <2>1. Moves(k, "stopped", call[k].res)
    BY <1>6, GoMoves, IsStep
  <2> QED
    BY <1>2, <2>1
<1> QED
  BY <1>1, <1>4, <1>5, <1>6

\* The other steps; removing personal/ also ends the requests on it.
LEMMA StepMoves ==
    ASSUME call \in [Calls -> CallType], NEW k \in Calls
    PROVE  /\ Commit(k) => Moves(k, "fetch", call[k].res)
           /\ HoldBack(k) => Moves(k, "done", "conflict") \/ Moves(k, "done", "error")
           /\ Push(k) => Moves(k, "done", "ok") \/ Moves(k, "done", "needsPull")
           /\ PushUnanswered(k) => Moves(k, "done", "needsPull")
           /\ Merge(k) => Moves(k, "done", "diverged") \/ Moves(k, "done", "ok")
           /\ Unwedge(k) => Moves(k, "fetch", call[k].res)
           /\ Reset(k) => Moves(k, "done", "error") \/ Moves(k, "done", "ok")
           /\ \A refreshed \in BOOLEAN : Inspect(k, refreshed) =>
                  Moves(k, "sync", call[k].res) \/ Moves(k, "remove", call[k].res)
           /\ Sync(k) => Moves(k, "syncPush", call[k].res)
           /\ SyncPush(k) => Moves(k, "remove", call[k].res) \/ Moves(k, "done", "error")
           /\ Fail(k) => Moves(k, "done", "error")
<1>1. \A r \in Results : Answer(k, r) => Moves(k, "done", r)
  BY AnswerMoves
<1>2. \A p \in Steps : Go(k, p) => Moves(k, p, call[k].res)
  BY GoMoves
<1>3. ASSUME NEW refreshed \in BOOLEAN, Inspect(k, refreshed)
      PROVE  Go(k, "sync") \/ Go(k, "remove")
  BY <1>3 DEF Inspect
<1>4. HoldBack(k) => Answer(k, "conflict") \/ Answer(k, "error")
  BY DEF HoldBack
<1> QED
  BY <1>1, <1>2, <1>3, <1>4, IsStep
     DEF Commit, Push, PushUnanswered, Merge, Unwedge, Reset, Sync, SyncPush, Fail

LEMMA DeleteMoves ==
    ASSUME call \in [Calls -> CallType], NEW k \in Calls, DeletePersonal(k)
    PROVE  /\ call' \in [Calls -> CallType]
           /\ \A j \in Calls :
                 /\ call'[j].at = call[j].at /\ call'[j].op = call[j].op
                 /\ IF j = k THEN call'[j].pc = "done"
                    ELSE IF call[j].at = call[k].at /\ call[j].pc # "done"
                         THEN call'[j].pc = "done" /\ call'[j].res = "error" ELSE call'[j] = call[j]
<1> DEFINE row(j) == IF j = k THEN [call[j] EXCEPT !.pc = "done", !.res = "ok"]
                     ELSE IF call[j].at = call[k].at /\ call[j].pc # "done"
                          THEN [call[j] EXCEPT !.pc = "done", !.res = "error"]
                          ELSE call[j]
<1>1. call' = [j \in Calls |-> row(j)]
  BY DEF DeletePersonal
<1>2. ASSUME NEW j \in Calls
      PROVE  /\ row(j) \in CallType
             /\ row(j).at = call[j].at /\ row(j).op = call[j].op
             /\ IF j = k THEN row(j).pc = "done"
                ELSE IF call[j].at = call[k].at /\ call[j].pc # "done"
                     THEN row(j).pc = "done" /\ row(j).res = "error" ELSE row(j) = call[j]
  <2>1. call[j] \in CallType
    OBVIOUS
  <2>2. CASE j = k
    BY <2>1, <2>2, IsStep DEF CallType
  <2>3. CASE j # k /\ call[j].at = call[k].at /\ call[j].pc # "done"
    BY <2>1, <2>3, IsStep DEF CallType
  <2>4. CASE j # k /\ ~(call[j].at = call[k].at /\ call[j].pc # "done")
    BY <2>1, <2>4
  <2> QED
    BY <2>2, <2>3, <2>4
<1> HIDE DEF row
<1>3. call' \in [Calls -> CallType] /\ \A j \in Calls : call'[j] = row(j)
  BY <1>1, <1>2
<1> QED
  BY <1>2, <1>3

-----------------------------------------------------------------------------
(***************************************************************************)
(* What a step does to a checkout: one of a few kinds of change, each of   *)
(* which leaves the other checkouts alone.                                 *)
(***************************************************************************)
TreeTyped ==
    /\ origin \in Seq(Commits)
    /\ base \in [Checkouts -> Nat] /\ local \in [Checkouts -> Seq(Commits)]
    /\ dirty \in [Checkouts -> Commits] /\ fetched \in [Checkouts -> Nat]
    /\ stopped \in [Checkouts -> Branches \union {None}] /\ dropped \in [Checkouts -> Commits]

\* Only checkout c changes.
Only(c) ==
    /\ TreeTyped'
    /\ \A d \in Checkouts \ {c} :
          /\ base'[d] = base[d] /\ local'[d] = local[d] /\ dirty'[d] = dirty[d]
          /\ fetched'[d] = fetched[d] /\ stopped'[d] = stopped[d] /\ dropped'[d] = dropped[d]

\* The checkout stays as it is, but for what it knows of the remote.
Same(c) ==
    /\ origin' = origin
    /\ base'[c] = base[c] /\ local'[c] = local[c] /\ dirty'[c] = dirty[c]
    /\ stopped'[c] = stopped[c] /\ dropped'[c] = dropped[c]

\* Outside of a rebase, uncommitted changes may become commits and the branch may move.
Gathers(c) ==
    /\ origin' = origin /\ stopped[c] = None /\ stopped'[c] = None
    /\ dirty'[c] \subseteq dirty[c] /\ dropped'[c] = dropped[c]
    /\ Content(local'[c]) = Content(local[c]) \union (dirty[c] \ dirty'[c])

\* A rebase meets a conflict.
Halts(c) ==
    /\ origin' = origin /\ stopped[c] = None /\ stopped'[c] # None /\ Content(local[c]) # {}
    /\ stopped'[c] = [base |-> base[c], local |-> local[c]]
    /\ dirty'[c] = dirty[c] \union {Markers} /\ dropped'[c] = dropped[c]
    /\ Content(local'[c]) \subseteq Content(local[c])
    /\ Content(Prefix(base'[c])) \subseteq Content(Prefix(base[c])) \union Upstream(base[c], base'[c])
    /\ PlacesOf(dirty[c]) \intersect
           (Tracked(base[c], local[c]) \union PlacesOf(Upstream(base[c], base'[c]))) = {}

\* The stopped rebase is aborted.
Returns(c) ==
    /\ origin' = origin /\ stopped[c] # None /\ stopped'[c] = None
    /\ local'[c] = stopped[c].local /\ dropped'[c] = dropped[c]
    /\ dirty'[c] = Untracked(dirty[c], Tracked(base[c], local[c])
                                 \union Tracked(stopped[c].base, stopped[c].local))

\* The branch lands on the remote.
Lands(c) ==
    /\ origin' = origin \o local[c] /\ stopped[c] = None /\ stopped'[c] = None
    /\ local'[c] = <<>> /\ dirty'[c] = dirty[c] /\ dropped'[c] = dropped[c]

\* The user gives up what the checkout has beyond the remote.
Clears(c) ==
    /\ origin' = origin /\ stopped[c] = None /\ stopped'[c] = None
    /\ local'[c] = <<>> /\ dirty'[c] \subseteq dirty[c]
    /\ dirty'[c] \intersect Content(local[c]) = {}
    /\ dropped'[c] = dropped[c] \union ((Content(local[c]) \union dirty[c]) \ dirty'[c])

\* personal/ goes.
Goes(c, forced) ==
    /\ origin' = origin /\ stopped[c] = None /\ stopped'[c] = None
    /\ local'[c] = <<>> /\ dirty'[c] = {}
    /\ dropped'[c] = IF forced THEN dropped[c] \union dirty[c] \union Content(local[c]) ELSE dropped[c]

LEMMA NoneIsNoBranch == None \notin Branches
  BY GitSyncAssumption DEF Branches, Commits

LEMMA Putting ==
    ASSUME TreeTyped, NEW c \in Checkouts, NEW t, NEW stop \in Branches \union {None},
           t.base \in Nat, t.local \in Seq(Commits), t.dirty \in Commits,
           PutTree(c, t, stop), UNCHANGED <<origin, fetched, dropped>>
    PROVE  /\ Only(c)
           /\ base'[c] = t.base /\ local'[c] = t.local /\ dirty'[c] = t.dirty
           /\ stopped'[c] = stop /\ dropped'[c] = dropped[c] /\ fetched'[c] = fetched[c]
  BY DEF PutTree, TreeTyped, Only

LEMMA NothingChanges ==
    ASSUME TreeTyped, NEW c \in Checkouts, BasedAt(c), UNCHANGED <<origin, base, local, dirty, stopped, dropped>>,
           fetched' = fetched \/ fetched' = [fetched EXCEPT ![c] = Len(origin)]
    PROVE  Only(c) /\ Same(c) /\ BasedAt(c)'
<1>1. Len(origin) \in Nat
  BY LenProperties DEF TreeTyped
<1>2. /\ fetched' \in [Checkouts -> Nat]
      /\ fetched'[c] = fetched[c] \/ fetched'[c] = Len(origin)
      /\ \A d \in Checkouts \ {c} : fetched'[d] = fetched[d]
  BY <1>1 DEF TreeTyped
<1>3. TreeTyped'
  BY <1>2 DEF TreeTyped
<1>4. Only(c)
  BY <1>2, <1>3 DEF Only
<1>5. fetched'[c] <= Len(origin)
  BY <1>1, <1>2 DEF BasedAt, TreeTyped
<1>6. BasedAt(c)'
  BY <1>5 DEF BasedAt
<1> QED
  BY <1>4, <1>6 DEF Same

LEMMA Gathering ==
    ASSUME TreeTyped, NEW c \in Checkouts, BasedAt(c), stopped[c] = None, CommitAll(c),
           UNCHANGED <<origin, base, fetched, stopped, dropped>>
    PROVE  Only(c) /\ Gathers(c) /\ BasedAt(c)' /\ dirty'[c] = {}
<1>1. CASE dirty[c] = {}
  <2>1. UNCHANGED <<local, dirty>>
    BY <1>1 DEF CommitAll
  <2> QED
    BY <1>1, <2>1 DEF Only, Gathers, BasedAt, TreeTyped
<1>2. CASE dirty[c] # {}
  <2>1. /\ local' = [local EXCEPT ![c] = Append(local[c], dirty[c])]
        /\ dirty' = [dirty EXCEPT ![c] = {}]
    BY <1>2 DEF CommitAll
  <2>2. /\ Append(local[c], dirty[c]) \in Seq(Commits) /\ {} \in Commits
        /\ Content(Append(local[c], dirty[c])) = Content(local[c]) \union dirty[c]
    BY ContentAppend DEF TreeTyped, Commits
  <2>3. local'[c] = Append(local[c], dirty[c]) /\ dirty'[c] = {}
    BY <2>1 DEF TreeTyped
  <2>4. Only(c)
    BY <2>1, <2>2 DEF Only, TreeTyped
  <2> QED
    BY <2>2, <2>3, <2>4 DEF Gathers, BasedAt
<1> QED
  BY <1>1, <1>2

LEMMA AutoCommitGathers ==
    ASSUME ~Exposed, TreeTyped, NEW c \in Checkouts, BasedAt(c), NEW e \in Edits, AutoCommit(c, e)
    PROVE  Only(c) /\ (Same(c) \/ Gathers(c)) /\ BasedAt(c)'
<1>1. stopped[c] = None
  BY DEF AutoCommit, Closed
<1>2. CASE UNCHANGED <<local, dirty>>
  BY <1>2, NothingChanges DEF AutoCommit
<1>3. CASE /\ local' = [local EXCEPT ![c] = Append(@, {e} \intersect dirty[c])]
           /\ dirty' = [dirty EXCEPT ![c] = @ \ {e}]
  <2> DEFINE w == {e} \intersect dirty[c]
  <2>1. w \in Commits /\ dirty[c] \ {e} \in Commits
    BY DEF TreeTyped, Commits
  <2>2. /\ Append(local[c], w) \in Seq(Commits)
        /\ Content(Append(local[c], w)) = Content(local[c]) \union w
    BY <2>1, ContentAppend DEF TreeTyped
  <2>3. local'[c] = Append(local[c], w) /\ dirty'[c] = dirty[c] \ {e}
    BY <1>3 DEF TreeTyped
  <2>4. Only(c) /\ BasedAt(c)'
    BY <1>1, <1>3, <2>1, <2>2 DEF AutoCommit, Only, TreeTyped, BasedAt
  <2> QED
    BY <1>1, <2>2, <2>3, <2>4 DEF Gathers, AutoCommit
<1> QED
  BY <1>2, <1>3 DEF AutoCommit

LEMMA Landing ==
    ASSUME TreeTyped, NEW c \in Checkouts, BasedAt(c), stopped[c] = None, Land(c),
           UNCHANGED <<dirty, stopped, dropped>>
    PROVE  Only(c) /\ Lands(c) /\ BasedAt(c)'
<1>1. local[c] \in Seq(Commits) /\ Len(local[c]) \in Nat /\ Len(origin) \in Nat
  BY LenProperties DEF TreeTyped
<1>2. /\ origin' \in Seq(Commits) /\ Len(origin') = Len(origin) + Len(local[c])
      /\ <<>> \in Seq(Commits)
  BY <1>1, ContentConcat, ContentEmpty DEF Land, TreeTyped
<1>3. Len(origin) + Len(local[c]) \in Nat
  BY <1>1
<1>4. Only(c)
  BY <1>1, <1>2, <1>3 DEF Only, TreeTyped, Land
<1>5. /\ base'[c] = Len(origin') /\ fetched'[c] = Len(origin') /\ local'[c] = <<>>
  BY <1>2 DEF TreeTyped, Land
<1>6. Lands(c)
  BY <1>5 DEF Lands, Land
<1>7. BasedAt(c)'
  BY <1>2, <1>3, <1>5 DEF BasedAt
<1> QED
  BY <1>4, <1>6, <1>7


\* An abort puts the branch back; without a stopped rebase it changes nothing.
LEMMA AbortedIs ==
    ASSUME TreeTyped, NEW c \in Checkouts
    PROVE  /\ Aborted(c).base \in Nat /\ Aborted(c).local \in Seq(Commits) /\ Aborted(c).dirty \in Commits
           /\ stopped[c] = None => /\ Aborted(c).base = base[c] /\ Aborted(c).local = local[c]
                                   /\ Aborted(c).dirty = dirty[c]
           /\ stopped[c] # None =>
                 /\ Aborted(c).base = stopped[c].base /\ Aborted(c).local = stopped[c].local
                 /\ Aborted(c).dirty = Untracked(dirty[c], Tracked(base[c], local[c])
                                            \union Tracked(stopped[c].base, stopped[c].local))
<1>1. CASE stopped[c] = None
  BY <1>1 DEF Aborted, TreeTyped
<1>2. CASE stopped[c] # None
  <2>1. stopped[c] \in Branches
    BY <1>2 DEF TreeTyped
  <2> DEFINE u == Untracked(dirty[c], Tracked(base[c], local[c])
                                \union Tracked(stopped[c].base, stopped[c].local))
  <2>2. u \in Commits
    BY DEF Untracked, TreeTyped, Commits
  <2>3. Aborted(c) = [base |-> stopped[c].base, local |-> stopped[c].local, dirty |-> u]
    BY <1>2 DEF Aborted
  <2> HIDE DEF u
  <2>4. /\ Aborted(c).base = stopped[c].base /\ Aborted(c).local = stopped[c].local
        /\ Aborted(c).dirty = u
    BY <2>3
  <2> QED
    BY <1>2, <2>1, <2>2, <2>4 DEF u, Branches
<1> QED
  BY <1>1, <1>2

LEMMA Aborting ==
    ASSUME TreeTyped, NEW c \in Checkouts, BasedAt(c), PutTree(c, Aborted(c), None),
           UNCHANGED <<origin, fetched, dropped>>
    PROVE  Only(c) /\ (Same(c) \/ Returns(c)) /\ BasedAt(c)'
<1>1. /\ Only(c)
      /\ base'[c] = Aborted(c).base /\ local'[c] = Aborted(c).local /\ dirty'[c] = Aborted(c).dirty
      /\ stopped'[c] = None /\ dropped'[c] = dropped[c] /\ fetched'[c] = fetched[c]
  BY AbortedIs, Putting
<1>2. CASE stopped[c] = None
  <2>1. base'[c] = base[c] /\ local'[c] = local[c] /\ dirty'[c] = dirty[c]
    BY <1>1, <1>2, AbortedIs
  <2> QED
    BY <1>1, <1>2, <2>1 DEF Same, BasedAt
<1>3. CASE stopped[c] # None
  <2>1. /\ base'[c] = stopped[c].base /\ local'[c] = stopped[c].local
        /\ dirty'[c] = Untracked(dirty[c], Tracked(base[c], local[c])
                                      \union Tracked(stopped[c].base, stopped[c].local))
    BY <1>1, <1>3, AbortedIs
  <2> QED
    BY <1>1, <1>3, <2>1 DEF Returns, BasedAt
<1> QED
  BY <1>2, <1>3

\* A rebase that starts on a settled checkout moves its branch or stops.
LEMMA Rebasing ==
    ASSUME ~Exposed, TreeTyped, NEW k \in Calls, NEW c \in Checkouts, c = call[k].at, BasedAt(c), Rebase(k)
    PROVE  Only(c) /\ (Same(c) \/ Gathers(c) \/ Halts(c)) /\ BasedAt(c)'
<1> DEFINE t == Aborted(c)
           to == fetched[c]
           u == Upstream(t.base, to)
<1>1. stopped[c] = None
  BY DEF Rebase, Closed
<1>2. /\ t.base \in Nat /\ t.local \in Seq(Commits) /\ t.dirty \in Commits
      /\ t.base = base[c] /\ t.local = local[c] /\ t.dirty = dirty[c]
      /\ to \in Nat /\ to <= Len(origin)
  BY <1>1, AbortedIs DEF TreeTyped, BasedAt
<1>3. \/ UNCHANGED tree
      \/ PutTree(c, t, None)
      \/ PutTree(c, [t EXCEPT !.base = to], None)
      \/ /\ ~Obstructed(t, u) /\ Conflicts(t.local, u) # {}
         /\ PutTree(c, [base |-> to,
                        local |-> SubSeq(t.local, 1, FirstConflict(t.local, u) - 1),
                        dirty |-> t.dirty \union {Markers}],
                    [base |-> t.base, local |-> t.local])
  <2>1. to = 0 \/ to > 0
    BY <1>2
  <2>2. CASE to = 0
    BY <2>2 DEF Rebase
  <2>3. CASE to > 0 /\ Obstructed(t, u)
    BY <2>3 DEF Rebase
  <2>4. CASE to > 0 /\ ~Obstructed(t, u) /\ Conflicts(t.local, u) = {}
    BY <2>4 DEF Rebase
  <2>5. CASE to > 0 /\ ~Obstructed(t, u) /\ Conflicts(t.local, u) # {}
    BY <2>5 DEF Rebase
  <2> QED
    BY <2>1, <2>2, <2>3, <2>4, <2>5
<1>4. UNCHANGED <<origin, fetched, dropped>>
  BY DEF Rebase
<1>5. CASE UNCHANGED tree
  BY <1>4, <1>5, NothingChanges DEF tree
<1>6. CASE PutTree(c, t, None)
  BY <1>1, <1>4, <1>6, Aborting DEF Returns
<1>7. CASE PutTree(c, [t EXCEPT !.base = to], None)
  <2> DEFINE m == [t EXCEPT !.base = to]
  <2>1. t = [base |-> base[c], local |-> local[c], dirty |-> dirty[c]]
    BY <1>1 DEF Aborted
  <2>2. m.base = to /\ m.local = local[c] /\ m.dirty = dirty[c]
    BY <2>1
  <2> HIDE DEF m
  <2>3. /\ Only(c)
        /\ base'[c] = to /\ local'[c] = local[c] /\ dirty'[c] = dirty[c]
        /\ stopped'[c] = None /\ dropped'[c] = dropped[c] /\ fetched'[c] = fetched[c]
    <3>1. PutTree(c, m, None)
      BY <1>7 DEF m
    <3>2. m.base \in Nat /\ m.local \in Seq(Commits) /\ m.dirty \in Commits
      BY <1>2, <2>2
    <3> QED
      BY <1>4, <2>2, <3>1, <3>2, Putting
  <2> QED
    BY <1>1, <1>2, <1>4, <2>3 DEF Gathers, BasedAt
<1>8. CASE /\ ~Obstructed(t, u) /\ Conflicts(t.local, u) # {}
           /\ PutTree(c, [base |-> to,
                          local |-> SubSeq(t.local, 1, FirstConflict(t.local, u) - 1),
                          dirty |-> t.dirty \union {Markers}],
                      [base |-> t.base, local |-> t.local])
  <2> DEFINE part == SubSeq(t.local, 1, FirstConflict(t.local, u) - 1)
             m == [base |-> to, local |-> part, dirty |-> t.dirty \union {Markers}]
             b == [base |-> t.base, local |-> t.local]
  <2>1. FirstConflict(t.local, u) - 1 \in 0..Len(t.local)
    <3>1. FirstConflict(t.local, u) \in 1..Len(t.local)
      BY <1>2, <1>8, FirstConflictIn
    <3> QED
      BY <1>2, <3>1, LenProperties
  <2>2. part \in Seq(Commits) /\ Content(part) \subseteq Content(local[c])
    BY <1>2, <2>1, ContentFirst
  <2>3. m.base = to /\ m.local = part /\ m.dirty = dirty[c] \union {Markers}
    BY <1>2
  <2>4. b \in Branches /\ b = [base |-> base[c], local |-> local[c]]
    BY <1>2 DEF Branches
  <2>5. PutTree(c, m, b)
    BY <1>8
  <2>6. dirty[c] \union {Markers} \in Commits
    BY DEF TreeTyped, Commits
  <2>7. /\ PlacesOf(dirty[c]) \intersect (Tracked(base[c], local[c]) \union PlacesOf(u)) = {}
        /\ u = Upstream(base[c], to)
    BY <1>2, <1>8 DEF Obstructed
  <2>8. Content(Prefix(to)) \subseteq Content(Prefix(base[c])) \union Upstream(base[c], to)
    <3>1. base[c] \in 0..Len(origin) /\ to \in 0..Len(origin) /\ origin \in Seq(Commits)
      BY <1>2, LenProperties DEF TreeTyped, BasedAt
    <3> QED
      BY <3>1, UpstreamCovers
  <2> HIDE DEF m, b, part
  <2>9. /\ Only(c)
        /\ base'[c] = to /\ local'[c] = part /\ dirty'[c] = dirty[c] \union {Markers}
        /\ stopped'[c] = b /\ dropped'[c] = dropped[c] /\ fetched'[c] = fetched[c]
    <3>1. m.base \in Nat /\ m.local \in Seq(Commits) /\ m.dirty \in Commits
      BY <1>2, <2>2, <2>3, <2>6
    <3>2. b \in Branches \union {None}
      BY <2>4
    <3> QED
      BY <1>4, <2>3, <2>5, <3>1, <3>2, Putting
  <2>10. stopped'[c] # None
    BY <2>4, <2>9, NoneIsNoBranch
  <2>11. Prefix(base'[c]) = Prefix(to) /\ Upstream(base[c], base'[c]) = Upstream(base[c], to)
    BY <2>9
  <2>12. Content(local[c]) # {}
    <3>1. PICK i \in DOMAIN local[c] : PlacesOf(local[c][i]) \intersect PlacesOf(u) # {}
      BY <1>2, <1>8 DEF Conflicts
    <3>2. local[c] \in Seq(Commits) /\ i \in 1..Len(local[c])
      BY LenProperties DEF TreeTyped
    <3>3. PICK e : e \in local[c][i]
      BY <3>1 DEF PlacesOf
    <3> QED
      BY <3>2, <3>3, ContentIs
  <2>13. Halts(c)
    BY <1>1, <1>4, <2>2, <2>12, <2>4, <2>7, <2>8, <2>9, <2>10, <2>11 DEF Halts
  <2>14. BasedAt(c)'
    BY <1>2, <1>4, <2>4, <2>9 DEF BasedAt
  <2> QED
    BY <2>9, <2>13, <2>14
<1> QED
  BY <1>3, <1>5, <1>6, <1>7, <1>8


LEMMA MergingKeeps ==
    ASSUME ~Exposed, TreeTyped, NEW k \in Calls, NEW c \in Checkouts, c = call[k].at, BasedAt(c), Merge(k)
    PROVE  Only(c) /\ Gathers(c) /\ BasedAt(c)'
<1>1. stopped[c] = None
  BY DEF Merge, Closed
<1>2. /\ base' \in [Checkouts -> Nat] /\ base'[c] \in {base[c], fetched[c]}
      /\ \A d \in Checkouts \ {c} : base'[d] = base[d]
  <2>1. base' = base \/ base' = [base EXCEPT ![c] = fetched[c]]
    BY DEF Merge
  <2> QED
    BY <2>1 DEF TreeTyped
<1>3. UNCHANGED <<origin, local, dirty, fetched, stopped, dropped>>
  BY DEF Merge
<1>4. Only(c)
  BY <1>2, <1>3 DEF Only, TreeTyped
<1>5. base'[c] <= Len(origin)
  BY <1>2 DEF BasedAt
<1> QED
  BY <1>1, <1>3, <1>4, <1>5 DEF Gathers, BasedAt

\* What is untracked after a reset is in no commit of the branch.
LEMMA Resetting ==
    ASSUME ~Exposed, TreeTyped, NEW k \in Calls, NEW c \in Checkouts, c = call[k].at, BasedAt(c), Reset(k)
    PROVE  Only(c) /\ (Same(c) \/ Clears(c)) /\ BasedAt(c)'
<1> DEFINE kept == IF call[k].op = "force" THEN {}
                   ELSE Untracked(dirty[c], Tracked(base[c], local[c])
                                      \union Tracked(fetched[c], <<>>))
<1>1. stopped[c] = None
  BY DEF Reset, Closed
<1>2. UNCHANGED <<origin, fetched, stopped>>
  BY DEF Reset
<1>3. CASE UNCHANGED <<base, local, dirty, dropped>>
  BY <1>2, <1>3, NothingChanges
<1>4. CASE /\ base' = [base EXCEPT ![c] = fetched[c]]
           /\ local' = [local EXCEPT ![c] = <<>>]
           /\ dirty' = [dirty EXCEPT ![c] = kept]
           /\ dropped' = [dropped EXCEPT ![c] = @ \union ((Content(local[c]) \union dirty[c]) \ kept)]
  <2>1. kept \subseteq dirty[c] /\ kept \in Commits
    BY DEF Untracked, TreeTyped, Commits
  <2>2. kept \intersect Content(local[c]) = {}
    <3>1. ASSUME NEW e \in kept PROVE e \notin Content(local[c])
      <4>1. /\ e # Markers /\ PlaceOf[e] \notin Tracked(base[c], local[c])
        BY <3>1 DEF Untracked
      <4> QED
        BY <4>1 DEF Tracked, PlacesOf
    <3> QED
      BY <3>1
  <2>3. Content(local[c]) \in Commits
    BY ContentIs DEF TreeTyped
  <2>4. <<>> \in Seq(Commits)
    BY ContentEmpty
  <2> HIDE DEF kept
  <2>5. (dropped[c] \union ((Content(local[c]) \union dirty[c]) \ kept)) \in Commits
    BY <2>3 DEF TreeTyped, Commits
  <2>6. /\ base'[c] = fetched[c] /\ local'[c] = <<>> /\ dirty'[c] = kept
        /\ dropped'[c] = dropped[c] \union ((Content(local[c]) \union dirty[c]) \ kept)
    BY <1>4 DEF TreeTyped
  <2>7. Only(c)
    BY <1>2, <1>4, <2>1, <2>4, <2>5 DEF Only, TreeTyped
  <2>8. Clears(c)
    BY <1>1, <1>2, <2>1, <2>2, <2>6 DEF Clears
  <2> QED
    BY <1>2, <2>6, <2>7, <2>8 DEF BasedAt
<1> QED
  BY <1>3, <1>4 DEF Reset

LEMMA Removing ==
    ASSUME ~Exposed, TreeTyped, NEW k \in Calls, NEW c \in Checkouts, c = call[k].at, BasedAt(c), DeletePersonal(k)
    PROVE  Only(c) /\ Goes(c, call[k].op = "forceErase") /\ BasedAt(c)'
<1> DEFINE t == [base |-> 0, local |-> <<>>, dirty |-> {}]
<1>1. stopped[c] = None
  BY DEF DeletePersonal, Closed
<1>2. /\ base' = [base EXCEPT ![c] = 0] /\ local' = [local EXCEPT ![c] = <<>>]
      /\ dirty' = [dirty EXCEPT ![c] = {}] /\ stopped' = [stopped EXCEPT ![c] = None]
      /\ fetched' = [fetched EXCEPT ![c] = 0] /\ origin' = origin
  BY DEF DeletePersonal, PutTree
<1>3. dropped' = IF call[k].op = "forceErase"
                 THEN [dropped EXCEPT ![c] = @ \union dirty[c] \union Content(local[c])]
                 ELSE dropped
  BY DEF DeletePersonal
<1>4. Content(local[c]) \in Commits /\ <<>> \in Seq(Commits) /\ {} \in Commits
  BY ContentIs, ContentEmpty DEF TreeTyped, Commits
<1>5. /\ dropped' \in [Checkouts -> Commits] /\ \A d \in Checkouts \ {c} : dropped'[d] = dropped[d]
      /\ dropped'[c] = IF call[k].op = "forceErase" THEN dropped[c] \union dirty[c] \union Content(local[c])
                       ELSE dropped[c]
  <2>1. (dropped[c] \union dirty[c] \union Content(local[c])) \in Commits
    BY <1>4 DEF TreeTyped, Commits
  <2> QED
    BY <1>3, <2>1 DEF TreeTyped
<1>6. /\ base'[c] = 0 /\ local'[c] = <<>> /\ dirty'[c] = {} /\ stopped'[c] = None /\ fetched'[c] = 0
  BY <1>2 DEF TreeTyped
<1>7. Only(c)
  BY <1>2, <1>4, <1>5 DEF Only, TreeTyped
<1>8. Goes(c, call[k].op = "forceErase")
  BY <1>1, <1>2, <1>5, <1>6 DEF Goes
<1>9. BasedAt(c)'
  <2>1. Len(origin) \in Nat
    BY LenProperties DEF TreeTyped
  <2> QED
    BY <1>2, <1>6, <2>1 DEF BasedAt
<1> QED
  BY <1>7, <1>8, <1>9

\* The kinds of change together; every step of a request makes one of them.
Changes(c) ==
    /\ Only(c) /\ BasedAt(c)'
    /\ \/ Same(c) \/ Gathers(c) \/ Halts(c) \/ Returns(c) \/ Lands(c) \/ Clears(c)
       \/ Goes(c, TRUE)
       \/ Bare(c) /\ Goes(c, FALSE)

LEMMA StepChanges ==
    ASSUME ~Exposed, TreeTyped, Erasable, NEW k \in Calls, NEW c \in Checkouts, c = call[k].at,
           BasedAt(c), Step(k)
    PROVE  Changes(c)
<1>1. CASE Commit(k)
  <2>1. /\ stopped[c] = None /\ CommitAll(c) /\ UNCHANGED <<origin, base, fetched, stopped, dropped>>
    BY <1>1 DEF Commit, Closed
  <2> QED
    BY <2>1, Gathering DEF Changes
<1>2. CASE Fetch(k)
  <2>1. /\ UNCHANGED <<origin, base, local, dirty, stopped, dropped>>
        /\ fetched' = [fetched EXCEPT ![c] = Len(origin)]
    BY <1>2 DEF Fetch, tree
  <2> QED
    BY <2>1, NothingChanges DEF Changes
<1>3. CASE Rebase(k)
  BY <1>3, Rebasing DEF Changes
<1>4. CASE HoldBack(k)
  <2>1. PutTree(c, Aborted(c), None) /\ UNCHANGED <<origin, fetched, dropped>>
    BY <1>4 DEF HoldBack
  <2> QED
    BY <2>1, Aborting DEF Changes
<1>5. CASE Push(k)
  <2>1. CASE Land(c)
    <3>1. stopped[c] = None /\ UNCHANGED <<dirty, stopped, dropped>>
      BY <1>5 DEF Push, Closed
    <3> QED
      BY <2>1, <3>1, Landing DEF Changes
  <2>2. CASE ~Land(c)
    <3>1. UNCHANGED <<origin, base, local, dirty, stopped, dropped, fetched>>
      BY <1>5, <2>2 DEF Push
    <3> QED
      BY <3>1, NothingChanges DEF Changes
  <2> QED
    BY <2>1, <2>2
<1>6. CASE PushUnanswered(k)
  <2>1. stopped[c] = None /\ Land(c) /\ UNCHANGED <<dirty, stopped, dropped>>
    BY <1>6 DEF PushUnanswered, Closed
  <2> QED
    BY <2>1, Landing DEF Changes
<1>7. CASE Merge(k)
  BY <1>7, MergingKeeps DEF Changes
<1>8. CASE Unwedge(k)
  <2>1. PutTree(c, Aborted(c), None) /\ UNCHANGED <<origin, fetched, dropped>>
    BY <1>8 DEF Unwedge
  <2> QED
    BY <2>1, Aborting DEF Changes
<1>9. CASE Reset(k)
  BY <1>9, Resetting DEF Changes
<1>10. CASE \E refreshed \in BOOLEAN : Inspect(k, refreshed)
  <2>1. /\ UNCHANGED <<origin, base, local, dirty, stopped, dropped>>
        /\ fetched' = fetched \/ fetched' = [fetched EXCEPT ![c] = Len(origin)]
    BY <1>10 DEF Inspect, tree
  <2> QED
    BY <2>1, NothingChanges DEF Changes
<1>11. CASE Sync(k)
  <2>1. /\ stopped[c] = None /\ CommitAll(c) /\ UNCHANGED <<origin, base, fetched, stopped, dropped>>
    BY <1>11 DEF Sync, Closed
  <2> QED
    BY <2>1, Gathering DEF Changes
<1>12. CASE SyncPush(k)
  <2>1. CASE Land(c)
    <3>1. stopped[c] = None /\ UNCHANGED <<dirty, stopped, dropped>>
      BY <1>12 DEF SyncPush, Closed
    <3> QED
      BY <2>1, <3>1, Landing DEF Changes
  <2>2. CASE ~Land(c)
    <3>1. UNCHANGED <<origin, base, local, dirty, stopped, dropped, fetched>>
      BY <1>12, <2>2 DEF SyncPush
    <3> QED
      BY <3>1, NothingChanges DEF Changes
  <2> QED
    BY <2>1, <2>2
<1>13. CASE DeletePersonal(k)
  <2>1. Busy(k, "remove")
    BY <1>13 DEF DeletePersonal
  <2>2. call[k].op # "forceErase" => Bare(c)
    BY <2>1 DEF Erasable
  <2>3. Only(c) /\ Goes(c, call[k].op = "forceErase") /\ BasedAt(c)'
    BY <1>13, Removing
  <2>4. CASE call[k].op = "forceErase"
    <3>1. Goes(c, TRUE)
      BY <2>3, <2>4 DEF Goes
    <3> QED
      BY <2>3, <3>1 DEF Changes
  <2>5. CASE call[k].op # "forceErase"
    <3>1. Goes(c, FALSE)
      BY <2>3, <2>5 DEF Goes
    <3> QED
      BY <2>2, <2>3, <2>5, <3>1 DEF Changes
  <2> QED
    BY <2>4, <2>5
<1>14. CASE Fail(k)
  <2>1. UNCHANGED <<origin, base, local, dirty, stopped, dropped, fetched>>
    BY <1>14 DEF Fail, tree
  <2> QED
    BY <2>1, NothingChanges DEF Changes
<1> QED
  BY <1>1, <1>2, <1>3, <1>4, <1>5, <1>6, <1>7, <1>8, <1>9, <1>10, <1>11, <1>12, <1>13, <1>14 DEF Step


-----------------------------------------------------------------------------
(***************************************************************************)
(* Each kind of change keeps the invariant of the checkout it changes, and *)
(* the remote may grow under the others.                                   *)
(***************************************************************************)
Kept(c) == made[c] \subseteq OnOrigin \union Standing(c) \union dropped[c]
Grows == origin' = origin \/ \E x \in Seq(Commits) : origin' = origin \o x

LEMMA GrownPrefixes ==
    ASSUME origin \in Seq(Commits), Grows
    PROVE  /\ OnOrigin \subseteq OnOrigin' /\ Len(origin) <= Len(origin') /\ Len(origin') \in Nat
           /\ \A n \in 0..Len(origin) : SubSeq(origin', 1, n) = SubSeq(origin, 1, n)
<1>1. CASE origin' = origin
  BY <1>1, LenProperties DEF OnOrigin
<1>2. CASE \E x \in Seq(Commits) : origin' = origin \o x
  <2>1. PICK x \in Seq(Commits) : origin' = origin \o x
    BY <1>2
  <2>2. /\ OnOrigin' = OnOrigin \union Content(x) /\ Len(origin) <= Len(origin') /\ origin' \in Seq(Commits)
        /\ \A n \in 0..Len(origin) : Prefix(n)' = Prefix(n)
    BY <2>1, OriginGrows
  <2> QED
    BY <2>2, LenProperties DEF Prefix
<1> QED
  BY <1>1, <1>2 DEF Grows

\* A checkout that stays as it is stays sound while the remote grows.
LEMMA StaySound ==
    ASSUME TreeTyped, NEW c \in Checkouts, Grows, TreeAt(c),
           base'[c] = base[c], local'[c] = local[c], dirty'[c] = dirty[c],
           fetched'[c] = fetched[c], stopped'[c] = stopped[c]
    PROVE  TreeAt(c)'
<1>1. /\ Len(origin) <= Len(origin') /\ Len(origin') \in Nat /\ Len(origin) \in Nat
      /\ \A n \in 0..Len(origin) : SubSeq(origin', 1, n) = SubSeq(origin, 1, n)
  BY GrownPrefixes, LenProperties DEF TreeTyped
<1>2. base[c] \in 0..Len(origin) /\ fetched[c] \in Nat /\ (stopped[c] # None => stopped[c].base \in 0..Len(origin))
  <2>1. stopped[c] # None => stopped[c].base \in Nat
    BY DEF TreeTyped, Branches
  <2> QED
    BY <1>1, <2>1 DEF TreeAt, BasedAt, TreeTyped
<1>3. BasedAt(c)'
  BY <1>1, <1>2 DEF TreeAt, BasedAt
<1>4. UnmarkedAt(c)'
  BY DEF TreeAt, UnmarkedAt
<1>5. RestorableAt(c)'
  <2>1. SubSeq(origin', 1, base[c]) = SubSeq(origin, 1, base[c])
    BY <1>1, <1>2
  <2>2. stopped[c] # None => SubSeq(origin', 1, stopped[c].base) = SubSeq(origin, 1, stopped[c].base)
    BY <1>1, <1>2
  <2> QED
    BY <2>1, <2>2 DEF TreeAt, RestorableAt, Tracked, Prefix
<1> QED
  BY <1>3, <1>4, <1>5 DEF TreeAt

LEMMA StayKept ==
    ASSUME TreeTyped, NEW c \in Checkouts, Grows, Kept(c),
           local'[c] = local[c], dirty'[c] = dirty[c], stopped'[c] = stopped[c],
           dropped'[c] = dropped[c], made'[c] = made[c]
    PROVE  Kept(c)'
<1>1. OnOrigin \subseteq OnOrigin'
  BY GrownPrefixes DEF TreeTyped
<1>2. Standing(c)' = Standing(c)
  BY DEF Standing
<1> QED
  BY <1>1, <1>2 DEF Kept

LEMMA GatherSound ==
    ASSUME NEW c \in Checkouts, Gathers(c), TreeAt(c), Kept(c), made'[c] = made[c], BasedAt(c)',
           NothingConflictedPublished
    PROVE  TreeAt(c)' /\ Kept(c)' /\ Grows /\ NothingConflictedPublished'
<1>1. UnmarkedAt(c)'
  BY DEF Gathers, TreeAt, UnmarkedAt
<1>2. RestorableAt(c)'
  BY DEF Gathers, RestorableAt
<1>3. Kept(c)'
  BY DEF Gathers, Kept, Standing, OnOrigin
<1> QED
  BY <1>1, <1>2, <1>3 DEF TreeAt, Grows, Gathers, NothingConflictedPublished, OnOrigin

LEMMA HaltSound ==
    ASSUME TreeTyped, NEW c \in Checkouts, Halts(c), TreeAt(c), Kept(c), made'[c] = made[c], BasedAt(c)',
           NothingConflictedPublished
    PROVE  TreeAt(c)' /\ Kept(c)' /\ Grows /\ NothingConflictedPublished'
<1>1. stopped'[c] # None /\ stopped'[c].base = base[c] /\ stopped'[c].local = local[c]
  BY DEF Halts
<1>2. UnmarkedAt(c)'
  BY <1>1 DEF Halts, TreeAt, UnmarkedAt
<1>3. RestorableAt(c)'
  <2>1. PlacesOf(dirty'[c]) = PlacesOf(dirty[c])
    BY DEF PlacesOf, Halts
  <2>2. Content(Prefix(base'[c])) \union Content(local'[c])
            \subseteq (Content(Prefix(base[c])) \union Content(local[c])) \union Upstream(base[c], base'[c])
    BY DEF Halts
  <2>3. Tracked(base'[c], local'[c]) \subseteq Tracked(base[c], local[c]) \union PlacesOf(Upstream(base[c], base'[c]))
    BY <2>2 DEF Tracked, PlacesOf
  <2>4. PlacesOf(dirty'[c]) \intersect (Tracked(base'[c], local'[c]) \union Tracked(base[c], local[c])) = {}
    BY <2>1, <2>3 DEF Halts
  <2>5. Content(local'[c]) \subseteq Content(stopped'[c].local)
    BY <1>1 DEF Halts
  <2> QED
    BY <1>1, <2>4, <2>5 DEF RestorableAt, Tracked, Prefix, Halts
<1>4. Kept(c)'
  BY <1>1 DEF Halts, Kept, Standing, OnOrigin
<1> QED
  BY <1>2, <1>3, <1>4 DEF TreeAt, Grows, Halts, NothingConflictedPublished, OnOrigin

\* What was not committed survives the abort, but for the markers.
LEMMA ReturnSound ==
    ASSUME NEW c \in Checkouts, Returns(c), TreeAt(c), Kept(c), made'[c] = made[c], made[c] \subseteq Edits,
           BasedAt(c)', NothingConflictedPublished
    PROVE  TreeAt(c)' /\ Kept(c)' /\ Grows /\ NothingConflictedPublished'
<1>1. dirty'[c] = dirty[c] \ {Markers}
  <2> DEFINE P == Tracked(base[c], local[c]) \union Tracked(stopped[c].base, stopped[c].local)
  <2>1. PlacesOf(dirty[c]) \intersect P = {} /\ dirty'[c] = Untracked(dirty[c], P)
    BY DEF Returns, TreeAt, RestorableAt
  <2> HIDE DEF P
  <2>2. \A e \in dirty[c] \ {Markers} : PlaceOf[e] \notin P
    BY <2>1 DEF PlacesOf
  <2> QED
    BY <2>1, <2>2 DEF Untracked
<1>2. UnmarkedAt(c)'
  BY <1>1 DEF Returns, TreeAt, UnmarkedAt
<1>3. RestorableAt(c)'
  BY DEF Returns, RestorableAt
<1>4. Kept(c)'
  <2>1. Markers \notin made[c]
    BY GitSyncAssumption
  <2>2. Standing(c) \subseteq dirty[c] \union Content(stopped[c].local)
    BY DEF Standing, Returns, TreeAt, RestorableAt
  <2>3. Standing(c)' = (dirty[c] \ {Markers}) \union Content(stopped[c].local)
    BY <1>1 DEF Standing, Returns
  <2> QED
    BY <2>1, <2>2, <2>3 DEF Kept, Returns, OnOrigin
<1> QED
  BY <1>2, <1>3, <1>4 DEF TreeAt, Grows, Returns, NothingConflictedPublished, OnOrigin

LEMMA LandSound ==
    ASSUME TreeTyped, NEW c \in Checkouts, Lands(c), TreeAt(c), Kept(c), made'[c] = made[c], BasedAt(c)',
           NothingConflictedPublished
    PROVE  TreeAt(c)' /\ Kept(c)' /\ Grows /\ NothingConflictedPublished'
<1>1. local[c] \in Seq(Commits) /\ origin \in Seq(Commits) /\ origin' = origin \o local[c]
  BY DEF Lands, TreeTyped
<1>2. OnOrigin' = OnOrigin \union Content(local[c])
  BY <1>1, OriginGrows
<1>3. Content(local'[c]) = {}
  BY ContentEmpty DEF Lands
<1>4. UnmarkedAt(c)' /\ RestorableAt(c)'
  BY <1>3 DEF Lands, TreeAt, UnmarkedAt, RestorableAt
<1>5. Kept(c)'
  BY <1>2, <1>3 DEF Lands, Kept, Standing
<1>6. Grows
  BY <1>1 DEF Grows
<1>7. NothingConflictedPublished'
  BY <1>2 DEF NothingConflictedPublished, TreeAt, UnmarkedAt
<1> QED
  BY <1>4, <1>5, <1>6, <1>7 DEF TreeAt

LEMMA ClearSound ==
    ASSUME NEW c \in Checkouts, Clears(c), TreeAt(c), Kept(c), made'[c] = made[c], BasedAt(c)',
           NothingConflictedPublished
    PROVE  TreeAt(c)' /\ Kept(c)' /\ Grows /\ NothingConflictedPublished'
<1>1. Content(local'[c]) = {}
  BY ContentEmpty DEF Clears
<1>2. UnmarkedAt(c)' /\ RestorableAt(c)'
  BY <1>1 DEF Clears, TreeAt, UnmarkedAt, RestorableAt
<1>3. Kept(c)'
  BY <1>1 DEF Clears, Kept, Standing, OnOrigin
<1> QED
  BY <1>2, <1>3 DEF TreeAt, Grows, Clears, NothingConflictedPublished, OnOrigin

\* Removing personal/ loses nothing when it is forced, or when there was nothing.
LEMMA GoSound ==
    ASSUME NEW c \in Checkouts, NEW forced \in BOOLEAN, Goes(c, forced), TreeAt(c), Kept(c), made'[c] = made[c],
           BasedAt(c)', NothingConflictedPublished,
           ~forced => dirty[c] = {} /\ Content(local[c]) = {}
    PROVE  TreeAt(c)' /\ Kept(c)' /\ Grows /\ NothingConflictedPublished'
<1>1. Content(local'[c]) = {}
  BY ContentEmpty DEF Goes
<1>2. UnmarkedAt(c)' /\ RestorableAt(c)'
  BY <1>1 DEF Goes, TreeAt, UnmarkedAt, RestorableAt
<1>3. Kept(c)'
  BY <1>1 DEF Goes, Kept, Standing, OnOrigin
<1> QED
  BY <1>2, <1>3 DEF TreeAt, Grows, Goes, NothingConflictedPublished, OnOrigin

LEMMA ChangesSound ==
    ASSUME TypeOK, TreeInv, NEW c \in Checkouts, Changes(c), made' = made
    PROVE  TreeInv'
<1>1. TreeTyped /\ TreeAt(c) /\ Kept(c) /\ made'[c] = made[c] /\ made[c] \subseteq Edits /\ BasedAt(c)'
  BY DEF TypeOK, TreeTyped, TreeInv, NothingLost, Kept, Changes
<1>2. NothingConflictedPublished
  BY DEF TreeInv
<1>3. TreeAt(c)' /\ Kept(c)' /\ Grows /\ NothingConflictedPublished'
  <2>1. CASE Same(c)
    <3>1. UnmarkedAt(c)'
      BY <1>1, <2>1 DEF Same, TreeAt, UnmarkedAt
    <3>2. RestorableAt(c)'
      BY <1>1, <2>1 DEF Same, TreeAt, RestorableAt, Tracked, Prefix
    <3>3. Kept(c)'
      BY <1>1, <2>1 DEF Same, Kept, Standing, OnOrigin
    <3> QED
      BY <1>1, <1>2, <2>1, <3>1, <3>2, <3>3 DEF Same, TreeAt, Grows, NothingConflictedPublished, OnOrigin
  <2>2. CASE Gathers(c)
    BY <1>1, <1>2, <2>2, GatherSound
  <2>3. CASE Halts(c)
    BY <1>1, <1>2, <2>3, HaltSound
  <2>4. CASE Returns(c)
    BY <1>1, <1>2, <2>4, ReturnSound
  <2>5. CASE Lands(c)
    BY <1>1, <1>2, <2>5, LandSound
  <2>6. CASE Clears(c)
    BY <1>1, <1>2, <2>6, ClearSound
  <2>7. CASE Goes(c, TRUE)
    BY <1>1, <1>2, <2>7, GoSound
  <2>8. CASE Bare(c) /\ Goes(c, FALSE)
    <3>1. dirty[c] = {} /\ Content(local[c]) = {}
      BY <2>8 DEF Bare
    <3> QED
      BY <1>1, <1>2, <2>8, <3>1, GoSound
  <2> QED
    BY <2>1, <2>2, <2>3, <2>4, <2>5, <2>6, <2>7, <2>8 DEF Changes
<1>4. ASSUME NEW d \in Checkouts PROVE TreeAt(d)' /\ Kept(d)'
  <2>1. CASE d = c
    BY <1>3, <2>1
  <2>2. CASE d # c
    <3>1. /\ base'[d] = base[d] /\ local'[d] = local[d] /\ dirty'[d] = dirty[d]
          /\ fetched'[d] = fetched[d] /\ stopped'[d] = stopped[d] /\ dropped'[d] = dropped[d]
      BY <2>2 DEF Changes, Only
    <3>2. TreeAt(d) /\ Kept(d) /\ made'[d] = made[d]
      BY DEF TreeInv, NothingLost, Kept
    <3> QED
      BY <1>1, <1>3, <3>1, <3>2, StaySound, StayKept
  <2> QED
    BY <2>1, <2>2
<1> QED
  BY <1>3, <1>4 DEF TreeInv, NothingLost, Kept


\* What a request is owed and what lets it remove personal/ survive every kind of change.
LEMMA HeldKept ==
    ASSUME TypeOK, TreeInv, NEW c \in Checkouts, Changes(c), NEW d \in Checkouts, NEW S,
           S \subseteq OnOrigin \union dropped[d] \union Held(d)
    PROVE  S \subseteq OnOrigin' \union dropped'[d] \union Held(d)'
<1>1. TreeTyped /\ RestorableAt(d)
  BY DEF TypeOK, TreeTyped, TreeInv, TreeAt
<1>2. Content(<<>>) = {}
  BY ContentEmpty
<1>3. CASE d # c
  <2>1. local'[d] = local[d] /\ stopped'[d] = stopped[d] /\ dropped'[d] = dropped[d]
    BY <1>3 DEF Changes, Only
  <2>2. OnOrigin \subseteq OnOrigin'
    <3>1. origin' = origin \/ origin' = origin \o local[c]
      BY DEF Changes, Same, Gathers, Halts, Returns, Lands, Clears, Goes
    <3>2. Grows
      BY <1>1, <3>1 DEF Grows, TreeTyped
    <3> QED
      BY <1>1, <3>2, GrownPrefixes DEF TreeTyped
  <2>3. Held(d)' = Held(d)
    BY <2>1 DEF Held
  <2> QED
    BY <2>1, <2>2, <2>3
<1>4. CASE d = c
  <2>1. CASE Same(c)
    BY <1>4, <2>1 DEF Same, Held, OnOrigin
  <2>2. CASE Gathers(c)
    BY <1>4, <2>2 DEF Gathers, Held, OnOrigin
  <2>3. CASE Halts(c)
    BY <1>4, <2>3 DEF Halts, Held, OnOrigin
  <2>4. CASE Returns(c)
    BY <1>1, <1>4, <2>4 DEF Returns, Held, OnOrigin, RestorableAt
  <2>5. CASE Lands(c)
    <3>1. OnOrigin' = OnOrigin \union Content(local[c])
      BY <1>1, <2>5, OriginGrows DEF Lands, TreeTyped
    <3> QED
      BY <1>4, <2>5, <3>1 DEF Lands, Held
  <2>6. CASE Clears(c)
    BY <1>4, <2>6 DEF Clears, Held, OnOrigin
  <2>7. CASE Goes(c, TRUE)
    BY <1>4, <2>7 DEF Goes, Held, OnOrigin
  <2>8. CASE Bare(c) /\ Goes(c, FALSE)
    BY <1>4, <2>8 DEF Goes, Bare, Held, OnOrigin
  <2> QED
    BY <2>1, <2>2, <2>3, <2>4, <2>5, <2>6, <2>7, <2>8 DEF Changes
<1> QED
  BY <1>3, <1>4

LEMMA BareKept ==
    ASSUME TypeOK, TreeInv, NEW c \in Checkouts, Changes(c), NEW d \in Checkouts
    PROVE  /\ OnOrigin \subseteq OnOrigin' /\ dropped[d] \subseteq dropped'[d]
           /\ dirty[d] \subseteq {Markers} => dirty'[d] \subseteq {Markers}
           /\ Bare(d) => Bare(d)'
<1>1. TreeTyped /\ Content(<<>>) = {}
  BY ContentEmpty DEF TypeOK, TreeTyped
<1>2. OnOrigin \subseteq OnOrigin'
  <2>1. origin' = origin \/ origin' = origin \o local[c]
    BY DEF Changes, Same, Gathers, Halts, Returns, Lands, Clears, Goes
  <2>2. Grows
    BY <1>1, <2>1 DEF Grows, TreeTyped
  <2> QED
    BY <1>1, <2>2, GrownPrefixes DEF TreeTyped
<1>3. CASE d # c
  BY <1>2, <1>3 DEF Changes, Only, Bare
<1>4. CASE d = c
  <2>1. dropped[c] \subseteq dropped'[c]
    BY DEF Changes, Same, Gathers, Halts, Returns, Lands, Clears, Goes
  <2>2. dirty[c] \subseteq {Markers} => dirty'[c] \subseteq {Markers}
    BY DEF Changes, Same, Gathers, Halts, Returns, Lands, Clears, Goes, Untracked
  <2>3. ASSUME Bare(c) PROVE Bare(c)'
    BY <1>1, <2>3 DEF Bare, Changes, Same, Gathers, Halts, Returns, Lands, Clears, Goes
  <2> QED
    BY <1>2, <1>4, <2>1, <2>2, <2>3
<1> QED
  BY <1>3, <1>4

-----------------------------------------------------------------------------
(***************************************************************************)
(* The requests after a step of one of them.                               *)
(***************************************************************************)
RequestsOK == Erasable /\ Delivering /\ SaveLands

LEMMA RequestsAfter ==
    ASSUME TypeOK, TreeInv, RequestsOK, NEW k \in Calls, NEW c \in Checkouts, c = call[k].at, Changes(c),
           NEW p \in Steps, NEW r \in Results, Moves(k, p, r),
           \A j \in Calls : j # k => owed'[j] = owed[j],
           p # "inspect",
           p = "syncPush" => dirty'[c] \subseteq {Markers},
           p = "remove" /\ call[k].op # "forceErase" => Bare(c)',
           r = "ok" => p = "done",
           call[k].op = "save" => p \in Underway \union {"commit", "done"},
           call[k].op = "save" /\ p \in Underway => owed'[k] \subseteq OnOrigin' \union dropped'[c] \union Held(c)',
           call[k].op = "save" /\ r = "ok" => owed'[k] \subseteq OnOrigin' \union dropped'[c]
    PROVE  RequestsOK'
<1>1. /\ call'[k].at = c /\ call'[k].op = call[k].op /\ call'[k].pc = p /\ call'[k].res = r
      /\ \A j \in Calls : j # k => call'[j] = call[j]
  BY DEF Moves
<1>2. ASSUME NEW j \in Calls, j # k
      PROVE  /\ call'[j] = call[j] /\ owed'[j] = owed[j]
             /\ call[j].pc # "idle" => call[j].at \in Checkouts
  BY <1>1, <1>2 DEF TypeOK
<1>3. Erasable'
  <2> SUFFICES ASSUME NEW j \in Calls
               PROVE  /\ call'[j].pc = "inspect" => call'[j].op \in {"erase", "forceErase"}
                      /\ call'[j].pc = "syncPush" => dirty'[call'[j].at] \subseteq {Markers}
                      /\ call'[j].pc = "remove" /\ call'[j].op # "forceErase" => Bare(call[j].at)'
    BY DEF Erasable, Busy, Bare
  <2>1. CASE j = k
    BY <1>1, <2>1 DEF Bare
  <2>2. CASE j # k
    <3>1. /\ call[j].pc = "inspect" => call[j].op \in {"erase", "forceErase"}
          /\ call[j].pc = "syncPush" => dirty[call[j].at] \subseteq {Markers}
          /\ call[j].pc = "remove" /\ call[j].op # "forceErase" => Bare(call[j].at)
      BY DEF RequestsOK, Erasable, Busy
    <3>2. ASSUME NEW d \in Checkouts, d = call[j].at
          PROVE  /\ dirty[d] \subseteq {Markers} => dirty'[d] \subseteq {Markers}
                 /\ Bare(d) => Bare(d)'
      BY BareKept
    <3>3. CASE call[j].pc \in {"syncPush", "remove"}
      <4>1. call[j].at \in Checkouts /\ call'[j] = call[j]
        BY <1>2, <2>2, <3>3
      <4> QED
        BY <3>1, <3>2, <4>1 DEF Bare
    <3>4. CASE call[j].pc \notin {"syncPush", "remove"}
      BY <1>2, <2>2, <3>1, <3>4
    <3> QED
      BY <3>3, <3>4
  <2> QED
    BY <2>1, <2>2
<1>4. Delivering'
  <2> SUFFICES ASSUME NEW j \in Calls
               PROVE  /\ call'[j].res = "ok" => call'[j].pc = "done"
                      /\ call'[j].op = "save" => call'[j].pc \in Underway \union {"commit", "done"}
                      /\ call'[j].op = "save" /\ call'[j].pc \in Underway =>
                             owed'[j] \subseteq OnOrigin' \union dropped'[call'[j].at] \union Held(call[j].at)'
    BY DEF Delivering, Busy, Underway, Held
  <2>1. CASE j = k
    BY <1>1, <2>1 DEF Held
  <2>2. CASE j # k
    <3>1. /\ call[j].res = "ok" => call[j].pc = "done"
          /\ call[j].op = "save" => call[j].pc \in Underway \union {"commit", "done"}
          /\ call[j].op = "save" /\ call[j].pc \in Underway =>
                 owed[j] \subseteq OnOrigin \union dropped[call[j].at] \union Held(call[j].at)
      BY DEF RequestsOK, Delivering, Busy
    <3>2. CASE call[j].op = "save" /\ call[j].pc \in Underway
      <4>1. PICK d \in Checkouts : d = call[j].at
        BY <1>2, <2>2, <3>2 DEF Underway
      <4>2. owed[j] \subseteq OnOrigin' \union dropped'[d] \union Held(d)'
        BY <3>1, <3>2, <4>1, HeldKept
      <4>3. call'[j].at = d /\ owed'[j] = owed[j] /\ call'[j] = call[j]
        BY <1>2, <2>2, <4>1
      <4> QED
        BY <3>1, <4>2, <4>3 DEF Held
    <3>3. CASE ~(call[j].op = "save" /\ call[j].pc \in Underway)
      BY <1>2, <2>2, <3>1, <3>3
    <3> QED
      BY <3>2, <3>3
  <2> QED
    BY <2>1, <2>2
<1>5. SaveLands'
  <2> SUFFICES ASSUME NEW j \in Calls, call'[j].op = "save", call'[j].res = "ok"
               PROVE  owed'[j] \subseteq OnOrigin' \union dropped'[call'[j].at]
    BY DEF SaveLands
  <2>1. CASE j = k
    BY <1>1, <2>1
  <2>2. CASE j # k
    <3>1. call'[j] = call[j] /\ owed'[j] = owed[j]
      BY <1>2, <2>2
    <3>2. call[j].pc = "done"
      BY <3>1 DEF RequestsOK, Delivering, Busy
    <3>3. PICK d \in Checkouts : d = call[j].at
      BY <1>2, <2>2, <3>2
    <3>4. owed[j] \subseteq OnOrigin \union dropped[d]
      BY <3>1, <3>3 DEF RequestsOK, SaveLands
    <3>5. OnOrigin \subseteq OnOrigin' /\ dropped[d] \subseteq dropped'[d]
      BY BareKept
    <3> QED
      BY <3>1, <3>3, <3>4, <3>5
  <2> QED
    BY <2>1, <2>2
<1> QED
  BY <1>3, <1>4, <1>5 DEF RequestsOK


LEMMA StepIsAt ==
    ASSUME TypeOK, NEW k \in Calls, Step(k)
    PROVE  call[k].at \in Checkouts
<1>1. call[k].pc # "idle"
  BY DEF Step, Commit, Fetch, Rebase, HoldBack, Push, PushUnanswered, Merge, Unwedge, Reset, Inspect,
         Sync, SyncPush, DeletePersonal, Fail, Busy
<1> QED
  BY <1>1 DEF TypeOK

\* A step of a request starts no other; at most it answers those on its checkout.
Answered(k) ==
    /\ call' \in [Calls -> CallType]
    /\ \A j \in Calls : /\ call'[j].at = call[j].at
                        /\ call'[j].pc # "idle" => call[j].pc # "idle" \/ call[j].at = call[k].at

LEMMA StepCalls ==
    ASSUME TypeOK, NEW k \in Calls, Step(k)
    PROVE  Answered(k)
<1>1. call \in [Calls -> CallType]
  BY DEF TypeOK
<1>2. (\E p, r : Moves(k, p, r)) => Answered(k)
  BY DEF Moves, Answered
<1>3. CASE Fetch(k)
  BY <1>1, <1>2, <1>3, FetchMoves
<1>4. CASE Rebase(k)
  BY <1>1, <1>2, <1>4, RebaseMoves
<1>5. CASE DeletePersonal(k)
  BY <1>1, <1>5, DeleteMoves DEF Answered
<1> QED
  BY <1>1, <1>2, <1>3, <1>4, <1>5, StepMoves DEF Step

\* Types do not depend on who may step between a stop and its abort.
LEMMA StepTrees ==
    ASSUME TypeOK, NEW k \in Calls, Step(k), NEW c \in Checkouts, c = call[k].at
    PROVE  TreeTyped'
<1>1. TreeTyped /\ <<>> \in Seq(Commits) /\ {} \in Commits /\ Content(local[c]) \in Commits /\ Len(origin) \in Nat
  BY ContentEmpty, ContentIs, LenProperties DEF TypeOK, TreeTyped, Commits
<1>2. ASSUME CommitAll(c), UNCHANGED <<origin, base, fetched, stopped, dropped>> PROVE TreeTyped'
  <2>1. Append(local[c], dirty[c]) \in Seq(Commits)
    BY <1>1, ContentAppend DEF TreeTyped
  <2>2. local' \in [Checkouts -> Seq(Commits)] /\ dirty' \in [Checkouts -> Commits]
    <3>1. CASE dirty[c] = {}
      BY <1>1, <1>2, <3>1 DEF CommitAll, TreeTyped
    <3>2. CASE dirty[c] # {}
      <4>1. local' = [local EXCEPT ![c] = Append(local[c], dirty[c])] /\ dirty' = [dirty EXCEPT ![c] = {}]
        BY <1>2, <3>2 DEF CommitAll
      <4>2. local \in [Checkouts -> Seq(Commits)] /\ dirty \in [Checkouts -> Commits]
        BY <1>1 DEF TreeTyped
      <4> QED
        BY <1>1, <2>1, <4>1, <4>2
    <3> QED
      BY <3>1, <3>2
  <2> QED
    BY <1>1, <1>2, <2>2 DEF TreeTyped
<1>3. ASSUME Land(c), UNCHANGED <<dirty, stopped, dropped>> PROVE TreeTyped'
  <2>1. /\ origin' \in Seq(Commits) /\ local[c] \in Seq(Commits) /\ Len(local[c]) \in Nat
    BY <1>1, <1>3, ContentConcat, LenProperties DEF Land, TreeTyped
  <2>2. Len(origin) + Len(local[c]) \in Nat
    BY <1>1, <2>1
  <2> QED
    BY <1>1, <1>3, <2>1, <2>2 DEF Land, TreeTyped
<1>4. ASSUME UNCHANGED <<origin, base, local, dirty, stopped, dropped>>,
             fetched' = fetched \/ fetched' = [fetched EXCEPT ![c] = Len(origin)]
      PROVE  TreeTyped'
  <2>1. fetched' \in [Checkouts -> Nat]
    BY <1>1, <1>4 DEF TreeTyped
  <2> QED
    BY <1>1, <1>4, <2>1 DEF TreeTyped
<1>5. ASSUME PutTree(c, Aborted(c), None), UNCHANGED <<origin, fetched, dropped>> PROVE TreeTyped'
  BY <1>1, <1>5, AbortedIs, Putting DEF Only
<1>6. CASE Commit(k) \/ Sync(k)
  BY <1>2, <1>6 DEF Commit, Sync
<1>7. CASE Push(k) \/ PushUnanswered(k) \/ SyncPush(k)
  <2>1. UNCHANGED <<dirty, stopped, dropped>>
    BY <1>7 DEF Push, PushUnanswered, SyncPush
  <2>2. Land(c) \/ UNCHANGED <<origin, base, fetched, local>>
    BY <1>7 DEF Push, PushUnanswered, SyncPush
  <2> QED
    BY <1>3, <1>4, <2>1, <2>2
<1>8. CASE Fetch(k) \/ Fail(k) \/ \E refreshed \in BOOLEAN : Inspect(k, refreshed)
  BY <1>4, <1>8 DEF Fetch, Fail, Inspect, tree
<1>9. CASE HoldBack(k) \/ Unwedge(k)
  BY <1>5, <1>9 DEF HoldBack, Unwedge
<1>10. CASE Merge(k)
  <2>1. /\ UNCHANGED <<origin, local, dirty, fetched, stopped, dropped>>
        /\ base' = base \/ base' = [base EXCEPT ![c] = fetched[c]]
    BY <1>10 DEF Merge
  <2>2. base' \in [Checkouts -> Nat]
    BY <1>1, <2>1 DEF TreeTyped
  <2> QED
    BY <1>1, <2>1, <2>2 DEF TreeTyped
<1>11. CASE Reset(k)
  <2> DEFINE kept == IF call[k].op = "force" THEN {}
                     ELSE Untracked(dirty[c], Tracked(base[c], local[c])
                                        \union Tracked(fetched[c], <<>>))
  <2>1. kept \in Commits
    BY <1>1 DEF Untracked, TreeTyped, Commits
  <2>2. /\ UNCHANGED <<origin, fetched, stopped>>
        /\ \/ UNCHANGED <<base, local, dirty, dropped>>
           \/ /\ base' = [base EXCEPT ![c] = fetched[c]]
              /\ local' = [local EXCEPT ![c] = <<>>]
              /\ dirty' = [dirty EXCEPT ![c] = kept]
              /\ dropped' = [dropped EXCEPT ![c] =
                               @ \union ((Content(local[c]) \union dirty[c]) \ kept)]
    BY <1>11 DEF Reset
  <2> HIDE DEF kept
  <2>3. (dropped[c] \union ((Content(local[c]) \union dirty[c]) \ kept)) \in Commits
    BY <1>1 DEF TreeTyped, Commits
  <2>4. CASE UNCHANGED <<base, local, dirty, dropped>>
    BY <1>1, <2>2, <2>4 DEF TreeTyped
  <2>5. CASE /\ base' = [base EXCEPT ![c] = fetched[c]]
             /\ local' = [local EXCEPT ![c] = <<>>]
             /\ dirty' = [dirty EXCEPT ![c] = kept]
             /\ dropped' = [dropped EXCEPT ![c] =
                              @ \union ((Content(local[c]) \union dirty[c]) \ kept)]
    BY <1>1, <2>1, <2>2, <2>3, <2>5 DEF TreeTyped
  <2> QED
    BY <2>2, <2>4, <2>5
<1>12. CASE DeletePersonal(k)
  <2>1. /\ base' = [base EXCEPT ![c] = 0] /\ local' = [local EXCEPT ![c] = <<>>]
        /\ dirty' = [dirty EXCEPT ![c] = {}] /\ stopped' = [stopped EXCEPT ![c] = None]
        /\ fetched' = [fetched EXCEPT ![c] = 0] /\ origin' = origin
        /\ \/ dropped' = [dropped EXCEPT ![c] = @ \union dirty[c] \union Content(local[c])]
           \/ dropped' = dropped
    BY <1>12 DEF DeletePersonal, PutTree
  <2>2. (dropped[c] \union dirty[c] \union Content(local[c])) \in Commits
    BY <1>1 DEF TreeTyped, Commits
  <2> QED
    BY <1>1, <2>1, <2>2 DEF TreeTyped
<1>13. CASE Rebase(k)
  <2> DEFINE t == Aborted(c)
             u == Upstream(t.base, fetched[c])
             part == SubSeq(t.local, 1, FirstConflict(t.local, u) - 1)
  <2>1. /\ UNCHANGED <<origin, fetched, dropped>>
        /\ \/ UNCHANGED tree
           \/ PutTree(c, t, None)
           \/ PutTree(c, [t EXCEPT !.base = fetched[c]], None)
           \/ /\ Conflicts(t.local, u) # {}
              /\ PutTree(c, [base |-> fetched[c], local |-> part, dirty |-> t.dirty \union {Markers}],
                         [base |-> t.base, local |-> t.local])
    <3>1. UNCHANGED <<origin, fetched, dropped>>
      BY <1>13 DEF Rebase
    <3>2. fetched[c] = 0 \/ fetched[c] > 0
      BY DEF TypeOK
    <3>3. CASE fetched[c] = 0
      BY <1>13, <3>1, <3>3 DEF Rebase
    <3>4. CASE fetched[c] > 0 /\ Obstructed(t, u)
      BY <1>13, <3>1, <3>4 DEF Rebase
    <3>5. CASE fetched[c] > 0 /\ ~Obstructed(t, u) /\ Conflicts(t.local, u) = {}
      BY <1>13, <3>1, <3>5 DEF Rebase
    <3>6. CASE fetched[c] > 0 /\ ~Obstructed(t, u) /\ Conflicts(t.local, u) # {}
      BY <1>13, <3>1, <3>6 DEF Rebase
    <3> QED
      BY <3>2, <3>3, <3>4, <3>5, <3>6
  <2>2. t.base \in Nat /\ t.local \in Seq(Commits) /\ t.dirty \in Commits
    BY <1>1, AbortedIs
  <2>3. CASE UNCHANGED tree
    BY <1>4, <2>1, <2>3 DEF tree
  <2>4. CASE PutTree(c, t, None)
    BY <1>5, <2>1, <2>4
  <2>5. CASE PutTree(c, [t EXCEPT !.base = fetched[c]], None)
    <3> DEFINE m == [t EXCEPT !.base = fetched[c]]
    <3>1. t = [base |-> t.base, local |-> t.local, dirty |-> t.dirty]
      BY DEF Aborted
    <3>2. m.base = fetched[c] /\ m.local = t.local /\ m.dirty = t.dirty
      BY <3>1
    <3> HIDE DEF m
    <3>3. PutTree(c, m, None) /\ m.base \in Nat /\ m.local \in Seq(Commits) /\ m.dirty \in Commits
      BY <2>2, <2>5, <3>2 DEF m, TypeOK
    <3> QED
      BY <1>1, <2>1, <3>3, Putting DEF Only
  <2>6. CASE /\ Conflicts(t.local, u) # {}
             /\ PutTree(c, [base |-> fetched[c], local |-> part, dirty |-> t.dirty \union {Markers}],
                        [base |-> t.base, local |-> t.local])
    <3> DEFINE m == [base |-> fetched[c], local |-> part, dirty |-> t.dirty \union {Markers}]
               b == [base |-> t.base, local |-> t.local]
    <3>1. FirstConflict(t.local, u) - 1 \in 0..Len(t.local)
      <4>1. FirstConflict(t.local, u) \in 1..Len(t.local)
        BY <2>2, <2>6, FirstConflictIn
      <4> QED
        BY <2>2, <4>1, LenProperties
    <3>2. part \in Seq(Commits)
      BY <2>2, <3>1, ContentFirst
    <3>3. t.dirty \union {Markers} \in Commits
      BY <2>2 DEF Commits
    <3>4. /\ PutTree(c, m, b) /\ b \in Branches \union {None}
          /\ m.base \in Nat /\ m.local \in Seq(Commits) /\ m.dirty \in Commits
      BY <2>2, <2>6, <3>2, <3>3 DEF Branches, TypeOK
    <3> HIDE DEF m, b
    <3> QED
      BY <1>1, <2>1, <3>4, Putting DEF Only
  <2> QED
    BY <2>1, <2>3, <2>4, <2>5, <2>6
<1> QED
  BY <1>6, <1>7, <1>8, <1>9, <1>10, <1>11, <1>12, <1>13 DEF Step

LEMMA StepTyped ==
    ASSUME TypeOK, NEW k \in Calls, Step(k), NEW c \in Checkouts, c = call[k].at
    PROVE  TypeOK' /\ made' = made
<1>1. /\ UNCHANGED <<kind, staging, made>>
      /\ gone' = gone \/ gone' = [gone EXCEPT ![c] = TRUE]
      /\ owed' = owed \/ owed' = [owed EXCEPT ![k] = (dirty[c] \union Content(local[c])) \ {Markers}]
  <2>1. CASE Commit(k)
    BY <2>1 DEF Commit
  <2>2. CASE DeletePersonal(k)
    BY <2>2 DEF DeletePersonal
  <2>3. CASE \/ Fetch(k) \/ Rebase(k) \/ HoldBack(k) \/ Push(k) \/ PushUnanswered(k) \/ Merge(k)
             \/ Unwedge(k) \/ Reset(k) \/ (\E refreshed \in BOOLEAN : Inspect(k, refreshed))
             \/ Sync(k) \/ SyncPush(k) \/ Fail(k)
    BY <2>3 DEF Fetch, Rebase, HoldBack, Push, PushUnanswered, Merge, Unwedge, Reset, Inspect,
                Sync, SyncPush, Fail
  <2> QED
    BY <2>1, <2>2, <2>3 DEF Step
<1>2. TreeTyped'
  BY StepTrees
<1>3. (dirty[c] \union Content(local[c])) \ {Markers} \in Commits
  BY ContentIs DEF TypeOK, Commits
<1>4. owed' \in [Calls -> Commits] /\ gone' \in [Checkouts -> BOOLEAN]
  <2> DEFINE o == (dirty[c] \union Content(local[c])) \ {Markers}
  <2>1. o \in Commits /\ (owed' = owed \/ owed' = [owed EXCEPT ![k] = o])
    BY <1>1, <1>3
  <2> HIDE DEF o
  <2>2. owed' \in [Calls -> Commits]
    BY <2>1 DEF TypeOK
  <2>3. gone' \in [Checkouts -> BOOLEAN]
    BY <1>1 DEF TypeOK
  <2> QED
    BY <2>2, <2>3
<1>5. /\ call' \in [Calls -> CallType]
      /\ \A j \in Calls : /\ call'[j].at = call[j].at
                          /\ call'[j].pc # "idle" => call[j].pc # "idle" \/ call[j].at = call[k].at
  BY StepCalls DEF Answered
<1>6. \A j \in Calls : call'[j].pc # "idle" => call'[j].at \in Checkouts
  BY <1>5 DEF TypeOK
<1> QED
  BY <1>1, <1>2, <1>4, <1>5, <1>6 DEF TypeOK, TreeTyped

\* The writes and the other actions keep the types as well.
LEMMA WriteTyped ==
    ASSUME TypeOK, NEW c \in Checkouts, NEW e \in Edits, NEW commits \in BOOLEAN, Write(c, e, commits)
    PROVE  TypeOK'
<1>1. /\ UNCHANGED <<kind, origin, base, local, fetched, stopped, gone, call, dropped, owed>>
      /\ dirty' = [dirty EXCEPT ![c] = @ \union {e}] /\ made' = [made EXCEPT ![c] = @ \union {e}]
      /\ staging' = [staging EXCEPT ![c] = @ \union {e}] \/ staging' = staging
  BY DEF Write
<1>2. /\ dirty[c] \union {e} \in Commits /\ made[c] \union {e} \in SUBSET Edits
      /\ staging[c] \union {e} \in SUBSET Edits
  BY DEF TypeOK, Commits
<1>3. dirty' \in [Checkouts -> Commits] /\ made' \in [Checkouts -> SUBSET Edits]
  BY <1>1, <1>2 DEF TypeOK
<1>4. staging' \in [Checkouts -> SUBSET Edits]
  BY <1>1, <1>2 DEF TypeOK
<1> QED
  BY <1>1, <1>3, <1>4 DEF TypeOK

LEMMA AutoCommitTyped ==
    ASSUME TypeOK, NEW c \in Checkouts, NEW e \in Edits, AutoCommit(c, e)
    PROVE  TypeOK'
<1> DEFINE w == {e} \intersect dirty[c]
<1>1. /\ UNCHANGED <<kind, origin, base, fetched, stopped, gone, call, made, dropped, owed>>
      /\ staging' = [staging EXCEPT ![c] = @ \ {e}]
      /\ \/ UNCHANGED <<local, dirty>>
         \/ local' = [local EXCEPT ![c] = Append(@, w)] /\ dirty' = [dirty EXCEPT ![c] = @ \ {e}]
  BY DEF AutoCommit
<1>2. w \in Commits /\ dirty[c] \ {e} \in Commits
  BY DEF TypeOK, Commits
<1> HIDE DEF w
<1>3. Append(local[c], w) \in Seq(Commits)
  BY <1>2, ContentAppend DEF TypeOK
<1>4. local' \in [Checkouts -> Seq(Commits)] /\ dirty' \in [Checkouts -> Commits]
  BY <1>1, <1>2, <1>3 DEF TypeOK
<1>5. staging' \in [Checkouts -> SUBSET Edits]
  BY <1>1 DEF TypeOK
<1> QED
  BY <1>1, <1>4, <1>5 DEF TypeOK

LEMMA ElsewhereTyped ==
    ASSUME TypeOK, NEW e \in Edits, Elsewhere(e)
    PROVE  TypeOK'
<1>1. /\ UNCHANGED <<kind, base, local, dirty, stopped, fetched, staging, gone, call, made, dropped, owed>>
      /\ origin' = Append(origin, {e}) /\ {e} \in Commits /\ origin \in Seq(Commits)
  BY DEF Elsewhere, tree, Commits, TypeOK
<1>2. origin' \in Seq(Commits)
  BY <1>1, ContentAppend
<1> QED
  BY <1>1, <1>2 DEF TypeOK

LEMMA StartTyped ==
    ASSUME TypeOK, NEW k \in Calls, NEW c \in Checkouts, NEW op \in NotesOps \union PersonalOps, Start(k, c, op)
    PROVE  TypeOK'
<1>1. /\ UNCHANGED <<kind, origin, base, local, dirty, fetched, stopped, staging, gone, made, dropped>>
      /\ call' = [call EXCEPT ![k] = [at |-> c, op |-> op, pc |-> FirstStep(op), res |-> "none"]]
      /\ owed' = [owed EXCEPT ![k] = IF op = "erase" THEN dirty[c] \union Content(local[c]) ELSE {}]
  BY DEF Start
<1> DEFINE p == FirstStep(op)
<1>2. /\ p \in {"commit", "unwedge", "inspect", "fetch"} /\ p \in Steps
      /\ op = "save" => p = "commit"
      /\ p = "inspect" => op \in {"erase", "forceErase"}
  BY IsStep DEF FirstStep
<1> HIDE DEF p
<1>3. /\ call'[k].at = c /\ call'[k].op = op /\ call'[k].pc = p /\ call'[k].res = "none"
      /\ \A j \in Calls : j # k => call'[j] = call[j] /\ owed'[j] = owed[j]
  BY <1>1 DEF p, TypeOK
<1>4. call' \in [Calls -> CallType]
  <2> DEFINE row == [at |-> c, op |-> op, pc |-> p, res |-> "none"]
  <2>1. row \in CallType
    BY <1>2, IsStep DEF CallType
  <2>2. call' = [call EXCEPT ![k] = row]
    BY <1>1 DEF p
  <2> HIDE DEF row
  <2> QED
    BY <2>1, <2>2 DEF TypeOK
<1>5. owed' \in [Calls -> Commits]
  <2> DEFINE o == IF op = "erase" THEN dirty[c] \union Content(local[c]) ELSE {}
  <2>1. o \in Commits
    BY ContentIs DEF TypeOK, Commits
  <2>2. owed' = [owed EXCEPT ![k] = o]
    BY <1>1
  <2> HIDE DEF o
  <2> QED
    BY <2>1, <2>2 DEF TypeOK
<1>6. TypeOK'
  <2>1. \A j \in Calls : call'[j].pc # "idle" => call'[j].at \in Checkouts
    BY <1>3 DEF TypeOK
  <2> QED
    BY <1>1, <1>4, <1>5, <2>1 DEF TypeOK
<1> QED
  BY <1>6

\* A crash answers every request with an error.
LEMMA CrashCalls ==
    ASSUME TypeOK, Crash
    PROVE  /\ call' \in [Calls -> CallType]
           /\ \A k \in Calls :
                 /\ call'[k].at = call[k].at /\ call'[k].op = call[k].op
                 /\ IF call[k].pc \in {"idle", "done"} THEN call'[k] = call[k]
                    ELSE call'[k].pc = "done" /\ call'[k].res = "error"
<1>2. call \in [Calls -> CallType]
  BY DEF TypeOK
<1> DEFINE row(k) == IF call[k].pc \in {"idle", "done"} THEN call[k]
                     ELSE [call[k] EXCEPT !.pc = "done", !.res = "error"]
<1>3. ASSUME NEW k \in Calls
      PROVE  /\ row(k) \in CallType /\ row(k).at = call[k].at /\ row(k).op = call[k].op
             /\ IF call[k].pc \in {"idle", "done"} THEN row(k) = call[k]
                ELSE row(k).pc = "done" /\ row(k).res = "error"
  <2>1. call[k] \in CallType
    BY <1>2
  <2>2. CASE call[k].pc \in {"idle", "done"}
    BY <2>1, <2>2
  <2>3. CASE call[k].pc \notin {"idle", "done"}
    BY <2>1, <2>3, IsStep DEF CallType
  <2> QED
    BY <2>2, <2>3
<1>4. call' = [k \in Calls |-> row(k)]
  BY DEF Crash
<1> HIDE DEF row
<1>5. call' \in [Calls -> CallType] /\ \A k \in Calls : call'[k] = row(k)
  BY <1>3, <1>4
<1> QED
  BY <1>3, <1>5

LEMMA CrashTyped ==
    ASSUME TypeOK, Crash
    PROVE  TypeOK'
<1>1. /\ UNCHANGED <<kind, origin, base, local, dirty, stopped, fetched, gone, made, dropped, owed>>
      /\ staging' = [c \in Checkouts |-> {}]
  BY DEF Crash, tree
<1>2. \A k \in Calls : call'[k].pc # "idle" => call'[k].at \in Checkouts
  BY CrashCalls DEF TypeOK
<1> QED
  BY <1>1, <1>2, CrashCalls DEF TypeOK

LEMMA InitTyped == Init => TypeOK
<1> SUFFICES ASSUME Init PROVE TypeOK
  OBVIOUS
<1>1. <<>> \in Seq(Commits) /\ Len(<<>>) = 0 /\ Content(<<>>) = {} /\ {} \in Commits
  BY ContentEmpty DEF Commits
<1>2. call \in [Calls -> CallType]
  <2>1. None \in Checkouts \union {None} /\ "idle" \in Steps /\ "none" \in Results
    BY IsStep
  <2> QED
    BY <2>1 DEF Init, CallType
<1>3. TypeOK
  BY <1>1, <1>2 DEF TypeOK, Init
<1> QED
  BY <1>3

\* Whatever the branches, requests, failures and crashes, the state stays well typed.
THEOREM TypeCorrect == Spec => []TypeOK
<1>1. Init => TypeOK
  BY InitTyped
<1>2. TypeOK /\ [Next]_vars => TypeOK'
  <2> SUFFICES ASSUME TypeOK, [Next]_vars PROVE TypeOK'
    OBVIOUS
  <2>1. CASE \E k \in Calls : Step(k)
    BY <2>1, StepIsAt, StepTyped
  <2>2. CASE UNCHANGED vars
    BY <2>2 DEF vars, TypeOK
  <2> QED
    BY <2>1, <2>2, WriteTyped, AutoCommitTyped, ElsewhereTyped, StartTyped, CrashTyped DEF Next
<1> QED
  BY <1>1, <1>2, PTL DEF Spec

\* Every step of a request keeps what the requests rely on.
LEMMA StepRequests ==
    ASSUME ~Exposed, TypeOK, TreeInv, RequestsOK, NEW k \in Calls, Step(k), NEW c \in Checkouts, c = call[k].at,
           Changes(c)
    PROVE  RequestsOK'
<1>1. /\ call \in [Calls -> CallType] /\ TreeTyped /\ BasedAt(c) /\ UnmarkedAt(c)
      /\ call[k].pc \in Steps /\ call[k].res \in Results
  BY DEF TypeOK, TreeTyped, TreeInv, TreeAt, CallType
<1>2. /\ call[k].res = "ok" => call[k].pc = "done"
      /\ call[k].op = "save" => call[k].pc \in Underway \union {"commit", "done"}
      /\ call[k].op = "save" /\ call[k].pc \in Underway =>
             owed[k] \subseteq OnOrigin' \union dropped'[c] \union Held(c)'
  <2>1. call[k].op = "save" /\ call[k].pc \in Underway =>
             owed[k] \subseteq OnOrigin \union dropped[c] \union Held(c)
    BY DEF RequestsOK, Delivering, Busy
  <2>2. call[k].op = "save" /\ call[k].pc \in Underway =>
             owed[k] \subseteq OnOrigin' \union dropped'[c] \union Held(c)'
    BY <2>1, HeldKept
  <2> QED
    BY <2>2 DEF RequestsOK, Delivering, Busy
<1>3. ASSUME NEW p \in Steps \ {"inspect", "syncPush", "remove"}, NEW r \in Results, Moves(k, p, r), owed' = owed,
             r = "ok" => p = "done" /\ call[k].op # "save",
             call[k].op = "save" => call[k].pc \in Underway /\ p \in Underway \union {"done"}
      PROVE  RequestsOK'
  BY <1>2, <1>3, RequestsAfter
<1>4. CASE Commit(k)
  <2>1. Moves(k, "fetch", call[k].res) /\ call[k].pc = "commit"
    BY <1>1, <1>4, StepMoves DEF Commit, Busy
  <2>2. /\ stopped[c] = None /\ CommitAll(c) /\ UNCHANGED <<origin, base, fetched, stopped, dropped>>
        /\ owed' = [owed EXCEPT ![k] = (dirty[c] \union Content(local[c])) \ {Markers}]
    BY <1>4 DEF Commit, Closed
  <2>3. Gathers(c) /\ dirty'[c] = {}
    BY <1>1, <2>2, Gathering
  <2>4. /\ owed'[k] = (dirty[c] \union Content(local[c])) \ {Markers}
        /\ \A j \in Calls : j # k => owed'[j] = owed[j]
    BY <2>2 DEF TypeOK
  <2>5. owed'[k] \subseteq Held(c)'
    BY <2>3, <2>4 DEF Gathers, Held
  <2>6. "fetch" \in Steps /\ call[k].res # "ok" /\ "fetch" \in Underway
    BY <1>2, <2>1, IsStep DEF Underway
  <2> QED
    BY <1>1, <2>1, <2>4, <2>5, <2>6, RequestsAfter
<1>5. CASE Fetch(k)
  <2>1. call[k].pc = "fetch" /\ owed' = owed
    BY <1>5 DEF Fetch, Busy
  <2>2. PICK r \in Results : /\ Moves(k, AfterFetch(call[k].op), r)
                             /\ r = IF call[k].op = "behind" THEN "ok" ELSE call[k].res
    BY <1>1, <1>5, FetchMoves
  <2> DEFINE p == AfterFetch(call[k].op)
  <2>3. /\ p \in {"rebase", "merge", "done", "reset"} /\ p \in Steps
        /\ call[k].op = "save" => p = "rebase"
        /\ call[k].op = "behind" => p = "done"
    BY AfterFetchIs, IsStep
  <2> HIDE DEF p
  <2>4. Moves(k, p, r) /\ (r = "ok" => p = "done" /\ call[k].op # "save")
    BY <1>2, <2>1, <2>2, <2>3 DEF p
  <2> QED
    BY <1>3, <2>1, <2>3, <2>4 DEF Underway
<1>6. CASE Rebase(k)
  <2>1. call[k].pc = "rebase" /\ owed' = owed
    BY <1>6 DEF Rebase, Busy
  <2>2. PICK p \in {"push", "done", "stopped"}, r \in Results :
               /\ Moves(k, p, r)
               /\ r = "ok" => r = call[k].res \/ (p = "done" /\ call[k].op # "save")
    BY <1>1, <1>6, RebaseMoves
  <2> QED
    BY <1>2, <1>3, <2>1, <2>2, IsStep DEF Underway
<1>7. CASE HoldBack(k)
  <2>1. Busy(k, "stopped") /\ owed' = owed
    BY <1>7 DEF HoldBack
  <2>2. Moves(k, "done", "conflict") \/ Moves(k, "done", "error")
    BY <1>1, <1>7, StepMoves
  <2> QED
    BY <1>3, <2>1, <2>2, IsStep DEF Underway, Busy
<1>8. CASE Push(k)
  <2>1. Busy(k, "push") /\ owed' = owed /\ stopped[c] = None
    BY <1>8 DEF Push, Closed
  <2>2. CASE Land(c) /\ Answer(k, "ok")
    <3>1. Moves(k, "done", "ok")
      BY <1>1, <2>2, AnswerMoves, IsStep
    <3>2. Lands(c)
      <4>1. UNCHANGED <<dirty, stopped, dropped>>
        BY <1>8 DEF Push
      <4> QED
        BY <1>1, <2>1, <2>2, <4>1, Landing
    <3>3. Held(c)' = {}
      BY <3>2, ContentEmpty DEF Lands, Held
    <3>4. call[k].op = "save" => owed'[k] \subseteq OnOrigin' \union dropped'[c]
      BY <1>2, <2>1, <3>3 DEF Busy, Underway
    <3>5. "done" \notin Underway
      BY DEF Underway
    <3> QED
      BY <1>1, <2>1, <3>1, <3>4, <3>5, IsStep, RequestsAfter
  <2>3. CASE ~(Land(c) /\ Answer(k, "ok"))
    <3>1. Answer(k, "needsPull")
      BY <1>8, <2>3 DEF Push
    <3>2. Moves(k, "done", "needsPull")
      BY <1>1, <3>1, AnswerMoves, IsStep
    <3> QED
      BY <1>3, <2>1, <3>2, IsStep DEF Underway, Busy
  <2> QED
    BY <2>2, <2>3
<1>9. CASE PushUnanswered(k)
  <2>1. Busy(k, "push") /\ owed' = owed
    BY <1>9 DEF PushUnanswered
  <2>2. Moves(k, "done", "needsPull")
    BY <1>1, <1>9, StepMoves
  <2> QED
    BY <1>3, <2>1, <2>2, IsStep DEF Underway, Busy
<1>10. CASE Merge(k)
  <2>1. call[k].pc = "merge" /\ owed' = owed
    BY <1>10 DEF Merge, Busy
  <2>2. Moves(k, "done", "diverged") \/ Moves(k, "done", "ok")
    BY <1>1, <1>10, StepMoves
  <2> QED
    BY <1>2, <1>3, <2>1, <2>2, IsStep DEF Underway
<1>11. CASE Unwedge(k)
  <2>1. call[k].pc = "unwedge" /\ owed' = owed
    BY <1>11 DEF Unwedge, Busy
  <2>2. Moves(k, "fetch", call[k].res)
    BY <1>1, <1>11, StepMoves
  <2> QED
    BY <1>1, <1>2, <1>3, <2>1, <2>2, IsStep DEF Underway
<1>12. CASE Reset(k)
  <2>1. call[k].pc = "reset" /\ owed' = owed
    BY <1>12 DEF Reset, Busy
  <2>2. Moves(k, "done", "error") \/ Moves(k, "done", "ok")
    BY <1>1, <1>12, StepMoves
  <2> QED
    BY <1>2, <1>3, <2>1, <2>2, IsStep DEF Underway
<1>13. CASE \E refreshed \in BOOLEAN : Inspect(k, refreshed)
  <2>1. PICK refreshed \in BOOLEAN : Inspect(k, refreshed)
    BY <1>13
  <2>2. /\ call[k].pc = "inspect" /\ owed' = owed /\ stopped[c] = None
        /\ UNCHANGED <<local, dirty, stopped>>
    BY <2>1 DEF Inspect, Busy, Closed, tree
  <2>3. call[k].op \in {"erase", "forceErase"} /\ call[k].res # "ok"
    BY <1>2, <2>2 DEF RequestsOK, Erasable, Busy
  <2>4. CASE call[k].op = "erase" /\ (dirty[c] # {} \/ local[c] # <<>>)
    <3>1. Go(k, "sync")
      BY <2>1, <2>4 DEF Inspect
    <3>2. Moves(k, "sync", call[k].res)
      BY <1>1, <3>1, GoMoves, IsStep
    <3> QED
      BY <1>1, <1>3, <2>2, <2>3, <3>2, IsStep
  <2>5. CASE ~(call[k].op = "erase" /\ (dirty[c] # {} \/ local[c] # <<>>))
    <3>1. Go(k, "remove")
      BY <2>1, <2>5 DEF Inspect
    <3>2. Moves(k, "remove", call[k].res)
      BY <1>1, <3>1, GoMoves, IsStep
    <3>3. call[k].op # "forceErase" => Bare(c)'
      <4>1. call[k].op # "forceErase" => dirty[c] = {} /\ local[c] = <<>>
        BY <2>3, <2>5
      <4> QED
        BY <2>2, <4>1, ContentEmpty DEF Bare
    <3> QED
      BY <1>1, <2>2, <2>3, <3>2, <3>3, IsStep, RequestsAfter
  <2> QED
    BY <2>4, <2>5
<1>14. CASE Sync(k)
  <2>1. /\ call[k].pc = "sync" /\ owed' = owed /\ stopped[c] = None /\ CommitAll(c)
        /\ UNCHANGED <<origin, base, fetched, stopped, dropped>>
    BY <1>14 DEF Sync, Busy, Closed
  <2>2. Moves(k, "syncPush", call[k].res)
    BY <1>1, <1>14, StepMoves
  <2>3. dirty'[c] = {}
    BY <1>1, <2>1, Gathering
  <2>4. call[k].op # "save" /\ call[k].res # "ok"
    BY <1>2, <2>1 DEF Underway
  <2> QED
    BY <1>1, <2>1, <2>2, <2>3, <2>4, IsStep, RequestsAfter
<1>15. CASE SyncPush(k)
  <2>1. /\ call[k].pc = "syncPush" /\ owed' = owed /\ stopped[c] = None
        /\ UNCHANGED <<dirty, stopped, dropped>>
    BY <1>15 DEF SyncPush, Busy, Closed
  <2>2. call[k].op # "save" /\ call[k].res # "ok"
    BY <1>2, <2>1 DEF Underway
  <2>3. CASE Land(c) /\ Go(k, "remove")
    <3>1. Moves(k, "remove", call[k].res)
      BY <1>1, <2>3, GoMoves, IsStep
    <3>2. local'[c] = <<>>
      BY <2>3 DEF Land, TypeOK
    <3>3. dirty[c] = {}
      <4>1. dirty[c] \subseteq {Markers}
        BY <2>1 DEF RequestsOK, Erasable, Busy
      <4> QED
        BY <1>1, <2>1, <4>1 DEF UnmarkedAt
    <3>4. Bare(c)'
      BY <2>1, <3>2, <3>3, ContentEmpty DEF Bare
    <3> QED
      BY <1>1, <2>1, <2>2, <3>1, <3>4, IsStep, RequestsAfter
  <2>4. CASE ~(Land(c) /\ Go(k, "remove"))
    <3>1. Answer(k, "error")
      BY <1>15, <2>4 DEF SyncPush
    <3>2. Moves(k, "done", "error")
      BY <1>1, <3>1, AnswerMoves, IsStep
    <3> QED
      BY <1>3, <2>1, <2>2, <3>2, IsStep
  <2> QED
    BY <2>3, <2>4
<1>16. CASE Fail(k)
  <2>1. owed' = owed
    BY <1>16 DEF Fail
  <2>2. Moves(k, "done", "error")
    BY <1>1, <1>16, StepMoves
  <2>3. "done" \notin Underway
    BY DEF Underway
  <2> QED
    BY <1>1, <2>1, <2>2, <2>3, IsStep, RequestsAfter
<1>17. CASE DeletePersonal(k)
  <2>1. Busy(k, "remove") /\ owed' = owed
    BY <1>17 DEF DeletePersonal
  <2>2. call[k].op # "save"
    BY <1>2, <2>1 DEF Busy, Underway
  <2>3. \A j \in Calls :
                 /\ call'[j].at = call[j].at /\ call'[j].op = call[j].op
                 /\ IF j = k THEN call'[j].pc = "done"
                    ELSE IF call[j].at = call[k].at /\ call[j].pc # "done"
                         THEN call'[j].pc = "done" /\ call'[j].res = "error" ELSE call'[j] = call[j]
    BY <1>1, <1>17, DeleteMoves
  <2>4. ASSUME NEW j \in Calls, call'[j].pc # "done"
        PROVE  call'[j] = call[j] /\ (call[j].pc # "idle" => call[j].at \in Checkouts \ {c})
    BY <2>3, <2>4 DEF TypeOK
  <2>5. ASSUME NEW d \in Checkouts
        PROVE  /\ dirty[d] \subseteq {Markers} => dirty'[d] \subseteq {Markers}
               /\ Bare(d) => Bare(d)'
               /\ OnOrigin \subseteq OnOrigin' /\ dropped[d] \subseteq dropped'[d]
    BY BareKept
  <2>6. Erasable'
    <3> SUFFICES ASSUME NEW j \in Calls
                 PROVE  /\ call'[j].pc = "inspect" => call'[j].op \in {"erase", "forceErase"}
                        /\ call'[j].pc = "syncPush" => dirty'[call'[j].at] \subseteq {Markers}
                        /\ call'[j].pc = "remove" /\ call'[j].op # "forceErase" => Bare(call[j].at)'
      BY DEF Erasable, Busy, Bare
    <3>1. CASE call'[j].pc = "done"
      BY <3>1
    <3>2. CASE call'[j].pc = "idle"
      BY <3>2
    <3>3. CASE call'[j].pc \notin {"done", "idle"}
      <4>1. PICK d \in Checkouts : d = call[j].at /\ call'[j] = call[j]
        BY <2>4, <3>3
      <4>2. /\ call[j].pc = "inspect" => call[j].op \in {"erase", "forceErase"}
            /\ call[j].pc = "syncPush" => dirty[d] \subseteq {Markers}
            /\ call[j].pc = "remove" /\ call[j].op # "forceErase" => Bare(d)
        BY <4>1 DEF RequestsOK, Erasable, Busy
      <4> QED
        BY <2>5, <4>1, <4>2 DEF Bare
    <3> QED
      BY <3>1, <3>2, <3>3
  <2>7. Delivering'
    <3> SUFFICES ASSUME NEW j \in Calls
                 PROVE  /\ call'[j].res = "ok" => call'[j].pc = "done"
                        /\ call'[j].op = "save" => call'[j].pc \in Underway \union {"commit", "done"}
                        /\ call'[j].op = "save" /\ call'[j].pc \in Underway =>
                               owed'[j] \subseteq OnOrigin' \union dropped'[call'[j].at] \union Held(call[j].at)'
      BY DEF Delivering, Busy, Underway, Held
    <3>1. CASE call'[j].pc = "done"
      BY <3>1 DEF Underway
    <3>2. CASE call'[j].pc # "done"
      <4>1. /\ call'[j] = call[j]
            /\ call[j].res = "ok" => call[j].pc = "done"
            /\ call[j].op = "save" => call[j].pc \in Underway \union {"commit", "done"}
            /\ call[j].op = "save" /\ call[j].pc \in Underway =>
                   owed[j] \subseteq OnOrigin \union dropped[call[j].at] \union Held(call[j].at)
        BY <2>4, <3>2 DEF RequestsOK, Delivering, Busy
      <4>2. CASE call[j].op = "save" /\ call[j].pc \in Underway
        <5>1. PICK d \in Checkouts : d = call[j].at
          BY <2>4, <3>2, <4>2 DEF Underway
        <5>2. owed[j] \subseteq OnOrigin' \union dropped'[d] \union Held(d)'
          BY <4>1, <4>2, <5>1, HeldKept
        <5> QED
          BY <2>1, <4>1, <5>1, <5>2 DEF Held
      <4>3. CASE ~(call[j].op = "save" /\ call[j].pc \in Underway)
        BY <4>1, <4>3
      <4> QED
        BY <4>2, <4>3
    <3> QED
      BY <3>1, <3>2
  <2>8. SaveLands'
    <3> SUFFICES ASSUME NEW j \in Calls, call'[j].op = "save", call'[j].res = "ok"
                 PROVE  owed'[j] \subseteq OnOrigin' \union dropped'[call'[j].at]
      BY DEF SaveLands
    <3>1. call'[j] = call[j]
      BY <2>2, <2>3
    <3>2. call[j].pc = "done"
      BY <3>1 DEF RequestsOK, Delivering, Busy
    <3>3. PICK d \in Checkouts : d = call[j].at
      BY <3>2 DEF TypeOK
    <3>4. owed[j] \subseteq OnOrigin \union dropped[d]
      BY <3>1, <3>3 DEF RequestsOK, SaveLands
    <3> QED
      BY <2>1, <2>5, <3>1, <3>3, <3>4
  <2> QED
    BY <2>6, <2>7, <2>8 DEF RequestsOK
<1> QED
  BY <1>4, <1>5, <1>6, <1>7, <1>8, <1>9, <1>10, <1>11, <1>12, <1>13, <1>14, <1>15, <1>16, <1>17 DEF Step


-----------------------------------------------------------------------------
(***************************************************************************)
(* The invariant holds at first and is kept by every step.                 *)
(***************************************************************************)
GitInv == TypeOK /\ TreeInv /\ RequestsOK

LEMMA InitInv ==
    ASSUME Init
    PROVE  GitInv
<1>1. Content(<<>>) = {} /\ Len(<<>>) = 0
  BY ContentEmpty
<1>3. TypeOK
  BY InitTyped
<1>4. TreeInv
  <2>1. OnOrigin = {}
    BY <1>1 DEF Init, OnOrigin
  <2>2. ASSUME NEW c \in Checkouts PROVE TreeAt(c)
    BY <1>1 DEF Init, TreeAt, BasedAt, UnmarkedAt, RestorableAt
  <2> QED
    BY <2>1, <2>2 DEF TreeInv, NothingLost, NothingConflictedPublished, Init
<1>5. RequestsOK
  BY DEF Init, RequestsOK, Erasable, Delivering, SaveLands, Busy, Underway
<1> QED
  BY <1>3, <1>4, <1>5 DEF GitInv

\* A write puts the edit in the working tree; the rest stays.
LEMMA WriteInv ==
    ASSUME ~Exposed, GitInv, NEW c \in Checkouts, NEW e \in Edits, NEW commits \in BOOLEAN, Write(c, e, commits)
    PROVE  GitInv'
<1>1. stopped[c] = None /\ ~Deleting(c) /\ e # Markers
  BY GitSyncAssumption DEF Write, MayWrite
<1>2. /\ UNCHANGED <<kind, origin, base, local, fetched, stopped, gone, call, dropped, owed>>
      /\ dirty' = [dirty EXCEPT ![c] = @ \union {e}] /\ made' = [made EXCEPT ![c] = @ \union {e}]
      /\ staging' = [staging EXCEPT ![c] = @ \union {e}] \/ staging' = staging
  BY DEF Write
<1>3. TypeOK'
  BY WriteTyped DEF GitInv
<1>4. /\ dirty'[c] = dirty[c] \union {e} /\ made'[c] = made[c] \union {e}
      /\ \A d \in Checkouts \ {c} : dirty'[d] = dirty[d] /\ made'[d] = made[d]
  BY <1>2 DEF GitInv, TypeOK
<1>5. TreeInv'
  <2>1. ASSUME NEW d \in Checkouts PROVE TreeAt(d)'
    <3>1. TreeAt(d)
      BY DEF GitInv, TreeInv
    <3>2. BasedAt(d)'
      BY <1>2, <3>1 DEF TreeAt, BasedAt
    <3>3. CASE d = c
      BY <1>1, <1>2, <1>4, <3>1, <3>2, <3>3 DEF TreeAt, UnmarkedAt, RestorableAt
    <3>4. CASE d # c
      BY <1>2, <1>4, <3>1, <3>2, <3>4 DEF TreeAt, UnmarkedAt, RestorableAt, Tracked, Prefix
    <3> QED
      BY <3>3, <3>4
  <2>2. ASSUME NEW d \in Checkouts PROVE made'[d] \subseteq OnOrigin' \union Standing(d)' \union dropped'[d]
    <3>1. made[d] \subseteq OnOrigin \union Standing(d) \union dropped[d]
      BY DEF GitInv, TreeInv, NothingLost
    <3>2. CASE d = c
      BY <1>2, <1>4, <3>1, <3>2 DEF Standing, OnOrigin
    <3>3. CASE d # c
      BY <1>2, <1>4, <3>1, <3>3 DEF Standing, OnOrigin
    <3> QED
      BY <3>2, <3>3
  <2> QED
    BY <1>2, <2>1, <2>2 DEF GitInv, TreeInv, NothingLost, NothingConflictedPublished, OnOrigin
<1>6. Erasable'
  <2>1. ASSUME NEW k \in Calls, call[k].pc \in {"syncPush", "remove"}
        PROVE  call[k].at \in Checkouts \ {c}
    BY <1>1, <2>1 DEF Deleting, GitInv, TypeOK
  <2>2. ASSUME NEW k \in Calls
        PROVE  /\ call[k].pc = "inspect" => call[k].op \in {"erase", "forceErase"}
               /\ call[k].pc = "syncPush" => dirty'[call[k].at] \subseteq {Markers}
               /\ call[k].pc = "remove" /\ call[k].op # "forceErase" =>
                      dirty'[call[k].at] = {} /\ Content(local[call[k].at]) = {} /\ stopped[call[k].at] = None
    <3>1. /\ call[k].pc = "inspect" => call[k].op \in {"erase", "forceErase"}
          /\ call[k].pc = "syncPush" => dirty[call[k].at] \subseteq {Markers}
          /\ call[k].pc = "remove" /\ call[k].op # "forceErase" =>
                      dirty[call[k].at] = {} /\ Content(local[call[k].at]) = {} /\ stopped[call[k].at] = None
      BY DEF GitInv, RequestsOK, Erasable, Busy, Bare
    <3> QED
      BY <1>4, <2>1, <3>1
  <2> QED
    BY <1>2, <2>2 DEF Erasable, Busy, Bare
<1>7. Delivering' /\ SaveLands'
  BY <1>2 DEF GitInv, RequestsOK, Delivering, SaveLands, Busy, OnOrigin, Held
<1> QED
  BY <1>3, <1>5, <1>6, <1>7 DEF GitInv, RequestsOK

\* A change of a checkout that no request makes.
LEMMA QuietRequests ==
    ASSUME TypeOK, TreeInv, RequestsOK, NEW c \in Checkouts, Changes(c), UNCHANGED <<call, owed>>
    PROVE  RequestsOK'
<1>1. ASSUME NEW d \in Checkouts
      PROVE  /\ dirty[d] \subseteq {Markers} => dirty'[d] \subseteq {Markers}
             /\ Bare(d) => Bare(d)'
             /\ OnOrigin \subseteq OnOrigin' /\ dropped[d] \subseteq dropped'[d]
  BY BareKept
<1>2. ASSUME NEW j \in Calls, call[j].pc # "idle" PROVE call[j].at \in Checkouts
  BY <1>2 DEF TypeOK
<1>3. Erasable'
  <2> SUFFICES ASSUME NEW j \in Calls
               PROVE  /\ call[j].pc = "inspect" => call[j].op \in {"erase", "forceErase"}
                      /\ call[j].pc = "syncPush" => dirty'[call[j].at] \subseteq {Markers}
                      /\ call[j].pc = "remove" /\ call[j].op # "forceErase" => Bare(call[j].at)'
    BY DEF Erasable, Busy, Bare
  <2>1. /\ call[j].pc = "inspect" => call[j].op \in {"erase", "forceErase"}
        /\ call[j].pc = "syncPush" => dirty[call[j].at] \subseteq {Markers}
        /\ call[j].pc = "remove" /\ call[j].op # "forceErase" => Bare(call[j].at)
    BY DEF RequestsOK, Erasable, Busy
  <2>2. CASE call[j].pc \in {"syncPush", "remove"}
    <3>1. PICK d \in Checkouts : d = call[j].at
      BY <1>2, <2>2
    <3> QED
      BY <1>1, <2>1, <3>1 DEF Bare
  <2>3. CASE call[j].pc \notin {"syncPush", "remove"}
    BY <2>1, <2>3
  <2> QED
    BY <2>2, <2>3
<1>4. Delivering'
  <2> SUFFICES ASSUME NEW j \in Calls, call[j].op = "save", call[j].pc \in Underway
               PROVE  owed[j] \subseteq OnOrigin' \union dropped'[call[j].at] \union Held(call[j].at)'
    BY DEF RequestsOK, Delivering, Busy, Held
  <2>1. PICK d \in Checkouts : d = call[j].at
    BY <1>2 DEF Underway
  <2>2. owed[j] \subseteq OnOrigin \union dropped[d] \union Held(d)
    BY <2>1 DEF RequestsOK, Delivering
  <2>3. owed[j] \subseteq OnOrigin' \union dropped'[d] \union Held(d)'
    BY <2>2, HeldKept
  <2> QED
    BY <2>1, <2>3 DEF Held
<1>5. SaveLands'
  <2> SUFFICES ASSUME NEW j \in Calls, call[j].op = "save", call[j].res = "ok"
               PROVE  owed[j] \subseteq OnOrigin' \union dropped'[call[j].at]
    BY DEF SaveLands
  <2>1. call[j].pc = "done"
    BY DEF RequestsOK, Delivering, Busy
  <2>2. PICK d \in Checkouts : d = call[j].at
    BY <1>2, <2>1
  <2>3. owed[j] \subseteq OnOrigin \union dropped[d]
    BY <2>2 DEF RequestsOK, SaveLands
  <2> QED
    BY <1>1, <2>2, <2>3
<1> QED
  BY <1>3, <1>4, <1>5 DEF RequestsOK

LEMMA AutoCommitInv ==
    ASSUME ~Exposed, GitInv, NEW c \in Checkouts, NEW e \in Edits, AutoCommit(c, e)
    PROVE  GitInv'
<1>1. TreeTyped /\ BasedAt(c)
  BY DEF GitInv, TypeOK, TreeTyped, TreeInv, TreeAt
<1>2. Changes(c)
  BY <1>1, AutoCommitGathers DEF Changes
<1>3. /\ UNCHANGED <<kind, gone, call, made, owed>> /\ staging' = [staging EXCEPT ![c] = @ \ {e}]
  BY DEF AutoCommit
<1>4. TypeOK'
  BY AutoCommitTyped DEF GitInv
<1>5. TreeInv'
  BY <1>2, <1>3, ChangesSound DEF GitInv
<1>6. RequestsOK'
  BY <1>2, <1>3, QuietRequests DEF GitInv
<1> QED
  BY <1>4, <1>5, <1>6 DEF GitInv

LEMMA ElsewhereInv ==
    ASSUME GitInv, NEW e \in Edits, Elsewhere(e)
    PROVE  GitInv'
<1>1. /\ UNCHANGED <<kind, base, local, dirty, stopped, fetched, staging, gone, call, made, dropped, owed>>
      /\ origin' = Append(origin, {e}) /\ {e} \in Commits /\ origin \in Seq(Commits) /\ TreeTyped
  BY DEF Elsewhere, tree, Commits, GitInv, TypeOK, TreeTyped
<1>2. origin' = origin \o <<{e}>> /\ <<{e}>> \in Seq(Commits) /\ Content(<<{e}>>) = {e}
  BY <1>1, ContentAppend
<1>3. Grows
  BY <1>2 DEF Grows
<1>4. origin' \in Seq(Commits) /\ OnOrigin' = OnOrigin \union {e}
  BY <1>1, <1>2, OriginGrows
<1>5. TypeOK'
  BY ElsewhereTyped DEF GitInv
<1>6. TreeInv'
  <2>1. ASSUME NEW c \in Checkouts PROVE TreeAt(c)' /\ Kept(c)'
    <3>1. TreeAt(c) /\ Kept(c)
      BY DEF GitInv, TreeInv, NothingLost, Kept
    <3> QED
      BY <1>1, <1>3, <3>1, StaySound, StayKept
  <2>2. NothingConflictedPublished'
    BY <1>4, GitSyncAssumption DEF GitInv, TreeInv, NothingConflictedPublished
  <2> QED
    BY <2>1, <2>2 DEF TreeInv, NothingLost, Kept
<1>7. Erasable'
  BY <1>1 DEF GitInv, RequestsOK, Erasable, Busy, Bare
<1>8. Delivering'
  BY <1>1, <1>4 DEF GitInv, RequestsOK, Delivering, Busy, Held
<1>9. SaveLands'
  BY <1>1, <1>4 DEF GitInv, RequestsOK, SaveLands
<1> QED
  BY <1>5, <1>6, <1>7, <1>8, <1>9 DEF GitInv, RequestsOK

\* Requests come and die without touching the repositories.
LEMMA TreesStay ==
    ASSUME GitInv, UNCHANGED <<origin, base, local, dirty, fetched, stopped, made, dropped>>
    PROVE  TreeInv'
  BY DEF GitInv, TreeInv, TreeAt, BasedAt, UnmarkedAt, RestorableAt, Tracked, Prefix, NothingLost,
         NothingConflictedPublished, OnOrigin, Standing

LEMMA StartInv ==
    ASSUME GitInv, NEW k \in Calls, NEW c \in Checkouts, NEW op \in NotesOps \union PersonalOps, Start(k, c, op)
    PROVE  GitInv'
<1>1. /\ UNCHANGED <<kind, origin, base, local, dirty, fetched, stopped, staging, gone, made, dropped>>
      /\ call' = [call EXCEPT ![k] = [at |-> c, op |-> op, pc |-> FirstStep(op), res |-> "none"]]
      /\ owed' = [owed EXCEPT ![k] = IF op = "erase" THEN dirty[c] \union Content(local[c]) ELSE {}]
  BY DEF Start
<1> DEFINE p == FirstStep(op)
<1>2. /\ p \in {"commit", "unwedge", "inspect", "fetch"} /\ p \in Steps
      /\ op = "save" => p = "commit"
      /\ p = "inspect" => op \in {"erase", "forceErase"}
  BY IsStep DEF FirstStep
<1> HIDE DEF p
<1>3. /\ call'[k].at = c /\ call'[k].op = op /\ call'[k].pc = p /\ call'[k].res = "none"
      /\ \A j \in Calls : j # k => call'[j] = call[j] /\ owed'[j] = owed[j]
  BY <1>1 DEF p, GitInv, TypeOK
<1>6. TypeOK'
  BY StartTyped DEF GitInv
<1>7. TreeInv'
  BY <1>1, TreesStay
<1>8. Erasable'
  <2>1. ASSUME NEW j \in Calls
        PROVE  /\ call'[j].pc = "inspect" => call'[j].op \in {"erase", "forceErase"}
               /\ call'[j].pc = "syncPush" => dirty[call'[j].at] \subseteq {Markers}
               /\ call'[j].pc = "remove" /\ call'[j].op # "forceErase" =>
                      dirty[call'[j].at] = {} /\ Content(local[call'[j].at]) = {} /\ stopped[call'[j].at] = None
    <3>1. CASE j = k
      BY <1>2, <1>3, <3>1
    <3>2. CASE j # k
      BY <1>3, <3>2 DEF GitInv, RequestsOK, Erasable, Busy, Bare
    <3> QED
      BY <3>1, <3>2
  <2> QED
    BY <1>1, <2>1 DEF Erasable, Busy, Bare
<1>9. Delivering' /\ SaveLands'
  <2>1. ASSUME NEW j \in Calls
        PROVE  /\ call'[j].res = "ok" => call'[j].pc = "done"
               /\ call'[j].op = "save" => call'[j].pc \in Underway \union {"commit", "done"}
               /\ call'[j].op = "save" /\ call'[j].pc \in Underway =>
                      owed'[j] \subseteq OnOrigin \union dropped[call'[j].at] \union Held(call'[j].at)
               /\ call'[j].op = "save" /\ call'[j].res = "ok" =>
                      owed'[j] \subseteq OnOrigin \union dropped[call'[j].at]
    <3>1. CASE j = k
      BY <1>2, <1>3, <3>1 DEF Underway
    <3>2. CASE j # k
      BY <1>3, <3>2 DEF GitInv, RequestsOK, Delivering, SaveLands, Busy
    <3> QED
      BY <3>1, <3>2
  <2> QED
    BY <1>1, <2>1 DEF Delivering, SaveLands, Busy, OnOrigin, Held
<1> QED
  BY <1>6, <1>7, <1>8, <1>9 DEF GitInv, RequestsOK

LEMMA CrashInv ==
    ASSUME GitInv, Crash
    PROVE  GitInv'
<1>1. /\ UNCHANGED <<kind, origin, base, local, dirty, stopped, fetched, gone, made, dropped, owed>>
      /\ TypeOK'
  BY CrashTyped DEF Crash, tree, GitInv
<1>7. TreeInv'
  BY <1>1, TreesStay
<1>8. ASSUME NEW k \in Calls
      PROVE  /\ call'[k].pc \in {"idle", "done"} /\ call'[k].op = call[k].op /\ call'[k].at = call[k].at
             /\ call'[k].res = "ok" => call'[k] = call[k] /\ call[k].pc = "done"
  BY CrashCalls DEF GitInv, RequestsOK, Delivering, Busy
<1>9. Erasable'
  BY <1>8 DEF Erasable, Busy
<1>10. Delivering'
  <2>1. ASSUME NEW k \in Calls
        PROVE  /\ call'[k].res = "ok" => call'[k].pc = "done"
               /\ call'[k].op = "save" => call'[k].pc \in Underway \union {"commit", "done"}
               /\ call'[k].pc \notin Underway
    BY CrashCalls, <1>8 DEF Underway, GitInv, RequestsOK, Delivering
  <2> QED
    BY <2>1 DEF Delivering, Busy
<1>11. SaveLands'
  BY <1>1, <1>8 DEF GitInv, RequestsOK, SaveLands, OnOrigin
<1> QED
  BY <1>1, <1>7, <1>9, <1>10, <1>11 DEF GitInv, RequestsOK

LEMMA StepInv ==
    ASSUME ~Exposed, GitInv, NEW k \in Calls, Step(k)
    PROVE  GitInv'
<1>1. PICK c \in Checkouts : c = call[k].at
  BY StepIsAt DEF GitInv
<1>2. TreeTyped /\ BasedAt(c) /\ Erasable
  BY DEF GitInv, TypeOK, TreeTyped, TreeInv, TreeAt, RequestsOK
<1>3. Changes(c)
  BY <1>1, <1>2, StepChanges
<1>4. TypeOK' /\ made' = made
  BY <1>1, <1>3, StepTyped DEF GitInv
<1>5. TreeInv'
  BY <1>3, <1>4, ChangesSound DEF GitInv
<1>6. RequestsOK'
  BY <1>1, <1>3, StepRequests DEF GitInv
<1> QED
  BY <1>4, <1>5, <1>6 DEF GitInv

LEMMA InductiveInvariant == ~Exposed => (Spec => []GitInv)
<1> SUFFICES ASSUME ~Exposed PROVE Spec => []GitInv
  OBVIOUS
<1>1. Init => GitInv
  BY InitInv
<1>2. GitInv /\ [Next]_vars => GitInv'
  <2> SUFFICES ASSUME GitInv, [Next]_vars PROVE GitInv'
    OBVIOUS
  <2>1. CASE \E c \in Checkouts, e \in Edits, commits \in BOOLEAN : Write(c, e, commits)
    BY <2>1, WriteInv
  <2>2. CASE \E c \in Checkouts, e \in Edits : AutoCommit(c, e)
    BY <2>2, AutoCommitInv
  <2>3. CASE \E e \in Edits : Elsewhere(e)
    BY <2>3, ElsewhereInv
  <2>4. CASE \E k \in Calls, c \in Checkouts, op \in NotesOps \union PersonalOps : Start(k, c, op)
    BY <2>4, StartInv
  <2>5. CASE \E k \in Calls : Step(k)
    BY <2>5, StepInv
  <2>6. CASE Crash
    BY <2>6, CrashInv
  <2>7. CASE UNCHANGED vars
    <3>1. UNCHANGED <<kind, staging, gone, call, owed>> /\ TreeInv'
      BY <2>7, TreesStay DEF vars
    <3> QED
      BY <2>7, <3>1 DEF GitInv, TypeOK, RequestsOK, Erasable, Bare, Delivering, SaveLands, Busy, OnOrigin, Held, vars
  <2> QED
    BY <2>1, <2>2, <2>3, <2>4, <2>5, <2>6, <2>7 DEF Next
<1> QED
  BY <1>1, <1>2, PTL DEF Spec

\* Whatever a user wrote is on the remote, in the checkout, or was thrown away at
\* the user's request, for any number of checkouts and overlapping requests, failing
\* commands, unanswered pushes, deletions of personal/ and crashes: as long as nobody
\* steps between a stopped rebase and its abort, or writes while personal/ is deleted.
THEOREM NothingIsLost == ~Exposed => (Spec => []NothingLost)
<1>1. GitInv => NothingLost
  BY DEF GitInv, TreeInv
<1> QED
  BY <1>1, InductiveInvariant, PTL

\* Under the same condition no conflict marker is ever on the remote.
THEOREM ConflictsAreHeldBack == ~Exposed => (Spec => []NothingConflictedPublished)
<1>1. GitInv => NothingConflictedPublished
  BY DEF GitInv, TreeInv
<1> QED
  BY <1>1, InductiveInvariant, PTL

\* Under the same condition a save that answers ok has landed all it committed.
THEOREM SavesLand == ~Exposed => (Spec => []SaveLands)
<1>1. GitInv => SaveLands
  BY DEF GitInv, RequestsOK
<1> QED
  BY <1>1, InductiveInvariant, PTL
=============================================================================
