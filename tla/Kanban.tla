------------------------------ MODULE Kanban -------------------------------
(***************************************************************************)
(* The kanban board of a user's notes worktree: a markdown file per column, *)
(* whose cards are found by the hash of their text.  A request reads a     *)
(* file, computes the new one and writes it whole, with nothing that keeps *)
(* another request out; a move writes two files one after the other.  The  *)
(* tabs are told of a change and fetch the board again.                    *)
(***************************************************************************)
EXTENDS Naturals, SequencesExt

CONSTANTS
    Calls,      \* requests under way at once
    Columns,    \* column files
    Archived,   \* archived.md
    Texts,      \* card texts; a card's cid is the hash of its text
    Loop,       \* a loop to link
    None,
    MaxCards,   \* bound on the cards ever added
    MaxOps,     \* bound on the requests
    Hazards     \* what the requests may do beyond keeping out of each other's way

CardType == [id : 1..MaxCards, text : Texts, done : BOOLEAN, loop : {None, Loop}]

ASSUME KanbanAssumption ==
    /\ Archived \in Columns /\ MaxCards \in Nat /\ MaxOps \in Nat
    /\ None \notin Texts \union Seq(CardType) /\ Loop # None
    /\ Hazards \subseteq {"overlap", "clobber", "archive", "dialog", "crash", "reorder"}

VARIABLES
    files,   \* files[k]: the cards of a column file, or None
    call,    \* call[c]: [pc, op, body, i]: a request, what it read and where its card is
    alive,   \* history: the cards added and not deleted
    card,    \* history: what each card was last made to be
    next,    \* the next card
    ops,     \* requests so far
    view,    \* the board a tab shows
    told,    \* kanban_update frames on their way to it
    fetches  \* its answers under way, each a board as it was read

board == <<files, alive, card, next>>
tab == <<view, told, fetches>>
vars == <<board, call, ops, tab>>
----------------------------------------------------------------------------
Cards == 1..MaxCards
Idle == [pc |-> "idle", op |-> None, body |-> None, i |-> 0]
Card(n, t) == [id |-> n, text |-> t, done |-> FALSE, loop |-> None]
Blank == [k \in Columns |-> None]

Init ==
    /\ files = [Blank EXCEPT ![CHOOSE k \in Columns : k # Archived] = <<>>]
    /\ call = [c \in Calls |-> Idle]
    /\ alive = {} /\ card = [n \in Cards |-> None] /\ next = 1 /\ ops = 0
    /\ view = Blank /\ told = 1 /\ fetches = <<>>

\* findCardRange: the first card with that text.
Find(body, t) ==
    LET at == {i \in 1..Len(body) : body[i].text = t} IN
    IF at = {} THEN 0 ELSE CHOOSE i \in at : \A j \in at : i <= j

\* moveCard: before the card at that index, or at the end.
Inserted(body, x, at) == IF at \in 1..Len(body) THEN InsertAt(body, at, x) ELSE Append(body, x)

\* reorderCards: a stable sort that puts the listed ones as listed, then those
\* the tab did not know.
Reorderings(body, order) ==
    LET Listed(i) == {n \in 1..Len(order) : order[n] = body[i].text}
        Before(i, j) ==
            \/ \E n \in Listed(i) : \A m \in Listed(j) : n < m
            \/ Listed(i) = Listed(j) /\ i < j
        Sorted(p) == \A i, j \in 1..Len(body) : i < j => Before(p[i], p[j])
    IN  {[i \in 1..Len(body) |-> body[p[i]]] :
            p \in {q \in Bijection(1..Len(body), 1..Len(body)) : Sorted(q)}}

\* addCard, toggleCard, deleteCard, updateCardMeta, updateCardBlock and
\* linkLoopToCard: what each makes of the column it read.
Added(body, n, t) == Append(IF body = None THEN <<>> ELSE body, Card(n, t))
Toggled(body, i) == [body EXCEPT ![i].done = ~@]
Deleted(body, i) == RemoveAt(body, i)
Patched(body, i, t) == [body EXCEPT ![i].text = t]

\* The dialog sends the whole block, and its block has no link.
Edited(body, i, t, done) == [body EXCEPT ![i] = [Card(body[i].id, t) EXCEPT !.done = done]]

\* The first link of a card is the one that shows.
Linked(body, i) == [body EXCEPT ![i].loop = IF @ = None THEN Loop ELSE @]

Result(op, body, i) ==
    CASE op.kind = "add"     -> Added(body, next, op.text)
      [] op.kind = "toggle"  -> Toggled(body, i)
      [] op.kind \in {"delete", "move", "archive"} -> Deleted(body, i)
      [] op.kind = "patch"   -> Patched(body, i, op.text)
      [] op.kind = "edit"    -> Edited(body, i, op.text, op.done)
      [] op.kind = "link"    -> Linked(body, i)

Results(op, body, i) ==
    IF op.kind = "reorder" THEN Reorderings(body, op.order) ELSE {Result(op, body, i)}

\* The operation as it was meant, on the card it was meant for.
Meant(op, n, x) ==
    CASE op.kind = "toggle" -> [x EXCEPT !.done = ~@]
      [] op.kind = "patch"  -> [x EXCEPT !.text = op.text]
      [] op.kind = "edit"   -> [x EXCEPT !.text = op.text, !.done = op.done]
      [] op.kind = "link"   -> [x EXCEPT !.loop = IF @ = None THEN Loop ELSE @]
      [] OTHER -> x
----------------------------------------------------------------------------
(***************************************************************************)
(* The requests.                                                           *)
(***************************************************************************)
Orders == {o \in UNION {[1..n -> Texts] : n \in 1..2} : IsInjective(o)}
Op(kind, k) == [kind |-> kind, col |-> k, to |-> k, cid |-> None, text |-> None,
                at |-> 0, done |-> FALSE, order |-> <<>>]
On(kind, k, t) == [Op(kind, k) EXCEPT !.cid = t]
MoveOp(k, t, d, at) == [On("move", k, t) EXCEPT !.to = d, !.at = at]
EditOp(k, t, u, d) == [On("edit", k, t) EXCEPT !.text = u, !.done = d]

\* What the pages send: a column, a card, and what to make of it.
OpsOf ==
    UNION {
        {[Op("add", k) EXCEPT !.text = t] : k \in Columns, t \in Texts},
        {On(kind, k, t) : kind \in {"toggle", "delete", "link"}, k \in Columns, t \in Texts},
        {MoveOp(k, t, d, at) : k \in Columns, t \in Texts, d \in Columns, at \in {0, 1}},
        {[On("archive", k, t) EXCEPT !.to = Archived] : k \in Columns \ {Archived}, t \in Texts},
        {[On("patch", k, t) EXCEPT !.text = u] : k \in Columns, t \in Texts, u \in Texts},
        {EditOp(k, t, u, d) : k \in Columns, t \in Texts, u \in Texts, d \in BOOLEAN},
        {[Op("reorder", k) EXCEPT !.order = o] : k \in Columns, o \in Orders},
        {Op(kind, k) : kind \in {"newcol", "dropcol"}, k \in Columns},
        {[Op("rename", p[1]) EXCEPT !.to = p[2]] : p \in {q \in Columns \X Columns : q[1] # q[2]}}}

Touches(op) == {op.col, op.to}
InUse == UNION {Touches(call[c].op) : c \in {d \in Calls : call[d].pc # "idle"}}

HasLink(body, t) == body # None /\ \E i \in 1..Len(body) : body[i].text = t /\ body[i].loop # None

\* Requests that the property is not claimed for, unless Hazards says so.
Careful(op) ==
    /\ "overlap" \in Hazards \/ InUse \intersect Touches(op) = {}
    /\ "clobber" \in Hazards \/ (op.kind \in {"newcol", "rename"} => files[op.to] = None)
    /\ "archive" \in Hazards \/ (op.kind = "archive" => files[Archived] = None)
    /\ "dialog" \in Hazards \/ (op.kind = "edit" => ~ HasLink(files[op.col], op.cid))

Request(c, op) ==
    /\ call[c].pc = "idle" /\ ops < MaxOps /\ Careful(op)
    /\ op.kind = "add" => next <= MaxCards
    /\ ops' = ops + 1
    /\ call' = [call EXCEPT ![c] = [Idle EXCEPT !.op = op,
                  !.pc = IF op.kind \in {"newcol", "archive"} THEN "create"
                         ELSE IF op.kind \in {"dropcol", "rename"} THEN "column" ELSE "read"]]
    /\ UNCHANGED <<board, tab>>

Done(c) == call' = [call EXCEPT ![c] = Idle]
Notify == told' = told + 1

\* createColumn writes a new file, whatever there was.  To archive a card the
\* page first creates the archive's column.
CreateColumn(c) ==
    LET op == call[c].op IN
    /\ call[c].pc = "create"
    /\ files' = [files EXCEPT ![op.to] = <<>>]
    /\ IF op.kind = "archive" THEN call' = [call EXCEPT ![c].pc = "read"] ELSE Done(c)
    /\ Notify
    /\ UNCHANGED <<alive, card, next, ops, view, fetches>>

\* renameColumn and deleteColumn act on the file itself.
ChangeColumn(c) ==
    LET op == call[c].op  k == op.col
        lost == IF files[k] = None \/ op.kind = "rename" THEN {}
                ELSE {files[k][i].id : i \in 1..Len(files[k])}
    IN
    /\ call[c].pc = "column"
    /\ Done(c)
    /\ IF files[k] = None THEN UNCHANGED <<files, alive, told>>
       ELSE /\ files' = IF op.kind = "rename" THEN [files EXCEPT ![op.to] = files[k], ![k] = None]
                        ELSE [files EXCEPT ![k] = None]
            /\ alive' = alive \ lost
            /\ Notify
    /\ UNCHANGED <<card, next, ops, view, fetches>>

\* readColumnRaw, and the search for the card.
Read(c) ==
    LET op == call[c].op  body == files[op.col]
        i == IF body = None \/ op.cid = None THEN 0 ELSE Find(body, op.cid)
        found == IF op.cid = None THEN body # None \/ op.kind = "add" ELSE i # 0
    IN
    /\ call[c].pc = "read"
    /\ IF found THEN call' = [call EXCEPT ![c].pc = "write", ![c].body = body, ![c].i = i]
       ELSE Done(c)
    /\ UNCHANGED <<board, ops, tab>>

\* writeFile of the new column.  A moved card is then in neither file.
Write(c) ==
    LET op == call[c].op  body == call[c].body  i == call[c].i
        moving == op.kind \in {"move", "archive"}
        n == IF i = 0 THEN 0 ELSE body[i].id
    IN
    /\ call[c].pc = "write"
    /\ op.kind = "add" => next <= MaxCards
    /\ \E new \in Results(op, body, i) : files' = [files EXCEPT ![op.col] = new]
    /\ next' = IF op.kind = "add" THEN next + 1 ELSE next
    /\ alive' = IF op.kind = "add" THEN alive \union {next}
                ELSE IF op.kind = "delete" THEN alive \ {n} ELSE alive
    /\ card' = IF op.kind = "add" THEN [card EXCEPT ![next] = Card(next, op.text)]
               ELSE IF n = 0 THEN card ELSE [card EXCEPT ![n] = Meant(op, n, @)]
    /\ IF moving THEN call' = [call EXCEPT ![c].pc = "target"] /\ UNCHANGED told
       ELSE Done(c) /\ IF op.kind = "link" THEN UNCHANGED told ELSE Notify
    /\ UNCHANGED <<ops, view, fetches>>

\* The second half of a move: read the target ...
SeededReadTarget(c) ==
    LET to == files[call[c].op.to] IN
    /\ call[c].pc = "target"
    /\ IF to = None THEN Done(c)
       ELSE call' = [call EXCEPT ![c].pc = "insert",
                        ![c].body = Inserted(to, call[c].body[call[c].i], call[c].op.at)]
    /\ UNCHANGED <<board, ops, tab>>

ReadTarget(c) ==
    LET to == files[call[c].op.to]  x == call[c].body[call[c].i] IN
    /\ call[c].pc = "target"
    /\ call' = [call EXCEPT ![c].pc = "insert",
                   ![c].body = IF to = None THEN <<x>> ELSE Inserted(to, x, call[c].op.at)]
    /\ UNCHANGED <<board, ops, tab>>

\* ... and write it.
WriteTarget(c) ==
    /\ call[c].pc = "insert"
    /\ files' = [files EXCEPT ![call[c].op.to] = call[c].body]
    /\ Done(c) /\ Notify
    /\ UNCHANGED <<alive, card, next, ops, view, fetches>>

\* The server dies with the requests under way.
Crash ==
    /\ \E c \in Calls : call[c].pc # "idle"
    /\ "crash" \in Hazards \/ \A c \in Calls : call[c].pc \notin {"target", "insert"}
    /\ call' = [c \in Calls |-> Idle]
    /\ UNCHANGED <<board, ops, view, fetches>> /\ told' = 1
----------------------------------------------------------------------------
(***************************************************************************)
(* A tab: each kanban_update frame, and each new connection, fetches the   *)
(* board again.                                                            *)
(***************************************************************************)
Hear ==
    /\ told > 0
    /\ told' = 0
    /\ fetches' = Append(fetches, files)
    /\ UNCHANGED <<board, call, ops, view>>

SeededShow(n) ==
    /\ n \in 1..Len(fetches)
    /\ view' = fetches[n]
    /\ fetches' = <<>>
    /\ UNCHANGED <<board, call, ops, told>>

Show(n) ==
    /\ n \in 1..Len(fetches)
    /\ n = 1 \/ "reorder" \in Hazards
    /\ view' = fetches[n]
    /\ fetches' = RemoveAt(fetches, n)
    /\ UNCHANGED <<board, call, ops, told>>

Serve(c) == CreateColumn(c) \/ ChangeColumn(c) \/ Read(c) \/ Write(c) \/ ReadTarget(c) \/ WriteTarget(c)

Next ==
    \/ \E c \in Calls : Serve(c) \/ \E op \in OpsOf : Request(c, op)
    \/ Crash \/ Hear \/ \E n \in 1..Len(fetches) : Show(n)

Spec == Init /\ [][Next]_vars
----------------------------------------------------------------------------
Held == {call[c].body[call[c].i].id : c \in {d \in Calls : call[d].pc = "target"}}
        \union UNION {{call[c].body[j].id : j \in 1..Len(call[c].body)} :
                        c \in {d \in Calls : call[d].pc = "insert"}}
Places(n) == UNION {{<<k, i>> : i \in {j \in 1..Len(files[k]) : files[k][j].id = n}} :
                      k \in {m \in Columns : files[m] # None}}

\* A card that was added and not deleted is on the board once, as it was last
\* made to be, whatever requests for other columns, moves and crashes come
\* between, except while its own move is under way.
CardsKept ==
    \A n \in alive \ Held :
        \E p \in Places(n) : Places(n) = {p} /\ files[p[1]][p[2]] = card[n]

Shown(f) == [k \in Columns |->
    IF f[k] = None THEN None ELSE [i \in 1..Len(f[k]) |-> [f[k][i] EXCEPT !.loop = None]]]

\* A tab that has heard everything shows the board, the links to loops
\* excepted: nobody is told of those.
TabsCatchUp ==
    told = 0 /\ fetches = <<>> /\ (\A c \in Calls : call[c].pc = "idle") => Shown(view) = Shown(files)

\* KanbanBoard.handleDragEnd, for a card dropped on another of its column:
\* what the page shows at once, and the order it has the server save.
DragShown(body, from, to) == InsertAt(RemoveAt(body, from), to, body[from])
DragSaved(body, from, to) ==
    InsertAt(RemoveAt(body, from), IF to > from THEN to - 1 ELSE to, body[from])

\* A drag within a column saves the order the page shows.
DragIsSaved ==
    \A k \in Columns : files[k] # None =>
        \A i, j \in 1..Len(files[k]) :
            i # j => DragSaved(files[k], i, j) = DragShown(files[k], i, j)
============================================================================
