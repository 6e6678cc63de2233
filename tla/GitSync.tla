------------------------------ MODULE GitSync ------------------------------
(***************************************************************************)
(* Editing a shared git repository without an AI: the user's worktree of   *)
(* the team notes (saved, refreshed and discarded from the Context and     *)
(* Kanban pages) or the user's personal/ clone (pushed, pulled and deleted *)
(* from the settings).  Every call is a sequence of git commands with      *)
(* awaits in between, and no lock orders the calls on one checkout.        *)
(*                                                                         *)
(* A commit is the set of edits it holds.  The remote's branch only grows, *)
(* so a branch is the number of remote commits it is based on and the      *)
(* sequence of its own commits.  Two edits of one place conflict.          *)
(***************************************************************************)
EXTENDS Naturals, SequencesExt, FiniteSets

CONSTANTS
    Checkouts,  \* working trees of one remote: one per user, or per host
    Edits,      \* what users write
    Places,     \* the files they write it in
    PlaceOf,    \* the place of each edit
    Calls,      \* requests to the server
    Markers,    \* conflict markers, as content
    None,
    Exposed     \* whether others may step between a stopped rebase and its
                \* abort, and write while personal/ is being deleted

ASSUME GitSyncAssumption ==
    /\ PlaceOf \in [Edits -> Places]
    /\ Markers \notin Edits
    /\ None \notin [base : Nat, local : Seq(SUBSET (Edits \union {Markers}))]
    /\ Exposed \in BOOLEAN

NotesOps == {"save", "refresh", "discard", "behind"}
PersonalOps == {"save", "pull", "force", "erase", "forceErase"}

VARIABLES
    kind,     \* what the checkouts are: worktrees of notes or personal clones
    origin,   \* the commits of the remote branch
    base,     \* base[c]: how many commits of origin the HEAD of c contains
    local,    \* local[c]: the commits HEAD has on top of them
    dirty,    \* dirty[c]: what is in the working tree and not committed
    fetched,  \* fetched[c]: how many commits of origin the last fetch saw
    stopped,  \* stopped[c]: the branch a rebase that met a conflict will
              \* return to when it is aborted, None outside of a rebase
    staging,  \* staging[c]: writes whose automatic commit has not run
    gone,     \* gone[c]: personal/ was deleted
    call,     \* call[k]: where request k is
    made,     \* made[c]: history: the edits written in c
    dropped,  \* dropped[c]: history: the edits the user had thrown away
    owed      \* owed[k]: history: the edits request k promised to deliver

vars == <<kind, origin, base, local, dirty, fetched, stopped, staging, gone,
          call, made, dropped, owed>>

tree == <<base, local, dirty, stopped>>
----------------------------------------------------------------------------
Content(commits) == UNION Range(commits)
PlacesOf(edits) == {PlaceOf[e] : e \in edits \ {Markers}}
OnOrigin == Content(origin)
Prefix(n) == SubSeq(origin, 1, n)
Upstream(from, to) == Content(SubSeq(origin, from + 1, to))

\* The files a branch has; only those are touched by reset --hard.
Tracked(b, l) == PlacesOf(Content(Prefix(b)) \union Content(l))
Untracked(edits, places) ==
    {e \in edits \ {Markers} : PlaceOf[e] \notin places}

Started(k) == call[k].at # None
Busy(k, step) == call[k].pc = step
Go(k, step) == call' = [call EXCEPT ![k].pc = step]
Answer(k, res) == call' = [call EXCEPT ![k].pc = "done", ![k].res = res]

Deleting(c) ==
    \E k \in Calls : call[k].at = c /\ call[k].pc \in {"sync", "syncPush", "remove"}

\* The two windows the code leaves open.
Closed(c) == Exposed \/ stopped[c] = None
MayWrite(c) == ~gone[c] /\ (Exposed \/ (stopped[c] = None /\ ~Deleting(c)))

Init ==
    /\ kind \in {"notes", "personal"}
    /\ origin = <<>>
    /\ base = [c \in Checkouts |-> 0]
    /\ local = [c \in Checkouts |-> <<>>]
    /\ dirty = [c \in Checkouts |-> {}]
    /\ fetched = [c \in Checkouts |-> 0]
    /\ stopped = [c \in Checkouts |-> None]
    /\ staging = [c \in Checkouts |-> {}]
    /\ gone = [c \in Checkouts |-> FALSE]
    /\ call = [k \in Calls |-> [at |-> None, op |-> "none", pc |-> "idle", res |-> "none"]]
    /\ made = [c \in Checkouts |-> {}]
    /\ dropped = [c \in Checkouts |-> {}]
    /\ owed = [k \in Calls |-> {}]
----------------------------------------------------------------------------
(***************************************************************************)
(* Writing.  A file saved in the Context page is written and then added    *)
(* and committed by itself; a kanban edit or a new file is only written.   *)
(***************************************************************************)
Write(c, e, commits) ==
    /\ MayWrite(c)
    /\ e \notin OnOrigin
    /\ \A d \in Checkouts : e \notin made[d]
    /\ dirty' = [dirty EXCEPT ![c] = @ \union {e}]
    /\ made' = [made EXCEPT ![c] = @ \union {e}]
    /\ staging' = IF commits THEN [staging EXCEPT ![c] = @ \union {e}] ELSE staging
    /\ UNCHANGED <<kind, origin, base, local, fetched, stopped, gone, call, dropped, owed>>

\* git add -- path; git commit --allow-empty.  With unmerged files git
\* refuses the commit, and the write is answered all the same.
AutoCommit(c, e) ==
    /\ e \in staging[c]
    /\ Closed(c)
    /\ staging' = [staging EXCEPT ![c] = @ \ {e}]
    /\ IF Markers \in dirty[c] \/ gone[c]
       THEN UNCHANGED <<local, dirty>>
       ELSE /\ local' = [local EXCEPT ![c] = Append(@, {e} \intersect dirty[c])]
            /\ dirty' = [dirty EXCEPT ![c] = @ \ {e}]
    /\ UNCHANGED <<kind, origin, base, fetched, stopped, gone, call, made, dropped, owed>>

\* Somebody else pushes: a loop promotes from its sandbox, another host syncs.
Elsewhere(e) ==
    /\ e \notin OnOrigin
    /\ \A c \in Checkouts : e \notin made[c]
    /\ origin' = Append(origin, {e})
    /\ UNCHANGED <<kind, tree, fetched, staging, gone, call, made, dropped, owed>>
----------------------------------------------------------------------------
(***************************************************************************)
(* The calls.  Each names the git commands it runs, in order:              *)
(*   save     commit fetch rebase push       (syncUiNotes, pushPersonal..) *)
(*   pull     commit fetch rebase            (pullPersonalFromRemote)      *)
(*   force    unwedge fetch reset            (the same with force)         *)
(*   discard  fetch reset                    (discardUiNotes)              *)
(*   refresh  fetch merge                    (ffUpdateUiNotes)             *)
(*   behind   fetch                          (notesBehind)                 *)
(*   erase    inspect sync syncPush remove   (POST /api/personal/delete)   *)
(***************************************************************************)
FirstStep(op) ==
    CASE op \in {"save", "pull"} -> "commit"
      [] op = "force" -> "unwedge"
      [] op \in {"erase", "forceErase"} -> "inspect"
      [] OTHER -> "fetch"

Start(k, c, op) ==
    /\ ~Started(k)
    /\ op \in (IF kind = "notes" THEN NotesOps ELSE PersonalOps)
    /\ ~gone[c]
    /\ call' = [call EXCEPT ![k] = [at |-> c, op |-> op, pc |-> FirstStep(op), res |-> "none"]]
    /\ owed' = [owed EXCEPT ![k] = IF op = "erase" THEN dirty[c] \union Content(local[c]) ELSE {}]
    /\ UNCHANGED <<kind, origin, base, local, dirty, fetched, stopped, staging, gone, made, dropped>>

\* commitLocalChanges: git add -A and a commit of whatever is there.
CommitAll(c) ==
    IF dirty[c] = {} THEN UNCHANGED <<local, dirty>>
    ELSE /\ local' = [local EXCEPT ![c] = Append(@, dirty[c])]
         /\ dirty' = [dirty EXCEPT ![c] = {}]

Commit(k) ==
    LET c == call[k].at IN
    /\ Busy(k, "commit")
    /\ Closed(c)
    /\ CommitAll(c)
    /\ owed' = [owed EXCEPT ![k] = (dirty[c] \union Content(local[c])) \ {Markers}]
    /\ Go(k, "fetch")
    /\ UNCHANGED <<kind, origin, base, fetched, stopped, staging, gone, made, dropped>>

AfterFetch(op) ==
    CASE op \in {"save", "pull"} -> "rebase"
      [] op = "refresh" -> "merge"
      [] op = "behind" -> "done"
      [] OTHER -> "reset"

Fetch(k) ==
    LET c == call[k].at IN
    /\ Busy(k, "fetch")
    /\ fetched' = [fetched EXCEPT ![c] = Len(origin)]
    /\ call' = [call EXCEPT ![k].pc = AfterFetch(call[k].op),
                            ![k].res = IF call[k].op = "behind" THEN "ok" ELSE @]
    /\ UNCHANGED <<kind, origin, tree, staging, gone, made, dropped, owed>>

\* What git rebase --abort leaves: the branch as it was, and of the working
\* tree only files neither side tracks.
Aborted(c) ==
    IF stopped[c] = None
    THEN [base |-> base[c], local |-> local[c], dirty |-> dirty[c]]
    ELSE [base |-> stopped[c].base, local |-> stopped[c].local,
          dirty |-> Untracked(dirty[c], Tracked(base[c], local[c])
                                 \union Tracked(stopped[c].base, stopped[c].local))]

PutTree(c, t, stop) ==
    /\ base' = [base EXCEPT ![c] = t.base]
    /\ local' = [local EXCEPT ![c] = t.local]
    /\ dirty' = [dirty EXCEPT ![c] = t.dirty]
    /\ stopped' = [stopped EXCEPT ![c] = stop]

\* The first commit of l that touches what upstream touches, or none.
Conflicts(l, upstream) ==
    {i \in DOMAIN l : PlacesOf(l[i]) \intersect PlacesOf(upstream) # {}}
FirstConflict(l, upstream) ==
    CHOOSE i \in Conflicts(l, upstream) : \A j \in Conflicts(l, upstream) : i <= j

\* git refuses to start over unstaged changes of tracked files, and over
\* untracked files the new commits bring.
Obstructed(t, upstream) ==
    PlacesOf(t.dirty) \intersect (Tracked(t.base, t.local) \union PlacesOf(upstream)) # {}

\* rebaseOntoOrigin after its fetch: abort whatever an earlier call left,
\* then rebase; a conflict stops it.
Rebase(k) ==
    LET c == call[k].at
        t == Aborted(c)
        to == fetched[c]
        upstream == Upstream(t.base, to)
        next == IF call[k].op = "save" THEN "push" ELSE "done"
        result == IF call[k].op = "save" THEN "none" ELSE "ok"
    IN
    /\ Busy(k, "rebase")
    /\ Closed(c)
    /\ CASE to = 0 ->
              /\ call' = [call EXCEPT ![k].pc = next, ![k].res = result]
              /\ UNCHANGED tree
         [] to > 0 /\ Obstructed(t, upstream) ->
              /\ Answer(k, "error")
              /\ PutTree(c, t, None)
         [] to > 0 /\ ~Obstructed(t, upstream) /\ Conflicts(t.local, upstream) = {} ->
              /\ call' = [call EXCEPT ![k].pc = next, ![k].res = result]
              /\ PutTree(c, [t EXCEPT !.base = to], None)
         [] OTHER ->
              /\ Go(k, "stopped")
              /\ PutTree(c, [base |-> to,
                             local |-> SubSeq(t.local, 1, FirstConflict(t.local, upstream) - 1),
                             dirty |-> t.dirty \union {Markers}],
                         [base |-> t.base, local |-> t.local])
    /\ UNCHANGED <<kind, origin, fetched, staging, gone, made, dropped, owed>>

\* The conflict is held back: list the files, abort, tell the caller.
SeededHoldBack(k) ==
    LET c == call[k].at IN
    /\ Busy(k, "stopped")
    /\ PutTree(c, [base |-> base[c], local |-> local[c], dirty |-> {}], None)
    /\ Answer(k, IF Markers \in dirty[c] THEN "conflict" ELSE "error")
    /\ UNCHANGED <<kind, origin, fetched, staging, gone, made, dropped, owed>>

SeededBlindMerge(k) ==
    LET c == call[k].at IN
    /\ Busy(k, "stopped")
    /\ PutTree(c, [base |-> base[c], local |-> Append(stopped[c].local, {Markers}), dirty |-> {}], None)
    /\ Go(k, "push")
    /\ UNCHANGED <<kind, origin, fetched, staging, gone, made, dropped, owed>>

HoldBack(k) ==
    LET c == call[k].at IN
    /\ Busy(k, "stopped")
    /\ PutTree(c, Aborted(c), None)
    /\ Answer(k, IF Markers \in dirty[c] THEN "conflict" ELSE "error")
    /\ UNCHANGED <<kind, origin, fetched, staging, gone, made, dropped, owed>>

\* git push origin HEAD:branch lands only as a fast-forward.
FastForward(c) == base[c] = Len(origin)
Land(c) ==
    /\ origin' = origin \o local[c]
    /\ base' = [base EXCEPT ![c] = Len(origin) + Len(local[c])]
    /\ fetched' = [fetched EXCEPT ![c] = Len(origin) + Len(local[c])]
    /\ local' = [local EXCEPT ![c] = <<>>]

SeededPush(k) ==
    LET c == call[k].at IN
    /\ Busy(k, "push")
    /\ Closed(c)
    /\ IF FastForward(c) THEN Land(c) ELSE UNCHANGED <<origin, base, fetched, local>>
    /\ Answer(k, "ok")
    /\ UNCHANGED <<kind, dirty, stopped, staging, gone, made, dropped, owed>>

Push(k) ==
    LET c == call[k].at IN
    /\ Busy(k, "push")
    /\ Closed(c)
    /\ IF FastForward(c) THEN Land(c) /\ Answer(k, "ok")
       ELSE Answer(k, "needsPull") /\ UNCHANGED <<origin, base, fetched, local>>
    /\ UNCHANGED <<kind, dirty, stopped, staging, gone, made, dropped, owed>>

\* The remote takes the commits and the answer is lost.
PushUnanswered(k) ==
    LET c == call[k].at IN
    /\ Busy(k, "push")
    /\ Closed(c)
    /\ FastForward(c)
    /\ Land(c)
    /\ Answer(k, "needsPull")
    /\ UNCHANGED <<kind, dirty, stopped, staging, gone, made, dropped, owed>>

\* ffUpdateUiNotes: merge --ff-only; anything in the way is "diverged".
Merge(k) ==
    LET c == call[k].at
        upstream == Upstream(base[c], fetched[c])
        blocked == local[c] # <<>> \/ PlacesOf(dirty[c]) \intersect PlacesOf(upstream) # {}
    IN
    /\ Busy(k, "merge")
    /\ Closed(c)
    /\ IF fetched[c] > base[c] /\ blocked
       THEN Answer(k, "diverged") /\ UNCHANGED base
       ELSE Answer(k, "ok") /\ base' = [base EXCEPT ![c] = fetched[c]]
    /\ UNCHANGED <<kind, origin, local, dirty, fetched, stopped, staging, gone, made, dropped, owed>>

\* pullPersonalFromRemote with force: rebase --abort, merge --abort.
Unwedge(k) ==
    LET c == call[k].at IN
    /\ Busy(k, "unwedge")
    /\ Closed(c)
    /\ PutTree(c, Aborted(c), None)
    /\ Go(k, "fetch")
    /\ UNCHANGED <<kind, origin, fetched, staging, gone, made, dropped, owed>>

\* reset --hard origin/branch; with force also clean -fd.
Reset(k) ==
    LET c == call[k].at
        kept == IF call[k].op = "force" THEN {}
                ELSE Untracked(dirty[c], Tracked(base[c], local[c])
                                   \union Tracked(fetched[c], <<>>))
    IN
    /\ Busy(k, "reset")
    /\ Closed(c)
    /\ IF fetched[c] = 0
       THEN Answer(k, "error") /\ UNCHANGED <<base, local, dirty, dropped>>
       ELSE /\ Answer(k, "ok")
            /\ base' = [base EXCEPT ![c] = fetched[c]]
            /\ local' = [local EXCEPT ![c] = <<>>]
            /\ dirty' = [dirty EXCEPT ![c] = kept]
            /\ dropped' = [dropped EXCEPT ![c] =
                             @ \union ((Content(local[c]) \union dirty[c]) \ kept)]
    /\ UNCHANGED <<kind, origin, fetched, stopped, staging, gone, made, owed>>
----------------------------------------------------------------------------
(***************************************************************************)
(* Deleting personal/: look whether anything would be lost, push it first  *)
(* if so, and delete only when that worked.                                *)
(***************************************************************************)
SeededInspect(k, refreshed) ==
    LET c == call[k].at IN
    /\ Busy(k, "inspect")
    /\ Closed(c)
    /\ fetched' = IF refreshed THEN [fetched EXCEPT ![c] = Len(origin)] ELSE fetched
    /\ Go(k, IF call[k].op = "erase" /\ dirty[c] # {} THEN "sync" ELSE "remove")
    /\ UNCHANGED <<kind, origin, tree, staging, gone, made, dropped, owed>>

Inspect(k, refreshed) ==
    LET c == call[k].at IN
    /\ Busy(k, "inspect")
    /\ Closed(c)
    /\ fetched' = IF refreshed THEN [fetched EXCEPT ![c] = Len(origin)] ELSE fetched
    /\ Go(k, IF call[k].op = "erase" /\ (dirty[c] # {} \/ local[c] # <<>>)
             THEN "sync" ELSE "remove")
    /\ UNCHANGED <<kind, origin, tree, staging, gone, made, dropped, owed>>

Sync(k) ==
    LET c == call[k].at IN
    /\ Busy(k, "sync")
    /\ Closed(c)
    /\ CommitAll(c)
    /\ Go(k, "syncPush")
    /\ UNCHANGED <<kind, origin, base, fetched, stopped, staging, gone, made, dropped, owed>>

SyncPush(k) ==
    LET c == call[k].at IN
    /\ Busy(k, "syncPush")
    /\ Closed(c)
    /\ IF FastForward(c) THEN Land(c) /\ Go(k, "remove")
       ELSE Answer(k, "error") /\ UNCHANGED <<origin, base, fetched, local>>
    /\ UNCHANGED <<kind, dirty, stopped, staging, gone, made, dropped, owed>>

\* deletePersonalVault: what is left is an empty repository without a remote.
DeletePersonal(k) ==
    LET c == call[k].at IN
    /\ Busy(k, "remove")
    /\ Closed(c)
    /\ gone' = [gone EXCEPT ![c] = TRUE]
    /\ PutTree(c, [base |-> 0, local |-> <<>>, dirty |-> {}], None)
    /\ fetched' = [fetched EXCEPT ![c] = 0]
    /\ dropped' = IF call[k].op = "forceErase"
                  THEN [dropped EXCEPT ![c] = @ \union dirty[c] \union Content(local[c])]
                  ELSE dropped
    /\ call' = [j \in Calls |->
                  IF j = k THEN [call[j] EXCEPT !.pc = "done", !.res = "ok"]
                  ELSE IF call[j].at = c /\ call[j].pc # "done"
                       THEN [call[j] EXCEPT !.pc = "done", !.res = "error"]
                       ELSE call[j]]
    /\ UNCHANGED <<kind, origin, staging, made, owed>>
----------------------------------------------------------------------------
\* A git command fails: no network, a timeout, another command's index.lock.
Fail(k) ==
    /\ call[k].pc \in {"commit", "fetch", "rebase", "push", "merge", "reset", "sync", "syncPush"}
    /\ Answer(k, "error")
    /\ UNCHANGED <<kind, origin, tree, fetched, staging, gone, made, dropped, owed>>

\* The server is killed: the requests die, the repositories stay.
Crash ==
    /\ Exposed \/ \A c \in Checkouts : stopped[c] = None
    /\ \E k \in Calls : call[k].pc \notin {"idle", "done"}
    /\ call' = [k \in Calls |->
                  IF call[k].pc \in {"idle", "done"} THEN call[k]
                  ELSE [call[k] EXCEPT !.pc = "done", !.res = "error"]]
    /\ staging' = [c \in Checkouts |-> {}]
    /\ UNCHANGED <<kind, origin, tree, fetched, gone, made, dropped, owed>>

Step(k) ==
    \/ Commit(k) \/ Fetch(k) \/ Rebase(k) \/ HoldBack(k) \/ Push(k) \/ PushUnanswered(k)
    \/ Merge(k) \/ Unwedge(k) \/ Reset(k)
    \/ \E refreshed \in BOOLEAN : Inspect(k, refreshed)
    \/ Sync(k) \/ SyncPush(k) \/ DeletePersonal(k) \/ Fail(k)

Next ==
    \/ \E c \in Checkouts, e \in Edits, commits \in BOOLEAN : Write(c, e, commits)
    \/ \E c \in Checkouts, e \in Edits : AutoCommit(c, e)
    \/ \E e \in Edits : Elsewhere(e)
    \/ \E k \in Calls, c \in Checkouts, op \in NotesOps \union PersonalOps : Start(k, c, op)
    \/ \E k \in Calls : Step(k)
    \/ Crash

Spec == Init /\ [][Next]_vars
----------------------------------------------------------------------------
Standing(c) ==
    dirty[c] \union Content(local[c])
        \union (IF stopped[c] = None THEN {} ELSE Content(stopped[c].local))

\* Whatever a user wrote is on the remote, in the checkout, or was thrown
\* away at the user's own request: no rebase that stops half-way, no lost
\* race for the remote, no failing command, no overlapping call, no deletion
\* of personal/ and no crash loses an edit.
NothingLost ==
    \A c \in Checkouts : made[c] \subseteq OnOrigin \union Standing(c) \union dropped[c]

\* Conflict markers never reach the remote: a conflict is held back, never
\* merged blindly.
NothingConflictedPublished == Markers \notin OnOrigin

\* A save that answers ok has landed everything it committed, whatever else
\* ran on the checkout between its commands, unless the user dropped it.
SaveLands ==
    \A k \in Calls :
        call[k].op = "save" /\ call[k].res = "ok" =>
            owed[k] \subseteq OnOrigin \union dropped[call[k].at]
============================================================================
