--------------------------- MODULE ContextMounts ---------------------------
(***************************************************************************)
(* How a loop gets its context.  createLoop clones the user's knowledge    *)
(* and notes repositories on first use, opens one git worktree per context *)
(* for the loop and writes the loop's metadata last; a drive handoff and   *)
(* the start of the server run the mounting half again.  runExclusive      *)
(* orders the calls by key: cloning by user and vault, adding worktrees by *)
(* main repository.                                                        *)
(***************************************************************************)
EXTENDS Naturals, Sequences, FiniteSets

CONSTANTS
    Loops,      \* loops that may be created
    Users,
    Vaults,
    Declared,   \* the users whose config declares a knowledge repository
    Drivable,   \* the loops another user may take over
    WithRepo,   \* the loops created on a code repository (one per user)
    MaxRestarts,\* bound on the restarts of the server
    None,
    DieInClone  \* whether the server may be killed while git clone runs

ASSUME ContextMountsAssumption ==
    /\ Declared \subseteq Users /\ Drivable \subseteq Loops /\ WithRepo \subseteq Loops
    /\ MaxRestarts \in Nat
    /\ DieInClone \in BOOLEAN

Cloned == {"knowledge", "notes"}
Contexts == Cloned \union {"personal"}

VARIABLES
    main,      \* main[u][x]: the user's main repository of a context
    chain,     \* chain[key]: the calls waiting for a key, the first one runs
    adding,    \* adding[u][x]: the loops whose git worktree add is running
    wt,        \* wt[l][x]: what the loop's context directory holds
    mirror,    \* mirror[u]: the user's bare mirror of the code repository
    loop,      \* loop[l]: the progress of the call that works on the loop
    restarts,  \* how often the server was killed and started again
    collided   \* history: two git commands met on one repository

vars == <<main, chain, adding, wt, mirror, loop, restarts, collided>>
world == <<mirror, restarts>>
----------------------------------------------------------------------------
(***************************************************************************)
(* runExclusive: a call joins the tail of its key's chain, runs when it is *)
(* at the head, and leaves whether it succeeded or threw.                  *)
(***************************************************************************)
Keys == ({"ctx"} \X Users \X Vaults) \union ({"wt"} \X Users \X Contexts)
                                     \union ({"wt"} \X Users \X Loops)

Join(key, l) == chain' = [chain EXCEPT ![key] = Append(@, l)]
Running(key, l) == chain[key] # <<>> /\ Head(chain[key]) = l
Leave(key) == chain' = [chain EXCEPT ![key] = Tail(@)]

CtxKey(l) == <<"ctx", loop[l].user, loop[l].vault>>

\* One key per main repository, not per path: git locks the repository.
SeededWtKey(l, x) == <<"wt", loop[l].user, l>>
WtKey(l, x) == <<"wt", loop[l].user, x>>
----------------------------------------------------------------------------
Missing == [st |-> "absent", by |-> None, gen |-> 0]
NoTree == [st |-> "none", of |-> None, gen |-> 0]
Idle == [pc |-> "idle", user |-> None, vault |-> None, at |-> "knowledge", job |-> "none",
         has |-> FALSE, warned |-> FALSE, meta |-> FALSE, driver |-> None,
         moved |-> FALSE, tries |-> 0, workdir |-> "none"]

Init ==
    /\ main = [u \in Users |-> [x \in Contexts |->
                 IF x = "personal" THEN [Missing EXCEPT !.st = "ready"] ELSE Missing]]
    /\ chain = [key \in Keys |-> <<>>]
    /\ adding = [u \in Users |-> [x \in Contexts |-> {}]]
    /\ wt = [l \in Loops |-> [x \in Contexts |-> NoTree]]
    /\ mirror = [u \in Users |-> [st |-> "absent", by |-> None]]
    /\ loop = [l \in Loops |-> Idle]
    /\ restarts = 0
    /\ collided = FALSE

At(l, pc) == loop[l].pc = pc
Goto(l, pc) == loop' = [loop EXCEPT ![l].pc = pc]
Repo(l, x) == main[loop[l].user][x]
SetRepo(l, x, r) == main' = [main EXCEPT ![loop[l].user][x] = r]
----------------------------------------------------------------------------
(***************************************************************************)
(* createLoop, first half: _ensureUserContext under its key.               *)
(***************************************************************************)
SeededCreate(l, u, v) ==
    /\ At(l, "idle")
    /\ loop' = [loop EXCEPT ![l] = [Idle EXCEPT !.pc = "know", !.user = u, !.vault = v,
                                                !.job = "create", !.driver = u, !.meta = TRUE]]
    /\ chain' = [chain EXCEPT ![<<"ctx", u, v>>] = Append(@, l)]
    /\ UNCHANGED <<main, adding, wt, collided, world>>

Create(l, u, v) ==
    /\ At(l, "idle")
    /\ loop' = [loop EXCEPT ![l] = [Idle EXCEPT !.pc = "know", !.user = u, !.vault = v,
                                                !.job = "create", !.driver = u]]
    /\ chain' = [chain EXCEPT ![<<"ctx", u, v>>] = Append(@, l)]
    /\ UNCHANGED <<main, adding, wt, collided, world>>

\* No declared remote: the directory goes.  A .git, complete or not, counts
\* as the repository being there.
Know(l) ==
    LET u == loop[l].user
        there == Repo(l, "knowledge").st # "absent"
    IN
    /\ At(l, "know") /\ Running(CtxKey(l), l)
    /\ IF u \notin Declared
       THEN /\ SetRepo(l, "knowledge", Missing)
            /\ Goto(l, "notes")
       ELSE /\ loop' = [loop EXCEPT ![l].pc = IF there THEN "notes" ELSE "knowClone",
                                    ![l].has = there]
            /\ UNCHANGED main
    /\ UNCHANGED <<chain, adding, wt, collided, world>>

\* The notes remote is named by the knowledge repository's own config file.
Notes(l) ==
    LET known == loop[l].has /\ Repo(l, "knowledge").st = "ready"
        there == Repo(l, "notes").st # "absent"
    IN
    /\ At(l, "notes")
    /\ IF known THEN UNCHANGED main ELSE SetRepo(l, "notes", Missing)
    /\ Goto(l, IF known /\ ~there THEN "notesClone" ELSE "leave")
    /\ UNCHANGED <<chain, adding, wt, collided, world>>

CloneOf(l) == IF At(l, "knowClone") \/ At(l, "knowCloning") THEN "knowledge" ELSE "notes"

\* rm -rf, then git clone: what another call had there is gone.
CloneStart(l) ==
    LET x == CloneOf(l) IN
    /\ loop[l].pc \in {"knowClone", "notesClone"}
    /\ collided' = (collided \/ Repo(l, x).st = "cloning")
    /\ SetRepo(l, x, [st |-> "cloning", by |-> l, gen |-> Repo(l, x).gen])
    /\ Goto(l, IF x = "knowledge" THEN "knowCloning" ELSE "notesCloning")
    /\ UNCHANGED <<chain, adding, wt, world>>

CloneEnd(l, works) ==
    LET x == CloneOf(l)
        mine == Repo(l, x).st = "cloning" /\ Repo(l, x).by = l
    IN
    /\ loop[l].pc \in {"knowCloning", "notesCloning"}
    /\ IF mine
       THEN SetRepo(l, x, IF works THEN [st |-> "ready", by |-> None, gen |-> Repo(l, x).gen + 1]
                          ELSE [Missing EXCEPT !.gen = Repo(l, x).gen])
       ELSE UNCHANGED main
    /\ loop' = [loop EXCEPT ![l].pc = IF x = "knowledge" THEN "notes" ELSE "leave",
                            ![l].has = IF x = "knowledge" THEN works /\ mine ELSE @,
                            ![l].warned = @ \/ ~(works /\ mine)]
    /\ UNCHANGED <<chain, adding, wt, collided, world>>

LeaveContext(l) ==
    /\ At(l, "leave")
    /\ Leave(CtxKey(l))
    /\ loop' = [loop EXCEPT ![l].pc = IF l \in WithRepo THEN "mirror" ELSE "mount",
                            ![l].at = "knowledge"]
    /\ UNCHANGED <<main, adding, wt, collided, world>>
----------------------------------------------------------------------------
(***************************************************************************)
(* createLoop, the code repository: ensureRepoMirror, which no chain       *)
(* orders, and the work directory.                                         *)
(***************************************************************************)
Mirror(l) == mirror[loop[l].user]
SetMirror(l, st, by) == mirror' = [mirror EXCEPT ![loop[l].user] = [st |-> st, by |-> by]]

\* A HEAD file is taken for a complete mirror: only a fetch follows.
MirrorLook(l) ==
    /\ At(l, "mirror")
    /\ Goto(l, IF Mirror(l).st = "absent" THEN "mirrorClone" ELSE "workdir")
    /\ UNCHANGED <<main, chain, adding, wt, collided, world>>

\* git refuses to clone into a directory that another clone filled; the
\* fallback removes that directory and clones again.
MirrorClone(l) ==
    /\ At(l, "mirrorClone")
    /\ IF Mirror(l).st = "absent" \/ loop[l].tries = 1
       THEN /\ SetMirror(l, "cloning", l)
            /\ Goto(l, "mirrorCloning")
       ELSE /\ loop' = [loop EXCEPT ![l].tries = 1]
            /\ UNCHANGED mirror
    /\ UNCHANGED <<main, chain, adding, wt, restarts, collided>>

\* The second failure gives up: createLoop throws and writes no metadata.
MirrorCloned(l, works) ==
    LET mine == Mirror(l).st = "cloning" /\ Mirror(l).by = l
        done == works /\ mine
    IN
    /\ At(l, "mirrorCloning")
    /\ IF mine THEN SetMirror(l, IF done THEN "ready" ELSE "absent", None) ELSE UNCHANGED mirror
    /\ loop' = [loop EXCEPT ![l].pc = IF done THEN "workdir"
                                       ELSE IF loop[l].tries = 0 THEN "mirrorClone" ELSE "done",
                            ![l].tries = 1]
    /\ UNCHANGED <<main, chain, adding, wt, restarts, collided>>

\* git worktree add off the mirror; when it fails the loop gets an empty
\* directory and goes on.
Workdir(l) ==
    /\ At(l, "workdir")
    /\ loop' = [loop EXCEPT ![l].pc = "mount",
                            ![l].workdir = IF Mirror(l).st = "ready" THEN "worktree" ELSE "plain"]
    /\ UNCHANGED <<main, chain, adding, wt, collided, world>>
----------------------------------------------------------------------------
(***************************************************************************)
(* ensureContextMounts: the three contexts in turn.                        *)
(***************************************************************************)
Following(x) == IF x = "knowledge" THEN "notes" ELSE "personal"

NextContext(l) ==
    loop' = [loop EXCEPT ![l].pc = IF loop[l].at = "personal" THEN "mounted" ELSE "mount",
                         ![l].at = IF @ = "personal" THEN @ ELSE Following(@)]

\* Without a main repository the loop gets an empty directory, whatever was
\* there before.
MountEmpty(l) ==
    LET x == loop[l].at IN
    /\ At(l, "mount")
    /\ x \in Cloned /\ Repo(l, x).st = "absent"
    /\ wt' = [wt EXCEPT ![l][x] = [NoTree EXCEPT !.st = "empty"]]
    /\ NextContext(l)
    /\ UNCHANGED <<main, chain, adding, collided, world>>

MountWait(l) ==
    LET x == loop[l].at IN
    /\ At(l, "mount")
    /\ x = "personal" \/ Repo(l, x).st # "absent"
    /\ Join(WtKey(l, x), l)
    /\ Goto(l, "add")
    /\ UNCHANGED <<main, adding, wt, collided, world>>

\* A directory that is a worktree already is left alone.
AddSkip(l) ==
    LET x == loop[l].at IN
    /\ At(l, "add") /\ Running(WtKey(l, x), l)
    /\ wt[l][x].st = "worktree"
    /\ Leave(WtKey(l, x))
    /\ NextContext(l)
    /\ UNCHANGED <<main, adding, wt, collided, world>>

\* The main repository went away while the call waited: a symlink to it.
AddLink(l) ==
    LET x == loop[l].at IN
    /\ At(l, "add") /\ Running(WtKey(l, x), l)
    /\ wt[l][x].st # "worktree" /\ Repo(l, x).st = "absent"
    /\ wt' = [wt EXCEPT ![l][x] = [NoTree EXCEPT !.st = "link", !.of = loop[l].user]]
    /\ Leave(WtKey(l, x))
    /\ NextContext(l)
    /\ UNCHANGED <<main, adding, collided, world>>

AddStart(l) ==
    LET x == loop[l].at  u == loop[l].user IN
    /\ At(l, "add") /\ Running(WtKey(l, x), l)
    /\ wt[l][x].st # "worktree" /\ Repo(l, x).st # "absent"
    /\ collided' = (collided \/ adding[u][x] # {})
    /\ adding' = [adding EXCEPT ![u][x] = @ \union {l}]
    /\ Goto(l, "adding")
    /\ UNCHANGED <<main, chain, wt, world>>

\* A worktree of a repository whose clone is unfinished is an orphan branch.
AddEnd(l) ==
    LET x == loop[l].at  u == loop[l].user IN
    /\ At(l, "adding")
    /\ adding' = [adding EXCEPT ![u][x] = @ \ {l}]
    /\ wt' = [wt EXCEPT ![l][x] =
                [st |-> IF Repo(l, x).st = "ready" THEN "worktree" ELSE "orphan",
                 of |-> u, gen |-> Repo(l, x).gen]]
    /\ Leave(WtKey(l, x))
    /\ NextContext(l)
    /\ UNCHANGED <<main, collided, world>>

\* git worktree add fails: the call throws out of the chain.  A create is
\* answered with the error and leaves no metadata; drive and the start-up
\* log it and go on.
SeededAddFail(l) ==
    LET x == loop[l].at  u == loop[l].user IN
    /\ At(l, "adding")
    /\ adding' = [adding EXCEPT ![u][x] = @ \ {l}]
    /\ Goto(l, "done")
    /\ UNCHANGED <<main, chain, wt, collided, world>>

AddFail(l) ==
    LET x == loop[l].at  u == loop[l].user IN
    /\ At(l, "adding")
    /\ adding' = [adding EXCEPT ![u][x] = @ \ {l}]
    /\ Leave(WtKey(l, x))
    /\ Goto(l, "done")
    /\ UNCHANGED <<main, wt, collided, world>>

\* The metadata is written last: from now on the loop is listed.
Mounted(l) ==
    /\ At(l, "mounted")
    /\ loop' = [loop EXCEPT ![l].pc = "done", ![l].meta = TRUE]
    /\ UNCHANGED <<main, chain, adding, wt, collided, world>>
----------------------------------------------------------------------------
\* POST /api/loops/:id/drive: the new driver, then the mounts "repointed".
Drive(l, u) ==
    /\ l \in Drivable
    /\ At(l, "done") /\ loop[l].meta
    /\ loop[l].driver # u
    /\ loop' = [loop EXCEPT ![l].driver = u, ![l].user = u, ![l].pc = "mount",
                            ![l].at = "knowledge", ![l].job = "drive", ![l].moved = TRUE]
    /\ UNCHANGED <<main, chain, adding, wt, collided, world>>

Cloning(u) == mirror[u].st = "cloning" \/ \E x \in Cloned : main[u][x].st = "cloning"

\* The server is killed and starts again: every call is gone and the chains
\* are empty; loops with metadata wait for the start-up to mount them again.
Restart ==
    /\ restarts < MaxRestarts
    /\ DieInClone \/ \A u \in Users : ~Cloning(u)
    /\ \E l \in Loops : loop[l].pc \notin {"idle", "done", "boot"}
    /\ chain' = [key \in Keys |-> <<>>]
    /\ adding' = [u \in Users |-> [x \in Contexts |-> {}]]
    /\ loop' = [l \in Loops |->
                  IF loop[l].meta THEN [loop[l] EXCEPT !.pc = "boot", !.user = loop[l].driver]
                  ELSE IF At(l, "idle") THEN loop[l] ELSE [loop[l] EXCEPT !.pc = "done"]]
    /\ restarts' = restarts + 1
    /\ UNCHANGED <<main, wt, mirror, collided>>

\* backfillAllMounts: one loop after the other.
Backfill(l) ==
    /\ At(l, "boot")
    /\ \A m \in Loops : loop[m].job = "boot" => loop[m].pc \in {"boot", "done"}
    /\ loop' = [loop EXCEPT ![l].pc = "mount", ![l].at = "knowledge", ![l].job = "boot"]
    /\ UNCHANGED <<main, chain, adding, wt, collided, world>>

Step(l) ==
    \/ Know(l) \/ Notes(l) \/ CloneStart(l) \/ (\E works \in BOOLEAN : CloneEnd(l, works))
    \/ LeaveContext(l) \/ MirrorLook(l) \/ MirrorClone(l)
    \/ (\E works \in BOOLEAN : MirrorCloned(l, works)) \/ Workdir(l) \/ MountEmpty(l) \/ MountWait(l) \/ AddSkip(l) \/ AddLink(l)
    \/ AddStart(l) \/ AddEnd(l) \/ AddFail(l) \/ Mounted(l) \/ Backfill(l)

Next ==
    \/ \E l \in Loops, u \in Users, v \in Vaults : Create(l, u, v)
    \/ \E l \in Loops : Step(l)
    \/ \E l \in Loops, u \in Users : Drive(l, u)
    \/ Restart

Spec == Init /\ [][Next]_vars

\* git commands end (clone and fetch have a timeout) and promises resume.
FairSpec == Spec /\ \A l \in Loops : WF_vars(Step(l))
----------------------------------------------------------------------------
\* Two calls never meet in one repository: neither two clones of the same
\* directory nor two worktree additions (the races runExclusive is there for).
NoCollision == ~collided

Whole(l, x) ==
    \/ x \in Cloned /\ loop[l].driver \notin Declared
    \/ wt[l][x].st = "worktree" /\ main[wt[l][x].of][x].st = "ready"
       /\ wt[l][x].gen = main[wt[l][x].of][x].gen

\* A loop that is listed, was created without a warning, never changed hands
\* and is not being worked on has every context as a worktree of a complete repository: no
\* race of creations, no failed command and no kill of the server leaves a
\* listed loop with a context that is silently missing.
ListedLoopsAreWhole ==
    \A l \in Loops :
        loop[l].meta /\ loop[l].pc = "done" /\ ~loop[l].warned /\ ~loop[l].moved =>
            \A x \in Contexts : Whole(l, x)

\* Every call that works on a loop ends: no failing call blocks its key.
CallsEnd == \A l \in Loops : loop[l].pc # "idle" ~> loop[l].pc = "done"

\* The main repositories bound into a loop's container, those of its driver,
\* are the ones its worktrees derive from.
WorktreesMatchMounts ==
    \A l \in Loops, x \in Cloned :
        At(l, "done") /\ loop[l].meta /\ wt[l][x].st = "worktree" => wt[l][x].of = loop[l].driver

\* A loop created on a repository works in a worktree of it: the first loop
\* clones the mirror, every later loop finds it.
RepoLoopsHaveTheirRepo ==
    \A l \in WithRepo : loop[l].meta => loop[l].workdir = "worktree"
============================================================================
