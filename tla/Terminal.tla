------------------------------ MODULE Terminal ------------------------------
(***************************************************************************)
(* The terminal of one loop (server/src/term.ts): a PTY process in the     *)
(* loop's container, shared by every websocket that attaches, found        *)
(* through the maps `terms` (live) and `pending` (being spawned).          *)
(*                                                                         *)
(* A websocket attaches when it opens and detaches in its close handler,   *)
(* whether its browser or the server closed it.  The continuations of one  *)
(* promise run in one burst, so that the end of a spawn, the killTerm()    *)
(* calls that wait for it and the attaches that wait for it are one        *)
(* action.  ensureContainer() may fail; with a container that does not     *)
(* come up no process is spawned.  The exit of a process is noticed some   *)
(* time after it is killed, or after it ends by itself.                    *)
(***************************************************************************)
EXTENDS FiniteSets

CONSTANTS
    Sockets,   \* the websockets; each opens once
    Procs,     \* the spawns of the terminal process
    None

ASSUME TerminalAssumption == None \notin Procs

VARIABLES
    terms,      \* terms.get(loopId), or None
    pending,    \* the spawn that pending.get(loopId) is, or None
    proc,       \* the state of each spawn and of its process
    killed,     \* the spawns that a killTerm() waits for
    subs,       \* the subscribers of each terminal
    sock,       \* the state of each websocket
    waits,      \* the spawn each websocket waits for
    pty         \* is "pty" an active source of the container?

maps         == <<terms, pending>>
process      == <<proc, killed, subs>>
sockets      == <<sock, waits>>
terminalVars == <<maps, process, sockets, pty>>

ProcStates == {"none",
               "spawning",
               "live",
               "dying",     \* killed, its exit not yet noticed
               "gone"}
SockStates == {"new",
               "waiting",   \* in attachTerm's await
               "open",      \* attached
               "closing",   \* closed by the server, its close handler to run
               "closed"}

TerminalInit ==
    /\ terms = None /\ pending = None
    /\ proc = [p \in Procs |-> "none"]
    /\ killed = {}
    /\ subs = [p \in Procs |-> {}]
    /\ sock = [s \in Sockets |-> "new"]
    /\ waits = [s \in Sockets |-> None]
    /\ pty = FALSE

-----------------------------------------------------------------------------
\* The server sends "exit" to each of these websockets and closes it.
CloseAll(S) == sock' = [s \in Sockets |-> IF s \in S /\ sock[s] = "open" THEN "closing" ELSE sock[s]]

\* attachTerm and getOrSpawn: an existing terminal is joined at once, a spawn
\* under way is waited for, else one begins.
Attach(s) ==
    /\ sock[s] = "new"
    /\ \/ /\ terms # None
          /\ subs' = [subs EXCEPT ![terms] = @ \cup {s}]
          /\ sock' = [sock EXCEPT ![s] = "open"]
          /\ UNCHANGED <<pending, proc, waits>>
       \/ /\ terms = None /\ pending # None
          /\ sock' = [sock EXCEPT ![s] = "waiting"]
          /\ waits' = [waits EXCEPT ![s] = pending]
          /\ UNCHANGED <<pending, proc, subs>>
       \/ /\ terms = None /\ pending = None
          /\ \E p \in Procs :
                /\ proc[p] = "none"
                /\ proc' = [proc EXCEPT ![p] = "spawning"]
                /\ pending' = p
                /\ waits' = [waits EXCEPT ![s] = p]
          /\ sock' = [sock EXCEPT ![s] = "waiting"]
          /\ UNCHANGED subs
    /\ UNCHANGED <<terms, killed, pty>>

Waiters(p) == {s \in Sockets : waits[s] = p}

\* The promises that are waited for, not their websockets.
SeededPromises(p) ==
    /\ subs' = [subs EXCEPT ![p] = {waits[s] : s \in Waiters(p)}]
    /\ UNCHANGED sock

\* Waiters that joined the spawn of another are forgotten.
SeededAdmit(p) ==
    /\ subs' = [subs EXCEPT ![p] = {CHOOSE s \in Waiters(p) : TRUE}]
    /\ sock' = [s \in Sockets |-> IF s \in subs'[p] /\ sock[s] = "waiting" THEN "open" ELSE sock[s]]

\* The attaches that waited for p subscribe to it, also those whose websocket
\* has closed meanwhile.
Admit(p) ==
    /\ subs' = [subs EXCEPT ![p] = Waiters(p)]
    /\ sock' = [s \in Sockets |-> IF s \in Waiters(p) /\ sock[s] = "waiting" THEN "open" ELSE sock[s]]

\* The container is up and the process spawned.  A killTerm() that waited for it
\* removes and kills it before the waiting attaches subscribe; it does not
\* release the source.  The pending entry is deleted, whosever it is.
Spawned(p) ==
    /\ proc[p] = "spawning"
    /\ pty' = TRUE
    /\ terms' = IF p \in killed THEN None ELSE p
    /\ proc' = [proc EXCEPT ![p] = IF p \in killed THEN "dying" ELSE "live"]
    /\ Admit(p)
    /\ pending' = None
    /\ UNCHANGED <<killed, waits>>

\* The waiting websockets are told and closed, and their close handlers do not
\* detach anything.
SpawnFails(p) ==
    /\ proc[p] = "spawning"
    /\ proc' = [proc EXCEPT ![p] = "gone"]
    /\ sock' = [s \in Sockets |-> IF s \in Waiters(p) /\ sock[s] = "waiting" THEN "closed" ELSE sock[s]]
    /\ pending' = None
    /\ UNCHANGED <<terms, killed, subs, waits, pty>>

\* The viewers are not told.
SeededExit(p) ==
    /\ proc[p] \in {"live", "dying"}
    /\ proc' = [proc EXCEPT ![p] = "gone"]
    /\ terms' = None
    /\ UNCHANGED <<pending, killed, subs, sockets, pty>>

\* onExit of a process that was killed, or that ended by itself (the user typed
\* exit, the container stopped).  The map entry is deleted, whosever it is.
Exit(p) ==
    /\ proc[p] \in {"live", "dying"}
    /\ proc' = [proc EXCEPT ![p] = "gone"]
    /\ CloseAll(subs[p])
    /\ terms' = None
    /\ UNCHANGED <<pending, killed, subs, waits, pty>>

\* The terminal stays in the map.
SeededKill ==
    /\ proc' = [proc EXCEPT ![terms] = IF @ = "live" THEN "dying" ELSE @]
    /\ UNCHANGED terms
    /\ pty' = FALSE

\* proc.kill() of the terminal in the map, which is taken out of it, and
\* markInactive(loopId, "pty").
KillCurrent ==
    /\ proc' = [proc EXCEPT ![terms] = IF @ = "live" THEN "dying" ELSE @]
    /\ terms' = None
    /\ pty' = FALSE

\* The close handler of a websocket: detachTerm of whatever terminal is in the map.
\* The last viewer to leave kills it.
detachTerm(s) ==
    /\ sock[s] \in {"waiting", "open", "closing"}
    /\ sock' = [sock EXCEPT ![s] = "closed"]
    /\ \/ terms = None /\ UNCHANGED <<terms, proc, subs, pty>>
       \/ /\ terms # None
          /\ subs' = [subs EXCEPT ![terms] = @ \ {s}]
          /\ \/ subs[terms] \subseteq {s} /\ KillCurrent
             \/ ~(subs[terms] \subseteq {s}) /\ UNCHANGED <<terms, proc, pty>>
    /\ UNCHANGED <<pending, killed, waits>>

\* Archive, request-drive, a change of the shared ports.
killTerm ==
    \/ /\ pending # None
       /\ killed' = killed \cup {pending}
       /\ pending' = None
       /\ UNCHANGED <<terms, proc, subs, sockets, pty>>
    \/ /\ pending = None /\ terms # None
       /\ CloseAll(subs[terms])
       /\ subs' = [subs EXCEPT ![terms] = {}]
       /\ KillCurrent
       /\ UNCHANGED <<pending, killed, waits>>

TerminalNext ==
    \/ \E s \in Sockets : Attach(s) \/ detachTerm(s)
    \/ \E p \in Procs : Spawned(p) \/ SpawnFails(p) \/ Exit(p)
    \/ killTerm

TerminalSpec == TerminalInit /\ [][TerminalNext]_terminalVars

\* A spawn ends in one way or the other; a killed process exits; the close handler
\* of a websocket that the server closed runs.
TerminalFairness ==
    /\ \A p \in Procs : /\ WF_terminalVars(Spawned(p) \/ SpawnFails(p))
                        /\ WF_terminalVars(proc[p] = "dying" /\ Exit(p))
    /\ \A s \in Sockets : WF_terminalVars(sock[s] = "closing" /\ detachTerm(s))

TerminalFairSpec == TerminalSpec /\ TerminalFairness

-----------------------------------------------------------------------------
TerminalTypeOK ==
    /\ terms \in Procs \cup {None} /\ pending \in Procs \cup {None}
    /\ proc \in [Procs -> ProcStates]
    /\ killed \subseteq Procs
    /\ subs \in [Procs -> SUBSET Sockets]
    /\ sock \in [Sockets -> SockStates]
    /\ waits \in [Sockets -> Procs \cup {None}]
    /\ pty \in BOOLEAN

\* A viewer that is attached looks at a process that is alive, or that was killed
\* and whose exit will close the viewer: whatever kills, exits and respawns
\* overlap, nobody is left with a silent terminal.
ViewersServed ==
    \A s \in Sockets : sock[s] = "open" =>
        \E p \in Procs : s \in subs[p] /\ proc[p] \in {"live", "dying"}

\* While a terminal is in the map its source holds the container, although killing
\* one terminal releases the source that all of them share.
TerminalHoldsContainer == terms # None => pty

\* A websocket that waits for a spawn is attached or closed in the end, also when
\* the spawn fails or is killed.
WaitersAnswered == \A s \in Sockets : sock[s] = "waiting" ~> sock[s] # "waiting"

-----------------------------------------------------------------------------
(* What comments say and some schedules contradict.                        *)

\* '"pty" (active terminal subscribers)': with every process gone, none being
\* spawned and every websocket closed, the source is not active.
SourceReleased ==
    /\ \A p \in Procs : proc[p] \in {"none", "gone"}
    /\ \A s \in Sockets : sock[s] \in {"new", "closed"}
    => ~pty

\* "So no orphaned processes linger": a live process is one that the next killTerm()
\* or the last detach will find.
LiveProcessFound == \A p \in Procs : proc[p] = "live" => terms = p
=============================================================================
