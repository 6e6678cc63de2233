------------------------- MODULE ContainerLifecycle -------------------------
(***************************************************************************)
(* The podman container of one loop (server/src/podman.ts): the calls of   *)
(* ensureContainer() that bring it up, the registry of activity sources    *)
(* that hold it up, and the idle stop.                                     *)
(*                                                                         *)
(* The callers are ensureStarted() of the loop's session, which becomes    *)
(* the source "sdk"; the spawn of its terminal, which becomes "pty"; and   *)
(* the one-shot shell command of the chat, which becomes no source.        *)
(*                                                                         *)
(* podman is external.  A command takes effect at one moment, between the  *)
(* moment it is issued and the moment its exit is noticed; ensureContainer *)
(* awaits each of its commands, so what it learnt from inspect may be      *)
(* stale when the next one takes effect.  A configuration stands for the   *)
(* hash of the create arguments together with the image.                   *)
(***************************************************************************)
EXTENDS FiniteSets

CONSTANTS
    Calls,     \* the calls of ensureContainer()
    Sources,   \* the kinds of callers: a subset of CallerKinds
    Configs,   \* the configurations a container can be created with
    Bare,      \* the one the shell command asks for: no vault, repo or ports
    MayCrash   \* may the server be killed and started again?

CallerKinds == {"sdk", "pty", "shell"}

ASSUME ContainerAssumption ==
    Sources \subseteq CallerKinds /\ Bare \in Configs /\ MayCrash \in BOOLEAN

VARIABLES
    config,      \* the configuration the loop's metadata asks for
    state,       \* the container: "missing", "stopped" or "running"
    hash,        \* the configuration it was created with
    active,      \* registry.active: the sources that are active
    idleTimer,   \* is registry.idleTimers set for the loop?
    stopping,    \* has the timer issued a podman stop that is to take effect?
    step,        \* the command each call is about to carry out
    source,      \* who makes the call
    want         \* the configuration it was asked for

registry  == <<active, idleTimer, stopping>>
container == <<state, hash>>
calls     == <<step, source, want>>
vars      == <<config, container, registry, calls>>

Steps == {"new", "inspect", "stop", "rm", "create", "start", "return", "done", "failed",
          "lost"}    \* with the memory of a server that was killed
InProgress == {"inspect", "stop", "rm", "create", "start", "return"}

Init ==
    /\ config \in Configs
    /\ state \in {"missing", "stopped"} /\ hash \in Configs
    /\ active = {} /\ idleTimer = FALSE /\ stopping = FALSE
    /\ step = [c \in Calls |-> "new"]
    /\ source = [c \in Calls |-> "none"]
    /\ want = [c \in Calls |-> Bare]

Goto(c, s) == step' = [step EXCEPT ![c] = s]

-----------------------------------------------------------------------------
(* The registry.  As in the other modules, Seeded definitions are wrong    *)
(* versions of the one that follows.                                       *)

markActive(s) ==
    /\ active' = active \cup {s}
    /\ idleTimer' = FALSE

\* No timer is armed.
SeededInactive(s) == active' = active \ {s} /\ UNCHANGED idleTimer

\* markInactive and scheduleIdleStop: the last source to go arms the timer.
markInactive(s) ==
    /\ active' = active \ {s}
    /\ idleTimer' = (idleTimer \/ active' = {})

\* The timer only looks again, and stops nothing.
SeededTimer ==
    /\ idleTimer
    /\ idleTimer' = FALSE
    /\ UNCHANGED <<config, container, active, stopping, calls>>

\* The idle timer runs out and looks at the sources again.  It is half an hour,
\* a stop takes seconds: the next one finds the last one done.
IdleTimeout ==
    /\ idleTimer /\ ~stopping
    /\ idleTimer' = FALSE
    /\ stopping' = (active = {})
    /\ UNCHANGED <<config, container, active, calls>>

\* stopContainer: the stop takes effect, on whatever container is there.
IdleStop ==
    /\ stopping
    /\ stopping' = FALSE
    /\ state' = IF state = "running" THEN "stopped" ELSE state
    /\ UNCHANGED <<config, hash, active, idleTimer, calls>>

-----------------------------------------------------------------------------
(* ensureContainer *)

\* No label is found among the create arguments: the hash is empty.
SeededEnsure(c, s) ==
    /\ step[c] = "new"
    /\ source' = [source EXCEPT ![c] = s]
    /\ want' = [want EXCEPT ![c] = ""]
    /\ Goto(c, "inspect")
    /\ UNCHANGED <<config, container, registry>>

\* A call begins, with what the metadata says now; the shell command passes only
\* the loop and its creator.
Ensure(c, s) ==
    /\ step[c] = "new"
    /\ source' = [source EXCEPT ![c] = s]
    /\ want' = [want EXCEPT ![c] = IF s = "shell" THEN Bare ELSE config]
    /\ Goto(c, "inspect")
    /\ UNCHANGED <<config, container, registry>>

\* inspectContainer, and the branch that its answer will take.
Inspect(c) ==
    /\ step[c] = "inspect"
    /\ Goto(c, CASE state = "missing" -> "create"
                 [] state = "stopped" /\ hash = want[c] -> "start"
                 [] state = "stopped" /\ hash # want[c] -> "rm"
                 [] state = "running" /\ hash = want[c] -> "return"
                 [] state = "running" /\ hash # want[c] -> "stop")
    /\ UNCHANGED <<config, container, registry, source, want>>

\* podman stop of a container that is gone fails, and so does the call.
StopOld(c) ==
    /\ step[c] = "stop"
    /\ \/ state = "missing" /\ Goto(c, "failed") /\ UNCHANGED state
       \/ state # "missing" /\ Goto(c, "rm") /\ state' = "stopped"
    /\ UNCHANGED <<config, hash, registry, source, want>>

\* podman rm --force: running or not, there or not.
RemoveOld(c) ==
    /\ step[c] = "rm"
    /\ state' = "missing"
    /\ Goto(c, "create")
    /\ UNCHANGED <<config, hash, registry, source, want>>

\* The name may be taken: without --replace the command fails.
SeededCreate(c) ==
    /\ step[c] = "create"
    /\ \/ state # "missing" /\ Goto(c, "failed") /\ UNCHANGED container
       \/ state = "missing" /\ Goto(c, "start") /\ state' = "stopped" /\ hash' = want[c]
    /\ UNCHANGED <<config, registry, source, want>>

\* podman create --replace removes a container of that name, running or not.
Create(c) ==
    /\ step[c] = "create"
    /\ state' = "stopped" /\ hash' = want[c]
    /\ Goto(c, "start")
    /\ UNCHANGED <<config, registry, source, want>>

\* podman start of a running container does nothing; of a missing one it fails.
Start(c) ==
    /\ step[c] = "start"
    /\ \/ state = "missing" /\ Goto(c, "failed") /\ UNCHANGED state
       \/ state # "missing" /\ Goto(c, "return") /\ state' = "running"
    /\ UNCHANGED <<config, hash, registry, source, want>>

\* The call returns: its caller becomes an activity source, unless it is the
\* shell command.
Return(c) ==
    /\ step[c] = "return"
    /\ \/ source[c] # "shell" /\ markActive(source[c])
       \/ source[c] = "shell" /\ UNCHANGED <<active, idleTimer>>
    /\ Goto(c, "done")
    /\ UNCHANGED <<config, container, stopping, source, want>>

-----------------------------------------------------------------------------
(* What the rest of the server does *)

\* destroy() of the session, detachTerm() or killTerm(), whether or not the
\* source was active.
Release(s) ==
    /\ markInactive(s)
    /\ UNCHANGED <<config, container, stopping, calls>>

\* The driver, the vault, the repository, the shared ports or the image change.
Reconfigure(h) ==
    /\ h # config
    /\ config' = h
    /\ UNCHANGED <<container, registry, calls>>

\* The server is killed and started again: its memory is lost, the container
\* stays as it is.  A command that was issued has taken effect or never does.
Crash ==
    /\ MayCrash
    /\ active' = {} /\ idleTimer' = FALSE
    /\ step' = [c \in Calls |-> IF step[c] \in InProgress THEN "lost" ELSE step[c]]
    /\ UNCHANGED <<config, container, stopping, source, want>>

Commands(c) ==
    Inspect(c) \/ StopOld(c) \/ RemoveOld(c) \/ Create(c) \/ Start(c) \/ Return(c)

Next ==
    \/ \E c \in Calls : Commands(c) \/ \E s \in Sources : Ensure(c, s)
    \/ \E s \in Sources \ {"shell"} : Release(s)
    \/ \E h \in Configs : Reconfigure(h)
    \/ IdleTimeout \/ IdleStop
    \/ Crash

Spec == Init /\ [][Next]_vars

\* Commands take effect and timers run out; callers owe nothing.
Fairness == /\ \A c \in Calls : WF_vars(Commands(c))
            /\ WF_vars(IdleTimeout) /\ WF_vars(IdleStop)

FairSpec == Spec /\ Fairness

-----------------------------------------------------------------------------
TypeOK ==
    /\ config \in Configs
    /\ state \in {"missing", "stopped", "running"} /\ hash \in Configs
    /\ active \subseteq Sources
    /\ idleTimer \in BOOLEAN /\ stopping \in BOOLEAN
    /\ step \in [Calls -> Steps]
    /\ source \in [Calls -> Sources \cup {"none"}]
    /\ \A c \in Calls : step[c] # "new" => source[c] # "none"
    /\ want \in [Calls -> Configs]

\* No running container is forgotten (markInactive, scheduleIdleStop): without an
\* active source there is a timer that will stop it, a stop on its way, or a call
\* about to return to a new source.  Several calls and releases overlap in every
\* order, and the registry's set and timer are never updated together with podman.
ContainerWatched ==
    state = "running" /\ active = {} =>
        idleTimer \/ stopping \/ \E c \in Calls : step[c] = "return"

\* While the configuration stays what the container was made with, concurrent
\* calls never make each other fail, although they share no lock and may all find
\* the container missing ("we own the name").
EnsuresSucceed == \A c \in Calls : step[c] # "failed"

\* A container without an active source is stopped in the end ("idle = sandbox
\* dies"), unless a source comes back.
ContainerReclaimed == (state = "running" /\ active = {}) ~> (state # "running" \/ active # {})

-----------------------------------------------------------------------------
(* What the comments of podman.ts say, which some schedules contradict.    *)
(* EnsuresSucceed joins them once the configuration may change,            *)
(* ContainerReclaimed with the shell command, and ContainerWatched when    *)
(* the server may be killed.                                               *)

\* "running, hash matches -> no-op": no call stops, removes or replaces a running
\* container of the configuration it wants.
MatchingContainerKept ==
    [][\A c \in Calls : StopOld(c) \/ RemoveOld(c) \/ Create(c) =>
            ~(state = "running" /\ hash = want[c])]_vars

\* "If no source re-activates within the window, we podman stop": a stop takes
\* effect only on a container without an active source.
IdleStopSparesActive == [][IdleStop => active = {}]_vars
=============================================================================
