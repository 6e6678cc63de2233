--------------------------- MODULE Sandbox_proofs ---------------------------
(***************************************************************************)
(* Theorems about what a loop runs in, its container (ContainerLifecycle)  *)
(* and the terminal in it (Terminal): for any sets of calls, configurations, *)
(* websockets and spawns.                                                  *)
(***************************************************************************)
EXTENDS ContainerLifecycle, Terminal, TLAPS

-----------------------------------------------------------------------------
(* The container.                                                          *)

(* Every caller becomes an activity source, and the server is not killed.  *)
EveryCallerHolds == "shell" \notin Sources /\ ~MayCrash

(* The configuration never changes.                                        *)
OneConfig == Configs = {Bare}

-----------------------------------------------------------------------------
\* Every state is well typed, whatever callers, configurations and crashes there
\* are: each command leaves a container of a known configuration, and each call
\* is at one of the steps of ensureContainer.
LEMMA TypeStep == TypeOK /\ [Next]_vars => TypeOK'
<1> SUFFICES ASSUME TypeOK, [Next]_vars PROVE TypeOK'
  OBVIOUS
<1> USE ContainerAssumption
<1>1. ASSUME NEW c \in Calls, NEW s \in Sources, Ensure(c, s) PROVE TypeOK'
  <2>1. /\ step' \in [Calls -> Steps]
        /\ \A d \in Calls : step'[d] # "new" => d = c \/ step[d] # "new"
    BY <1>1 DEF Ensure, TypeOK, Goto, Steps
  <2>2. want' \in [Calls -> Configs]
    BY <1>1 DEF Ensure, TypeOK
  <2>3. s # "none"
    BY DEF CallerKinds
  <2>4. /\ source' \in [Calls -> Sources \cup {"none"}]
        /\ \A d \in Calls : source'[d] = IF d = c THEN s ELSE source[d]
    BY <1>1 DEF Ensure, TypeOK
  <2> QED
    BY <1>1, <2>1, <2>2, <2>3, <2>4 DEF Ensure, TypeOK, container, registry
<1>2. ASSUME NEW c \in Calls, Inspect(c) PROVE TypeOK'
  <2>1. step' \in [Calls -> Steps]
    BY <1>2 DEF Inspect, Goto, TypeOK, Steps
  <2>2. \A d \in Calls : step'[d] # "new" => step[d] # "new"
    BY <1>2 DEF Inspect, Goto, TypeOK
  <2> QED
    BY <1>2, <2>1, <2>2 DEF Inspect, TypeOK, container, registry
<1>3. ASSUME NEW c \in Calls, StopOld(c) PROVE TypeOK'
  BY <1>3 DEF StopOld, TypeOK, Goto, Steps, registry
<1>4. ASSUME NEW c \in Calls, RemoveOld(c) PROVE TypeOK'
  BY <1>4 DEF RemoveOld, TypeOK, Goto, Steps, registry
<1>5. ASSUME NEW c \in Calls, Create(c) PROVE TypeOK'
  BY <1>5 DEF Create, TypeOK, Goto, Steps, registry
<1>6. ASSUME NEW c \in Calls, Start(c) PROVE TypeOK'
  BY <1>6 DEF Start, TypeOK, Goto, Steps, registry
<1>7. ASSUME NEW c \in Calls, Return(c) PROVE TypeOK'
  BY <1>7 DEF Return, TypeOK, Goto, Steps, container, markActive
<1>8. ASSUME NEW s \in Sources \ {"shell"}, Release(s) PROVE TypeOK'
  BY <1>8 DEF Release, TypeOK, container, calls, markInactive
<1>9. ASSUME NEW h \in Configs, Reconfigure(h) PROVE TypeOK'
  BY <1>9 DEF Reconfigure, TypeOK, container, calls, registry
<1>10. CASE IdleTimeout
  BY <1>10 DEF IdleTimeout, TypeOK, container, calls
<1>11. CASE IdleStop
  BY <1>11 DEF IdleStop, TypeOK, calls
<1>12. CASE Crash
  <2>1. /\ step' \in [Calls -> Steps]
        /\ \A d \in Calls : step'[d] # "new" => step[d] # "new"
    BY <1>12 DEF Crash, TypeOK, Steps, InProgress
  <2> QED
    BY <1>12, <2>1 DEF Crash, TypeOK, container
<1>13. CASE UNCHANGED vars
  BY <1>13 DEF vars, TypeOK, container, calls, registry
<1> QED
  BY <1>1, <1>2, <1>3, <1>4, <1>5, <1>6, <1>7, <1>8, <1>9, <1>10, <1>11, <1>12, <1>13
     DEF Next, Commands

THEOREM TypeCorrect == Spec => []TypeOK
<1>1. Init => TypeOK
  BY ContainerAssumption DEF Init, TypeOK, Steps
<1> QED
  BY <1>1, TypeStep, PTL DEF Spec

-----------------------------------------------------------------------------
\* No running container is forgotten.  The invariant is inductive as it stands:
\* only a start makes the container run and its caller is about to return; only a
\* return ends that, and makes its caller a source; the last source to go arms the
\* timer, the timer issues a stop if no source came back, and the stop takes effect.
LEMMA WatchedStep ==
    ASSUME EveryCallerHolds
    PROVE  TypeOK /\ ContainerWatched /\ [Next]_vars => ContainerWatched'
<1> SUFFICES ASSUME TypeOK, ContainerWatched, [Next]_vars PROVE ContainerWatched'
  OBVIOUS
<1> DEFINE Returning == \E c \in Calls : step[c] = "return"
<1> USE DEF ContainerWatched
<1>1. ASSUME NEW c \in Calls, NEW s \in Sources, Ensure(c, s) PROVE ContainerWatched'
  <2>1. Returning => Returning'
    BY <1>1 DEF Ensure, TypeOK, Goto
  <2> QED
    BY <1>1, <2>1 DEF Ensure, container, registry
<1>2. ASSUME NEW c \in Calls, Inspect(c) PROVE ContainerWatched'
  <2>1. Returning => Returning'
    BY <1>2 DEF Inspect, TypeOK, Goto
  <2> QED
    BY <1>2, <2>1 DEF Inspect, container, registry
<1>3. ASSUME NEW c \in Calls, StopOld(c) PROVE ContainerWatched'
  BY <1>3 DEF StopOld
<1>4. ASSUME NEW c \in Calls, RemoveOld(c) PROVE ContainerWatched'
  BY <1>4 DEF RemoveOld
<1>5. ASSUME NEW c \in Calls, Create(c) PROVE ContainerWatched'
  BY <1>5 DEF Create
<1>6. ASSUME NEW c \in Calls, Start(c) PROVE ContainerWatched'
  <2>1. state # "missing" => Returning'
    BY <1>6 DEF Start, TypeOK, Goto
  <2>2. state = "missing" => state' = "missing"
    BY <1>6 DEF Start
  <2> QED
    BY <2>1, <2>2
<1>7. ASSUME NEW c \in Calls, Return(c) PROVE ContainerWatched'
  <2>1. source[c] # "shell"
    BY <1>7, ContainerAssumption DEF Return, TypeOK, EveryCallerHolds
  <2>2. active' # {}
    BY <1>7, <2>1 DEF Return, markActive
  <2> QED
    BY <2>2
<1>8. ASSUME NEW s \in Sources \ {"shell"}, Release(s) PROVE ContainerWatched'
  BY <1>8 DEF Release, markInactive
<1>9. ASSUME NEW h \in Configs, Reconfigure(h) PROVE ContainerWatched'
  BY <1>9 DEF Reconfigure, container, calls, registry
<1>10. CASE IdleTimeout
  BY <1>10 DEF IdleTimeout, container, calls
<1>11. CASE IdleStop
  BY <1>11 DEF IdleStop, TypeOK
<1>12. CASE Crash
  BY <1>12 DEF Crash, EveryCallerHolds
<1>13. CASE UNCHANGED vars
  BY <1>13 DEF vars, container, calls, registry
<1> QED
  BY <1>1, <1>2, <1>3, <1>4, <1>5, <1>6, <1>7, <1>8, <1>9, <1>10, <1>11, <1>12, <1>13
     DEF Next, Commands

THEOREM NoContainerForgotten ==
    ASSUME EveryCallerHolds
    PROVE  Spec => []ContainerWatched
<1>1. Init => ContainerWatched
  BY DEF Init, ContainerWatched
<1>2. TypeOK /\ ContainerWatched /\ [Next]_vars => ContainerWatched'
  BY WatchedStep
<1> QED
  BY <1>1, <1>2, TypeCorrect, PTL DEF Spec

-----------------------------------------------------------------------------
\* With one configuration no call ever stops or removes the container, so one that
\* is about to start it finds it: this, and the container's and the calls'
\* configuration being that one, is what has to be carried along.
Steady ==
    /\ hash = Bare /\ \A c \in Calls : want[c] = Bare
    /\ \A c \in Calls : step[c] \notin {"stop", "rm", "failed"}
    /\ \A c \in Calls : step[c] = "start" => state # "missing"

\* Concurrent calls of ensureContainer for one configuration all succeed.
THEOREM ConcurrentEnsuresSucceed ==
    ASSUME OneConfig
    PROVE  Spec => []EnsuresSucceed
<1>1. Init => Steady
  BY DEF Init, Steady, OneConfig
<1>2. TypeOK /\ Steady /\ [Next]_vars => Steady'
  <2> SUFFICES ASSUME TypeOK, Steady, [Next]_vars PROVE Steady'
    OBVIOUS
  <2> USE DEF Steady
  <2>1. ASSUME NEW c \in Calls, NEW s \in Sources, Ensure(c, s) PROVE Steady'
    <3>1. want'[c] = Bare
      BY <2>1 DEF Ensure, TypeOK, OneConfig
    <3> QED
      BY <2>1, <3>1 DEF Ensure, TypeOK, Goto, container
  <2>2. ASSUME NEW c \in Calls, Inspect(c) PROVE Steady'
    <3>1. hash = want[c]
      OBVIOUS
    <3>2. /\ state = "missing" => Goto(c, "create")
          /\ state = "stopped" => Goto(c, "start")
          /\ state = "running" => Goto(c, "return")
      BY <2>2, <3>1 DEF Inspect
    <3>3. /\ state = "missing" => step'[c] = "create"
          /\ state = "stopped" => step'[c] = "start"
          /\ state = "running" => step'[c] = "return"
      BY <3>2 DEF Goto, TypeOK
    <3>4. \A d \in Calls \ {c} : step'[d] = step[d]
      BY <3>2 DEF Goto, TypeOK
    <3>5. \A d \in Calls : step'[d] \notin {"stop", "rm", "failed"}
      BY <3>3, <3>4 DEF TypeOK
    <3>6. \A d \in Calls : step'[d] = "start" => state # "missing"
      BY <3>3, <3>4 DEF TypeOK
    <3> QED
      BY <2>2, <3>5, <3>6 DEF Inspect, container
  <2>3. ASSUME NEW c \in Calls, StopOld(c) PROVE Steady'
    BY <2>3 DEF StopOld
  <2>4. ASSUME NEW c \in Calls, RemoveOld(c) PROVE Steady'
    BY <2>4 DEF RemoveOld
  <2>5. ASSUME NEW c \in Calls, Create(c) PROVE Steady'
    BY <2>5 DEF Create, TypeOK, Goto
  <2>6. ASSUME NEW c \in Calls, Start(c) PROVE Steady'
    BY <2>6 DEF Start, TypeOK, Goto
  <2>7. ASSUME NEW c \in Calls, Return(c) PROVE Steady'
    BY <2>7 DEF Return, TypeOK, Goto, container
  <2>8. ASSUME NEW s \in Sources \ {"shell"}, Release(s) PROVE Steady'
    BY <2>8 DEF Release, container, calls
  <2>9. ASSUME NEW h \in Configs, Reconfigure(h) PROVE Steady'
    BY <2>9 DEF Reconfigure, container, calls
  <2>10. CASE IdleTimeout
    BY <2>10 DEF IdleTimeout, container, calls
  <2>11. CASE IdleStop
    BY <2>11 DEF IdleStop, calls
  <2>12. CASE Crash
    BY <2>12 DEF Crash, container, InProgress
  <2>13. CASE UNCHANGED vars
    BY <2>13 DEF vars, container, calls
  <2> QED
    BY <2>1, <2>2, <2>3, <2>4, <2>5, <2>6, <2>7, <2>8, <2>9, <2>10, <2>11, <2>12, <2>13
       DEF Next, Commands
<1>3. Steady => EnsuresSucceed
  BY DEF Steady, EnsuresSucceed
<1> QED
  BY <1>1, <1>2, <1>3, TypeCorrect, PTL DEF Spec

-----------------------------------------------------------------------------
(* The terminal.                                                           *)

(* A terminal in the map is alive and holds the container.                 *)
MapIsLive == terms # None => proc[terms] = "live" /\ pty

TerminalInv == TerminalTypeOK /\ MapIsLive /\ ViewersServed

-----------------------------------------------------------------------------
\* Types are preserved by every step.
LEMMA TerminalTypeStep == TerminalTypeOK /\ MapIsLive /\ [TerminalNext]_terminalVars => TerminalTypeOK'
<1> SUFFICES ASSUME TerminalTypeOK, MapIsLive, [TerminalNext]_terminalVars PROVE TerminalTypeOK'
  OBVIOUS
<1> USE DEF TerminalTypeOK
<1>1. ASSUME NEW s \in Sockets, Attach(s) PROVE TerminalTypeOK'
  <2>1. sock' \in [Sockets -> SockStates]
    BY <1>1 DEF Attach, SockStates
  <2>2. waits' \in [Sockets -> Procs \cup {None}]
    BY <1>1 DEF Attach
  <2>3. subs' \in [Procs -> SUBSET Sockets]
    BY <1>1 DEF Attach
  <2>4. proc' \in [Procs -> ProcStates] /\ pending' \in Procs \cup {None}
    BY <1>1 DEF Attach, ProcStates
  <2> QED
    BY <1>1, <2>1, <2>2, <2>3, <2>4 DEF Attach
<1>2. ASSUME NEW s \in Sockets, detachTerm(s) PROVE TerminalTypeOK'
  <2>1. sock' \in [Sockets -> SockStates]
    BY <1>2 DEF detachTerm, SockStates
  <2>2. subs' \in [Procs -> SUBSET Sockets]
    BY <1>2 DEF detachTerm
  <2>3. /\ proc' \in [Procs -> ProcStates] /\ terms' \in Procs \cup {None}
        /\ pty' \in BOOLEAN
    BY <1>2 DEF detachTerm, KillCurrent, ProcStates
  <2> QED
    BY <1>2, <2>1, <2>2, <2>3 DEF detachTerm
<1>3. ASSUME NEW p \in Procs, Spawned(p) PROVE TerminalTypeOK'
  <2>1. sock' \in [Sockets -> SockStates]
    BY <1>3 DEF Spawned, Admit, SockStates
  <2>2. subs' \in [Procs -> SUBSET Sockets]
    BY <1>3 DEF Spawned, Admit, Waiters
  <2>3. proc' \in [Procs -> ProcStates]
    BY <1>3 DEF Spawned, ProcStates
  <2>4. terms' \in Procs \cup {None}
    BY <1>3 DEF Spawned
  <2> QED
    BY <1>3, <2>1, <2>2, <2>3, <2>4 DEF Spawned
<1>4. ASSUME NEW p \in Procs, SpawnFails(p) PROVE TerminalTypeOK'
  <2>1. sock' \in [Sockets -> SockStates]
    BY <1>4 DEF SpawnFails, SockStates
  <2> QED
    BY <1>4, <2>1 DEF SpawnFails, ProcStates
<1>5. ASSUME NEW p \in Procs, Exit(p) PROVE TerminalTypeOK'
  <2>1. sock' \in [Sockets -> SockStates]
    BY <1>5 DEF Exit, CloseAll, SockStates
  <2> QED
    BY <1>5, <2>1 DEF Exit, ProcStates
<1>6. CASE killTerm
  <2>1. sock' \in [Sockets -> SockStates]
    BY <1>6 DEF killTerm, CloseAll, SockStates, sockets
  <2>2. proc' \in [Procs -> ProcStates] /\ terms' \in Procs \cup {None} /\ pty' \in BOOLEAN
    BY <1>6 DEF killTerm, KillCurrent, ProcStates
  <2> QED
    BY <1>6, <2>1, <2>2 DEF killTerm, sockets
<1>7. CASE UNCHANGED terminalVars
  BY <1>7 DEF terminalVars, maps, process, sockets
<1> QED
  BY <1>1, <1>2, <1>3, <1>4, <1>5, <1>6, <1>7 DEF TerminalNext

\* The map names a live process that holds the container: every step that ends or
\* kills a process empties the map, at worst of a process that is still alive.
LEMMA MapStep == TerminalTypeOK /\ MapIsLive /\ [TerminalNext]_terminalVars => MapIsLive'
<1> SUFFICES ASSUME TerminalTypeOK, MapIsLive, [TerminalNext]_terminalVars PROVE MapIsLive'
  OBVIOUS
<1> USE TerminalAssumption DEF TerminalTypeOK, MapIsLive
<1>1. ASSUME NEW s \in Sockets, Attach(s) PROVE MapIsLive'
  BY <1>1 DEF Attach
<1>2. ASSUME NEW s \in Sockets, detachTerm(s) PROVE MapIsLive'
  BY <1>2 DEF detachTerm, KillCurrent
<1>3. ASSUME NEW p \in Procs, Spawned(p) PROVE MapIsLive'
  BY <1>3 DEF Spawned
<1>4. ASSUME NEW p \in Procs, SpawnFails(p) PROVE MapIsLive'
  BY <1>4 DEF SpawnFails
<1>5. ASSUME NEW p \in Procs, Exit(p) PROVE MapIsLive'
  BY <1>5 DEF Exit
<1>6. CASE killTerm
  BY <1>6 DEF killTerm, KillCurrent
<1>7. CASE UNCHANGED terminalVars
  BY <1>7 DEF terminalVars, maps, process
<1> QED
  BY <1>1, <1>2, <1>3, <1>4, <1>5, <1>6, <1>7 DEF TerminalNext

\* Every attached viewer keeps a process that is alive or about to close it.
LEMMA ServedStep == TerminalInv /\ [TerminalNext]_terminalVars => ViewersServed'
<1> SUFFICES ASSUME TerminalInv, [TerminalNext]_terminalVars PROVE ViewersServed'
  OBVIOUS
<1> SUFFICES ASSUME NEW v \in Sockets, sock'[v] = "open"
             PROVE  \E p \in Procs : v \in subs'[p] /\ proc'[p] \in {"live", "dying"}
  BY DEF ViewersServed
<1> USE TerminalAssumption DEF TerminalInv, TerminalTypeOK
\* A viewer that was open before the step has its process.
<1>a. sock[v] = "open" => \E p \in Procs : v \in subs[p] /\ proc[p] \in {"live", "dying"}
  BY DEF ViewersServed
<1>1. ASSUME NEW s \in Sockets, Attach(s)
      PROVE  \E p \in Procs : v \in subs'[p] /\ proc'[p] \in {"live", "dying"}
  <2>1. CASE v = s
    BY <1>1, <2>1 DEF Attach, MapIsLive
  <2>2. CASE v # s
    <3>1. sock[v] = "open"
      BY <1>1, <2>2 DEF Attach
    <3>2. PICK p \in Procs : v \in subs[p] /\ proc[p] \in {"live", "dying"}
      BY <1>a, <3>1
    <3>3. v \in subs'[p] /\ proc'[p] = proc[p]
      BY <1>1, <3>2 DEF Attach
    <3> QED
      BY <3>2, <3>3
  <2> QED
    BY <2>1, <2>2
<1>2. ASSUME NEW s \in Sockets, detachTerm(s)
      PROVE  \E p \in Procs : v \in subs'[p] /\ proc'[p] \in {"live", "dying"}
  <2>1. v # s /\ sock[v] = "open"
    BY <1>2 DEF detachTerm
  <2>2. PICK p \in Procs : v \in subs[p] /\ proc[p] \in {"live", "dying"}
    BY <1>a, <2>1
  <2>3. v \in subs'[p]
    BY <1>2, <2>1, <2>2 DEF detachTerm
  <2>4. proc'[p] \in {"live", "dying"}
    BY <1>2, <2>2 DEF detachTerm, KillCurrent
  <2> QED
    BY <2>3, <2>4
<1>3. ASSUME NEW q \in Procs, Spawned(q)
      PROVE  \E p \in Procs : v \in subs'[p] /\ proc'[p] \in {"live", "dying"}
  <2>1. CASE v \in Waiters(q)
    <3>1. v \in subs'[q]
      BY <1>3, <2>1 DEF Spawned, Admit
    <3>2. proc'[q] \in {"live", "dying"}
      BY <1>3 DEF Spawned
    <3> QED
      BY <3>1, <3>2
  <2>2. CASE v \notin Waiters(q)
    <3>1. sock[v] = "open"
      BY <1>3, <2>2 DEF Spawned, Admit
    <3>2. PICK p \in Procs : v \in subs[p] /\ proc[p] \in {"live", "dying"}
      BY <1>a, <3>1
    <3>3. p # q
      BY <1>3, <3>2 DEF Spawned
    <3>4. v \in subs'[p] /\ proc'[p] = proc[p]
      BY <1>3, <3>2, <3>3 DEF Spawned, Admit
    <3> QED
      BY <3>2, <3>4
  <2> QED
    BY <2>1, <2>2
<1>4. ASSUME NEW q \in Procs, SpawnFails(q)
      PROVE  \E p \in Procs : v \in subs'[p] /\ proc'[p] \in {"live", "dying"}
  <2>1. sock[v] = "open"
    BY <1>4 DEF SpawnFails
  <2>2. PICK p \in Procs : v \in subs[p] /\ proc[p] \in {"live", "dying"}
    BY <1>a, <2>1
  <2>3. v \in subs'[p] /\ proc'[p] = proc[p]
    BY <1>4, <2>2 DEF SpawnFails
  <2> QED
    BY <2>2, <2>3
<1>5. ASSUME NEW q \in Procs, Exit(q)
      PROVE  \E p \in Procs : v \in subs'[p] /\ proc'[p] \in {"live", "dying"}
  <2>1. sock[v] = "open" /\ v \notin subs[q]
    BY <1>5 DEF Exit, CloseAll
  <2>2. PICK p \in Procs : v \in subs[p] /\ proc[p] \in {"live", "dying"}
    BY <1>a, <2>1
  <2>3. v \in subs'[p] /\ proc'[p] = proc[p]
    BY <1>5, <2>1, <2>2 DEF Exit
  <2> QED
    BY <2>2, <2>3
<1>6. ASSUME killTerm
      PROVE  \E p \in Procs : v \in subs'[p] /\ proc'[p] \in {"live", "dying"}
  <2>1. CASE pending # None
    BY <1>a, <1>6, <2>1 DEF killTerm, sockets
  <2>2. CASE pending = None
    <3>1. terms \in Procs /\ sock[v] = "open" /\ v \notin subs[terms]
      BY <1>6, <2>2 DEF killTerm, CloseAll
    <3>2. PICK p \in Procs : v \in subs[p] /\ proc[p] \in {"live", "dying"}
      BY <1>a, <3>1
    <3>3. v \in subs'[p]
      BY <1>6, <2>2, <3>1, <3>2 DEF killTerm
    <3>4. proc'[p] \in {"live", "dying"}
      BY <1>6, <2>2, <3>2 DEF killTerm, KillCurrent
    <3> QED
      BY <3>3, <3>4
  <2> QED
    BY <2>1, <2>2
<1>7. ASSUME UNCHANGED terminalVars
      PROVE  \E p \in Procs : v \in subs'[p] /\ proc'[p] \in {"live", "dying"}
  BY <1>7, <1>a DEF terminalVars, process, sockets
<1> QED
  BY <1>1, <1>2, <1>3, <1>4, <1>5, <1>6, <1>7 DEF TerminalNext

\* The three together are inductive.
LEMMA TerminalInvariant == TerminalSpec => []TerminalInv
<1>1. TerminalInit => TerminalInv
  BY DEF TerminalInit, TerminalInv, TerminalTypeOK, MapIsLive, ViewersServed, ProcStates, SockStates
<1>2. TerminalInv /\ [TerminalNext]_terminalVars => TerminalInv'
  BY TerminalTypeStep, MapStep, ServedStep DEF TerminalInv
<1> QED
  BY <1>1, <1>2, PTL DEF TerminalSpec

-----------------------------------------------------------------------------
\* Whatever kills, exits and respawns overlap, an attached viewer never looks at a
\* process that is gone without being closed.
THEOREM ViewersAlwaysServed == TerminalSpec => []ViewersServed
<1>1. TerminalInv => ViewersServed
  BY DEF TerminalInv
<1> QED
  BY <1>1, TerminalInvariant, PTL

\* The terminal in the map always holds the container.
THEOREM TerminalHolds == TerminalSpec => []TerminalHoldsContainer
<1>1. TerminalInv => TerminalHoldsContainer
  BY DEF TerminalInv, MapIsLive, TerminalHoldsContainer
<1> QED
  BY <1>1, TerminalInvariant, PTL

\* Every state of the terminal is well typed.
THEOREM TerminalTypeCorrect == TerminalSpec => []TerminalTypeOK
<1>1. TerminalInv => TerminalTypeOK
  BY DEF TerminalInv
<1> QED
  BY <1>1, TerminalInvariant, PTL
=============================================================================
