------------------------ MODULE ContextMounts_proofs ------------------------
(***************************************************************************)
(* Theorems about ContextMounts, for any loops and users.  The keys of the *)
(* chains name a vault, so what is proved of the clones is proved for      *)
(* users with one vault; what is proved of the worktrees needs no such     *)
(* hypothesis.                                                             *)
(***************************************************************************)
EXTENDS ContextMounts, SequenceTheorems, TLAPS

Stages == {"idle", "know", "knowClone", "knowCloning", "notes", "notesClone", "notesCloning", "leave",
           "mirror", "mirrorClone", "mirrorCloning", "workdir", "mount", "add", "adding", "mounted",
           "done", "boot"}
RepoType == [st : {"absent", "cloning", "ready"}, by : Loops \union {None}, gen : Nat]
TreeType == [st : {"none", "empty", "link", "worktree", "orphan"}, of : Users \union {None}, gen : Nat]
MirrorType == [st : {"absent", "cloning", "ready"}, by : Loops \union {None}]
LoopType == [pc : Stages, user : Users \union {None}, vault : Vaults \union {None}, at : Contexts,
             job : {"none", "create", "drive", "boot"}, has : BOOLEAN, warned : BOOLEAN,
             meta : BOOLEAN, driver : Users \union {None}, moved : BOOLEAN, tries : {0, 1},
             workdir : {"none", "worktree", "plain"}]

\* A loop that was created has its user and its vault.
Placed(l) == loop[l].pc # "idle" \/ loop[l].meta =>
    loop[l].user \in Users /\ loop[l].vault \in Vaults /\ loop[l].driver \in Users

TypeOK ==
    /\ main \in [Users -> [Contexts -> RepoType]]
    /\ chain \in [Keys -> Seq(Loops)]
    /\ adding \in [Users -> [Contexts -> SUBSET Loops]]
    /\ wt \in [Loops -> [Contexts -> TreeType]]
    /\ mirror \in [Users -> MirrorType]
    /\ loop \in [Loops -> LoopType]
    /\ restarts \in Nat /\ collided \in BOOLEAN
    /\ \A l \in Loops : Placed(l)

-----------------------------------------------------------------------------
(***************************************************************************)
(* The chains: who works on a main repository is at the head of its chain. *)
(***************************************************************************)
InContext == {"knowClone", "knowCloning", "notes", "notesClone", "notesCloning", "leave"}

HoldsContext(l) == loop[l].pc \in InContext => Running(CtxKey(l), l)
HoldsRepo(l) == loop[l].pc = "adding" => Running(WtKey(l, loop[l].at), l)

ChainInv == \A l \in Loops : HoldsContext(l) /\ HoldsRepo(l)

\* Only a loop whose worktree is being added is on the list of additions.
AddingInv ==
    \A u \in Users, x \in Contexts : \A m \in adding[u][x] :
        m \in Loops /\ loop[m].pc = "adding" /\ loop[m].user = u /\ loop[m].at = x

-----------------------------------------------------------------------------
(***************************************************************************)
(* The main repositories.                                                  *)
(***************************************************************************)
OneVault == \A v, w \in Vaults : v = w

\* A clone is begun only where there is nothing.
CloneInv ==
    \A l \in Loops :
        /\ At(l, "knowClone") => Repo(l, "knowledge").st = "absent"
        /\ At(l, "notesClone") => Repo(l, "notes").st = "absent"

\* What is being cloned is being cloned by a call that holds the key; a user without
\* a declared repository has none; notes come after knowledge.
UserRepos(u) ==
    /\ main[u]["personal"].st = "ready"
    /\ \A x \in Cloned : main[u][x].st = "cloning" =>
           \E l \in Loops : /\ loop[l].user = u /\ main[u][x].by = l
                            /\ loop[l].pc = IF x = "knowledge" THEN "knowCloning" ELSE "notesCloning"
    /\ u \notin Declared => \A x \in Cloned : main[u][x].st = "absent"
    /\ main[u]["notes"].st # "absent" => main[u]["knowledge"].st = "ready"

CallRepos(l) ==
    /\ At(l, "knowCloning") => Repo(l, "knowledge").st = "cloning" /\ Repo(l, "knowledge").by = l
    /\ At(l, "notesCloning") => Repo(l, "notes").st = "cloning" /\ Repo(l, "notes").by = l
    /\ loop[l].pc \in {"knowClone", "knowCloning", "notesClone", "notesCloning"} =>
           loop[l].user \in Declared
    /\ loop[l].pc \in {"notesClone", "notesCloning"} => Repo(l, "knowledge").st = "ready"
    /\ At(l, "notes") /\ loop[l].user \in Declared =>
           /\ loop[l].has <=> Repo(l, "knowledge").st = "ready"
           /\ loop[l].warned \/ loop[l].has

RepoInv == (\A u \in Users : UserRepos(u)) /\ (\A l \in Loops : CallRepos(l))

\* A worktree belongs to the complete repository it was added from.
TreeInv ==
    \A l \in Loops, x \in Contexts :
        wt[l][x].st = "worktree" =>
            /\ wt[l][x].of \in Users /\ main[wt[l][x].of][x].st = "ready"
            /\ wt[l][x].gen = main[wt[l][x].of][x].gen

-----------------------------------------------------------------------------
(***************************************************************************)
(* A loop that nothing happened to.                                        *)
(***************************************************************************)
Clean(l) == ~loop[l].warned /\ ~loop[l].moved

Before(x) == IF x = "knowledge" THEN {} ELSE IF x = "notes" THEN {"knowledge"} ELSE Cloned

InMirror == {"mirror", "mirrorClone", "mirrorCloning", "workdir"}
InMount == {"mount", "add", "adding"}
PastContext == InMirror \union InMount \union {"leave", "mounted"}

Sound(l) ==
    /\ loop[l].pc = "boot" => loop[l].meta
    /\ loop[l].meta => loop[l].pc \notin InContext \union {"idle", "know"}
    /\ loop[l].moved \/ loop[l].user = loop[l].driver
    /\ Clean(l) /\ loop[l].user \in Declared /\ (loop[l].pc \in PastContext \/ loop[l].meta) =>
           \A x \in Cloned : Repo(l, x).st = "ready"
    /\ Clean(l) /\ loop[l].pc \in InMirror \union InMount => \A x \in Before(loop[l].at) : Whole(l, x)
    /\ Clean(l) /\ (loop[l].pc = "mounted" \/ loop[l].meta) => \A x \in Contexts : Whole(l, x)

WholeInv == \A l \in Loops : Sound(l)

-----------------------------------------------------------------------------
(***************************************************************************)
(* What the steps of a call do to its own loop, to the chains and to the   *)
(* main repositories.                                                      *)
(***************************************************************************)
LEMMA JoinChain ==
    ASSUME TypeOK, NEW key \in Keys, NEW l \in Loops, Join(key, l)
    PROVE  /\ chain' \in [Keys -> Seq(Loops)]
           /\ \A k \in Keys, m \in Loops : Running(k, m) => chain'[k] # <<>> /\ Head(chain'[k]) = m
<1>1. Append(chain[key], l) \in Seq(Loops) /\ Append(chain[key], l) # <<>>
  BY AppendProperties DEF TypeOK
<1>2. chain[key] # <<>> => Head(Append(chain[key], l)) = Head(chain[key])
  BY HeadTailAppend DEF TypeOK
<1> QED
  BY <1>1, <1>2 DEF Join, Running, TypeOK

LEMMA LeaveChain ==
    ASSUME TypeOK, NEW key \in Keys, NEW l \in Loops, Running(key, l), Leave(key)
    PROVE  chain' \in [Keys -> Seq(Loops)] /\ \A k \in Keys : k # key => chain'[k] = chain[k]
<1>1. Tail(chain[key]) \in Seq(Loops)
  BY HeadTailProperties DEF TypeOK, Running
<1> QED
  BY <1>1 DEF Leave, TypeOK

\* The keys of a loop that was created.
LEMMA KeysOf ==
    ASSUME TypeOK, NEW l \in Loops, loop[l].pc # "idle"
    PROVE  /\ loop[l].user \in Users /\ loop[l].vault \in Vaults /\ loop[l].at \in Contexts
           /\ CtxKey(l) \in Keys /\ \A x \in Contexts : WtKey(l, x) \in Keys
<1>1. loop[l].user \in Users /\ loop[l].vault \in Vaults /\ loop[l].at \in Contexts
  BY DEF TypeOK, Placed, LoopType
<1> QED
  BY <1>1 DEF CtxKey, WtKey, Keys

\* A call goes on with its own loop, and leaves the user and the driver.
Proceeds(l) ==
    /\ loop' \in [Loops -> LoopType]
    /\ \A m \in Loops : m # l => loop'[m] = loop[m]
    /\ loop[l].pc # "idle" /\ loop'[l].pc # "idle"
    /\ loop'[l].user = loop[l].user /\ loop'[l].vault = loop[l].vault
    /\ loop'[l].driver = loop[l].driver /\ loop'[l].moved = loop[l].moved

\* The provers do better with the membership of a stage than with the set.
LEMMA IsStage ==
    /\ "know" \in Stages /\ "knowClone" \in Stages /\ "knowCloning" \in Stages /\ "notes" \in Stages
    /\ "notesClone" \in Stages /\ "notesCloning" \in Stages /\ "leave" \in Stages
    /\ "mirror" \in Stages /\ "mirrorClone" \in Stages /\ "mirrorCloning" \in Stages
    /\ "workdir" \in Stages /\ "mount" \in Stages /\ "add" \in Stages /\ "adding" \in Stages
    /\ "mounted" \in Stages /\ "done" \in Stages /\ "boot" \in Stages /\ "idle" \in Stages
  BY DEF Stages

LEMMA First == "knowledge" \in Contexts
  BY DEF Contexts, Cloned

LEMMA RowProceeds ==
    ASSUME TypeOK, NEW l \in Loops, loop[l].pc # "idle",
           NEW r \in LoopType, r.pc # "idle",
           r.user = loop[l].user, r.vault = loop[l].vault,
           r.driver = loop[l].driver, r.moved = loop[l].moved,
           loop' = [loop EXCEPT ![l] = r]
    PROVE  Proceeds(l) /\ loop'[l] = r
  BY DEF Proceeds, TypeOK

LEMMA GotoProceeds ==
    ASSUME TypeOK, NEW l \in Loops, loop[l].pc # "idle", NEW p \in Stages, p # "idle", Goto(l, p)
    PROVE  Proceeds(l) /\ loop'[l].pc = p
<1> DEFINE r == [loop[l] EXCEPT !.pc = p]
<1>1. loop[l] \in LoopType /\ loop' = [loop EXCEPT ![l] = r]
  BY DEF Goto, TypeOK
<1>2. /\ r \in LoopType /\ r.pc = p
      /\ r.user = loop[l].user /\ r.vault = loop[l].vault
      /\ r.driver = loop[l].driver /\ r.moved = loop[l].moved
  BY <1>1 DEF LoopType
<1> HIDE DEF r
<1> QED
  BY <1>1, <1>2, RowProceeds

LEMMA NextContextProceeds ==
    ASSUME TypeOK, NEW l \in Loops, loop[l].pc # "idle", NextContext(l)
    PROVE  /\ Proceeds(l)
           /\ loop'[l].pc \in {"mount", "mounted"}
           /\ loop'[l].meta = loop[l].meta /\ loop'[l].warned = loop[l].warned
<1> DEFINE p == IF loop[l].at = "personal" THEN "mounted" ELSE "mount"
           x == IF loop[l].at = "personal" THEN loop[l].at ELSE Following(loop[l].at)
           r == [loop[l] EXCEPT !.pc = p, !.at = x]
<1>1. loop' = [loop EXCEPT ![l] = r] /\ loop[l] \in LoopType
  BY DEF NextContext, TypeOK
<1>2. p \in {"mount", "mounted"} /\ x \in Contexts
  BY DEF Following, TypeOK, LoopType, Contexts, Cloned
<1> HIDE DEF p, x
<1>3. r \in LoopType
  BY <1>1, <1>2, IsStage DEF LoopType
<1>4. /\ r.pc = p /\ r.user = loop[l].user /\ r.vault = loop[l].vault
      /\ r.driver = loop[l].driver /\ r.moved = loop[l].moved
      /\ r.meta = loop[l].meta /\ r.warned = loop[l].warned
  BY <1>1 DEF LoopType
<1> HIDE DEF r
<1> QED
  BY <1>1, <1>2, <1>3, <1>4, RowProceeds

LEMMA StepProceeds == ASSUME TypeOK, NEW l \in Loops, Step(l) PROVE Proceeds(l)
<1>0. loop \in [Loops -> LoopType]
  BY DEF TypeOK
<1>1. CASE Know(l)
  BY <1>0, <1>1, IsStage DEF Know, At, Goto, Proceeds, LoopType
<1>2. CASE Notes(l)
  BY <1>2, GotoProceeds, IsStage DEF Notes, At
<1>3. CASE CloneStart(l)
  <2> DEFINE p == IF CloneOf(l) = "knowledge" THEN "knowCloning" ELSE "notesCloning"
  <2>1. p \in Stages /\ p # "idle"
    BY DEF Stages
  <2>2. Goto(l, p) /\ loop[l].pc # "idle"
    BY <1>3 DEF CloneStart
  <2> HIDE DEF p
  <2> QED
    BY <2>1, <2>2, GotoProceeds
<1>4. ASSUME NEW works \in BOOLEAN, CloneEnd(l, works) PROVE Proceeds(l)
  <2> DEFINE mine == Repo(l, CloneOf(l)).st = "cloning" /\ Repo(l, CloneOf(l)).by = l
             p == IF CloneOf(l) = "knowledge" THEN "notes" ELSE "leave"
             h == IF CloneOf(l) = "knowledge" THEN works /\ mine ELSE loop[l].has
             w == loop[l].warned \/ ~(works /\ mine)
             r == [loop[l] EXCEPT !.pc = p, !.has = h, !.warned = w]
  <2>1. loop' = [loop EXCEPT ![l] = r] /\ loop[l] \in LoopType
    BY <1>0, <1>4 DEF CloneEnd
  <2>2. p \in Stages /\ p # "idle"
    BY DEF Stages
  <2>3. h \in BOOLEAN
    BY <1>0 DEF LoopType
  <2>4. w \in BOOLEAN
    OBVIOUS
  <2>5. loop[l].pc # "idle"
    BY <1>4 DEF CloneEnd
  <2> HIDE DEF p, h, w
  <2>6. r \in LoopType
    BY <2>1, <2>2, <2>3, <2>4 DEF LoopType
  <2>7. /\ r.pc = p /\ r.user = loop[l].user /\ r.vault = loop[l].vault
        /\ r.driver = loop[l].driver /\ r.moved = loop[l].moved
    BY <2>1 DEF LoopType
  <2> HIDE DEF r
  <2> QED
    BY <2>1, <2>2, <2>5, <2>6, <2>7, RowProceeds
<1>5. CASE LeaveContext(l)
  <2> DEFINE p == IF l \in WithRepo THEN "mirror" ELSE "mount"
             r == [loop[l] EXCEPT !.pc = p, !.at = "knowledge"]
  <2>1. loop' = [loop EXCEPT ![l] = r] /\ loop[l] \in LoopType /\ loop[l].pc # "idle"
    BY <1>0, <1>5 DEF LeaveContext, At
  <2>2. p \in Stages /\ p # "idle"
    BY IsStage
  <2> HIDE DEF p
  <2>3. r \in LoopType
    BY <2>1, <2>2, First DEF LoopType
  <2>4. /\ r.pc = p /\ r.user = loop[l].user /\ r.vault = loop[l].vault
        /\ r.driver = loop[l].driver /\ r.moved = loop[l].moved
    BY <2>1 DEF LoopType
  <2> HIDE DEF r
  <2> QED
    BY <2>1, <2>2, <2>3, <2>4, RowProceeds
<1>6. CASE MirrorLook(l)
  BY <1>6, GotoProceeds, IsStage DEF MirrorLook, At
<1>7. CASE MirrorClone(l)
  <2>1. loop' = [loop EXCEPT ![l].tries = 1] => Proceeds(l)
    BY <1>0, <1>7 DEF MirrorClone, At, Proceeds, LoopType
  <2> QED
    BY <1>7, <2>1, GotoProceeds, IsStage DEF MirrorClone, At
<1>8. ASSUME NEW works \in BOOLEAN, MirrorCloned(l, works) PROVE Proceeds(l)
  <2> DEFINE done == works /\ Mirror(l).st = "cloning" /\ Mirror(l).by = l
             p == IF done THEN "workdir" ELSE IF loop[l].tries = 0 THEN "mirrorClone" ELSE "done"
             r == [loop[l] EXCEPT !.pc = p, !.tries = 1]
  <2>1. loop' = [loop EXCEPT ![l] = r] /\ loop[l] \in LoopType /\ loop[l].pc # "idle"
    BY <1>0, <1>8 DEF MirrorCloned, At
  <2>2. p \in Stages /\ p # "idle"
    BY DEF Stages
  <2> HIDE DEF p
  <2>3. r \in LoopType
    BY <2>1, <2>2 DEF LoopType
  <2>4. /\ r.pc = p /\ r.user = loop[l].user /\ r.vault = loop[l].vault
        /\ r.driver = loop[l].driver /\ r.moved = loop[l].moved
    BY <2>1 DEF LoopType
  <2> HIDE DEF r
  <2> QED
    BY <2>1, <2>2, <2>3, <2>4, RowProceeds
<1>9. CASE Workdir(l)
  <2> DEFINE d == IF Mirror(l).st = "ready" THEN "worktree" ELSE "plain"
             r == [loop[l] EXCEPT !.pc = "mount", !.workdir = d]
  <2>1. loop' = [loop EXCEPT ![l] = r] /\ loop[l] \in LoopType /\ loop[l].pc # "idle"
    BY <1>0, <1>9 DEF Workdir, At
  <2>2. d \in {"worktree", "plain"}
    OBVIOUS
  <2> HIDE DEF d
  <2>3. r \in LoopType
    BY <2>1, <2>2, IsStage DEF LoopType
  <2>4. /\ r.pc = "mount" /\ r.user = loop[l].user /\ r.vault = loop[l].vault
        /\ r.driver = loop[l].driver /\ r.moved = loop[l].moved
    BY <2>1 DEF LoopType
  <2> HIDE DEF r
  <2> QED
    BY <2>1, <2>3, <2>4, RowProceeds
<1>10. CASE MountEmpty(l) \/ AddSkip(l) \/ AddLink(l) \/ AddEnd(l)
  BY <1>10, NextContextProceeds DEF MountEmpty, AddSkip, AddLink, AddEnd, At
<1>11. CASE MountWait(l) \/ AddStart(l) \/ AddFail(l)
  BY <1>11, GotoProceeds, IsStage DEF MountWait, AddStart, AddFail, At
<1>12. CASE Mounted(l) \/ Backfill(l)
  BY <1>0, <1>12, IsStage, First DEF Mounted, Backfill, At, Proceeds, LoopType
<1> QED
  BY <1>1, <1>2, <1>3, <1>4, <1>5, <1>6, <1>7, <1>8, <1>9, <1>10, <1>11, <1>12 DEF Step

\* The stage that follows a step, and the steps that decide about a warning and
\* about the metadata.
LEMMA StepEdges ==
    ASSUME TypeOK, NEW l \in Loops, Step(l)
    PROVE  /\ Know(l) => loop'[l].pc \in {"notes", "knowClone"}
           /\ Notes(l) => loop'[l].pc \in {"notesClone", "leave"}
           /\ CloneStart(l) =>
                  \/ loop[l].pc = "knowClone" /\ loop'[l].pc = "knowCloning"
                  \/ loop[l].pc = "notesClone" /\ loop'[l].pc = "notesCloning"
           /\ \A works \in BOOLEAN : CloneEnd(l, works) =>
                  \/ loop[l].pc = "knowCloning" /\ loop'[l].pc = "notes"
                  \/ loop[l].pc = "notesCloning" /\ loop'[l].pc = "leave"
           /\ LeaveContext(l) => loop'[l].pc \in {"mirror", "mount"}
           /\ MirrorLook(l) => loop'[l].pc \in {"mirrorClone", "workdir"}
           /\ MirrorClone(l) => loop'[l].pc \in {"mirrorClone", "mirrorCloning"}
           /\ \A works \in BOOLEAN :
                  MirrorCloned(l, works) => loop'[l].pc \in {"workdir", "mirrorClone", "done"}
           /\ Workdir(l) => loop'[l].pc = "mount"
           /\ MountEmpty(l) \/ AddSkip(l) \/ AddLink(l) \/ AddEnd(l) =>
                  loop'[l].pc \in {"mount", "mounted"}
           /\ MountWait(l) => loop'[l].pc = "add"
           /\ AddStart(l) => loop'[l].pc = "adding"
           /\ AddFail(l) \/ Mounted(l) => loop'[l].pc = "done"
           /\ Backfill(l) => loop'[l].pc = "mount"
           /\ loop'[l].meta # loop[l].meta => Mounted(l) /\ loop'[l].meta
           /\ loop'[l].warned # loop[l].warned => \E works \in BOOLEAN : CloneEnd(l, works)
<1>0. loop \in [Loops -> LoopType]
  BY DEF TypeOK
<1>1. \A p \in Stages : Goto(l, p) =>
          loop'[l].pc = p /\ loop'[l].meta = loop[l].meta /\ loop'[l].warned = loop[l].warned
  BY <1>0 DEF Goto, LoopType
<1>2. loop[l].pc # "idle"
  BY StepProceeds DEF Proceeds
<1> DEFINE Kept == loop'[l].meta = loop[l].meta /\ loop'[l].warned = loop[l].warned
<1>3. Know(l) => loop'[l].pc \in {"notes", "knowClone"} /\ Kept
  BY <1>0, <1>1, IsStage DEF Know, LoopType
<1>4. Notes(l) => loop'[l].pc \in {"notesClone", "leave"} /\ Kept
  BY <1>1, IsStage DEF Notes
<1>5. CloneStart(l) =>
          /\ \/ loop[l].pc = "knowClone" /\ loop'[l].pc = "knowCloning"
             \/ loop[l].pc = "notesClone" /\ loop'[l].pc = "notesCloning"
          /\ Kept
  BY <1>1, IsStage DEF CloneStart, CloneOf, At
<1>6. ASSUME NEW works \in BOOLEAN, CloneEnd(l, works)
      PROVE  /\ \/ loop[l].pc = "knowCloning" /\ loop'[l].pc = "notes"
                \/ loop[l].pc = "notesCloning" /\ loop'[l].pc = "leave"
             /\ loop'[l].meta = loop[l].meta
  <2> DEFINE x == CloneOf(l)
             mine == Repo(l, x).st = "cloning" /\ Repo(l, x).by = l
             p == IF x = "knowledge" THEN "notes" ELSE "leave"
             h == IF x = "knowledge" THEN works /\ mine ELSE loop[l].has
             w == loop[l].warned \/ ~(works /\ mine)
  <2>1. loop' = [loop EXCEPT ![l].pc = p, ![l].has = h, ![l].warned = w]
    BY <1>6 DEF CloneEnd
  <2>2. \/ loop[l].pc = "knowCloning" /\ p = "notes"
        \/ loop[l].pc = "notesCloning" /\ p = "leave"
    BY <1>6 DEF CloneEnd, CloneOf, At
  <2> HIDE DEF p, h, w
  <2>3. loop'[l].pc = p /\ loop'[l].meta = loop[l].meta
    BY <1>0, <2>1 DEF LoopType
  <2> QED
    BY <2>2, <2>3
<1>7. LeaveContext(l) => loop'[l].pc \in {"mirror", "mount"} /\ Kept
  BY <1>0 DEF LeaveContext, LoopType
<1>8. MirrorLook(l) => loop'[l].pc \in {"mirrorClone", "workdir"} /\ Kept
  BY <1>1, IsStage DEF MirrorLook
<1>9. MirrorClone(l) => loop'[l].pc \in {"mirrorClone", "mirrorCloning"} /\ Kept
  <2>1. loop' = [loop EXCEPT ![l].tries = 1] => loop'[l].pc = loop[l].pc /\ Kept
    BY <1>0 DEF LoopType
  <2> QED
    BY <1>1, <2>1, IsStage DEF MirrorClone, At
<1>10. ASSUME NEW works \in BOOLEAN, MirrorCloned(l, works)
       PROVE  loop'[l].pc \in {"workdir", "mirrorClone", "done"} /\ Kept
  <2> DEFINE done == works /\ Mirror(l).st = "cloning" /\ Mirror(l).by = l
             p == IF done THEN "workdir" ELSE IF loop[l].tries = 0 THEN "mirrorClone" ELSE "done"
  <2>1. loop' = [loop EXCEPT ![l].pc = p, ![l].tries = 1]
    BY <1>10 DEF MirrorCloned
  <2>2. p \in {"workdir", "mirrorClone", "done"}
    OBVIOUS
  <2> HIDE DEF p
  <2> QED
    BY <1>0, <2>1, <2>2 DEF LoopType
<1>11. Workdir(l) => loop'[l].pc = "mount" /\ Kept
  BY <1>0 DEF Workdir, LoopType
<1>12. MountEmpty(l) \/ AddSkip(l) \/ AddLink(l) \/ AddEnd(l) =>
           loop'[l].pc \in {"mount", "mounted"} /\ Kept
  BY <1>2, NextContextProceeds DEF MountEmpty, AddSkip, AddLink, AddEnd
<1>13. /\ MountWait(l) => loop'[l].pc = "add" /\ Kept
       /\ AddStart(l) => loop'[l].pc = "adding" /\ Kept
       /\ AddFail(l) => loop'[l].pc = "done" /\ Kept
  BY <1>1, IsStage DEF MountWait, AddStart, AddFail
<1>14. Mounted(l) => loop'[l].pc = "done" /\ loop'[l].meta /\ loop'[l].warned = loop[l].warned
  BY <1>0 DEF Mounted, LoopType
<1>15. Backfill(l) => loop'[l].pc = "mount" /\ Kept
  BY <1>0 DEF Backfill, LoopType
<1>16. /\ loop'[l].meta # loop[l].meta => Mounted(l) /\ loop'[l].meta
       /\ loop'[l].warned # loop[l].warned => \E works \in BOOLEAN : CloneEnd(l, works)
  BY <1>3, <1>4, <1>5, <1>6, <1>7, <1>8, <1>9, <1>10, <1>11, <1>12, <1>13, <1>14, <1>15 DEF Step
<1> QED
  BY <1>3, <1>4, <1>5, <1>6, <1>7, <1>8, <1>9, <1>10, <1>11, <1>12, <1>13, <1>14, <1>15, <1>16

\* The steps of the other half of a call.
Outside(l) ==
    \/ MirrorLook(l) \/ MirrorClone(l) \/ (\E works \in BOOLEAN : MirrorCloned(l, works)) \/ Workdir(l)
    \/ MountEmpty(l) \/ MountWait(l) \/ AddSkip(l) \/ AddLink(l) \/ AddStart(l) \/ AddEnd(l)
    \/ AddFail(l) \/ Mounted(l) \/ Backfill(l)

\* A call enters the context repositories by Know, is among them until it
\* leaves, and does not come back.
LEMMA StepWithin ==
    ASSUME TypeOK, NEW l \in Loops, Step(l)
    PROVE  /\ Know(l) => loop[l].pc = "know" /\ loop'[l].pc \in InContext
           /\ Notes(l) \/ CloneStart(l) \/ (\E works \in BOOLEAN : CloneEnd(l, works)) =>
                  loop[l].pc \in InContext /\ loop'[l].pc \in InContext
           /\ LeaveContext(l) => loop[l].pc = "leave" /\ loop'[l].pc \in {"mirror", "mount"}
           /\ Outside(l) => /\ loop[l].pc \notin InContext
                            /\ loop'[l].pc \notin InContext \union {"idle", "know"}
           /\ \/ Know(l) \/ Notes(l) \/ CloneStart(l) \/ (\E works \in BOOLEAN : CloneEnd(l, works))
              \/ LeaveContext(l) \/ Outside(l)
<1>1. Know(l) => loop[l].pc = "know" /\ loop'[l].pc \in InContext
  BY StepEdges DEF Know, At, InContext
<1>2. Notes(l) \/ CloneStart(l) => loop[l].pc \in InContext /\ loop'[l].pc \in InContext
  BY StepEdges DEF Notes, CloneStart, At, InContext
<1>3. ASSUME NEW works \in BOOLEAN, CloneEnd(l, works)
      PROVE  loop[l].pc \in InContext /\ loop'[l].pc \in InContext
  BY <1>3, StepEdges DEF InContext
<1>4. LeaveContext(l) => loop[l].pc = "leave" /\ loop'[l].pc \in {"mirror", "mount"}
  BY StepEdges DEF LeaveContext, At
<1> DEFINE Out == /\ loop[l].pc \notin InContext
                  /\ loop'[l].pc \notin InContext \union {"idle", "know"}
<1>5. MirrorLook(l) \/ MirrorClone(l) \/ Workdir(l) => Out
  BY StepEdges DEF MirrorLook, MirrorClone, Workdir, At, InContext
<1>6. ASSUME NEW works \in BOOLEAN, MirrorCloned(l, works) PROVE Out
  BY <1>6, StepEdges DEF MirrorCloned, At, InContext
<1>7. MountEmpty(l) \/ AddSkip(l) \/ AddLink(l) \/ AddEnd(l) => Out
  BY StepEdges DEF MountEmpty, AddSkip, AddLink, AddEnd, At, InContext
<1>8. MountWait(l) \/ AddStart(l) \/ AddFail(l) => Out
  BY StepEdges DEF MountWait, AddStart, AddFail, At, InContext
<1>9. Mounted(l) \/ Backfill(l) => Out
  BY StepEdges DEF Mounted, Backfill, At, InContext
<1>10. Outside(l) => Out
  BY <1>5, <1>6, <1>7, <1>8, <1>9 DEF Outside
<1>11. \/ Know(l) \/ Notes(l) \/ CloneStart(l) \/ (\E works \in BOOLEAN : CloneEnd(l, works))
       \/ LeaveContext(l) \/ Outside(l)
  BY DEF Step, Outside
<1> QED
  BY <1>1, <1>2, <1>3, <1>4, <1>10, <1>11

\* Who runs goes on running while another call joins or leaves a chain; and a
\* call keeps the chains as they are when it goes on under a key.
LEMMA StepChain ==
    ASSUME TypeOK, ChainInv, NEW l \in Loops, Step(l)
    PROVE  /\ chain' \in [Keys -> Seq(Loops)]
           /\ \A k \in Keys, m \in Loops :
                  m # l /\ Running(k, m) => chain'[k] # <<>> /\ Head(chain'[k]) = m
           /\ loop'[l].pc \in InContext \union {"adding"} => chain' = chain
<1> DEFINE Others == \A k \in Keys, m \in Loops :
                         m # l /\ Running(k, m) => chain'[k] # <<>> /\ Head(chain'[k]) = m
           Result == chain' \in [Keys -> Seq(Loops)] /\ Others
<1>0. Proceeds(l)
  BY StepProceeds
<1>1. loop[l].pc # "idle" /\ CtxKey(l) \in Keys /\ \A x \in Contexts : WtKey(l, x) \in Keys
  BY <1>0, KeysOf DEF Proceeds
<1>2. loop[l].at \in Contexts
  BY <1>1, KeysOf
<1>3. ASSUME UNCHANGED chain PROVE Result
  BY <1>3 DEF TypeOK, Running
<1>4. ASSUME NEW key \in Keys, Running(key, l), Leave(key) PROVE Result
  <2>1. chain' \in [Keys -> Seq(Loops)] /\ \A k \in Keys : k # key => chain'[k] = chain[k]
    BY <1>4, LeaveChain
  <2> QED
    BY <1>4, <2>1 DEF Running
<1>5. CASE LeaveContext(l)
  <2>1. Running(CtxKey(l), l) /\ Leave(CtxKey(l))
    BY <1>5 DEF LeaveContext, ChainInv, HoldsContext, InContext, At
  <2>2. loop'[l].pc \in {"mirror", "mount"}
    BY <1>5 DEF LeaveContext, TypeOK, LoopType
  <2> QED
    BY <1>1, <1>4, <2>1, <2>2 DEF InContext
<1>6. CASE MountWait(l)
  <2>1. Join(WtKey(l, loop[l].at), l) /\ Goto(l, "add")
    BY <1>6 DEF MountWait
  <2>2. Result
    BY <1>1, <1>2, <2>1, JoinChain
  <2>3. loop'[l].pc = "add"
    BY <1>1, <2>1, GotoProceeds, IsStage
  <2> QED
    BY <2>2, <2>3 DEF InContext
<1>7. CASE AddSkip(l) \/ AddLink(l) \/ AddEnd(l)
  <2>1. Running(WtKey(l, loop[l].at), l) /\ Leave(WtKey(l, loop[l].at)) /\ NextContext(l)
    BY <1>7 DEF AddSkip, AddLink, AddEnd, ChainInv, HoldsRepo, At
  <2>2. loop'[l].pc \in {"mount", "mounted"}
    BY <1>1, <2>1, NextContextProceeds
  <2> QED
    BY <1>1, <1>2, <1>4, <2>1, <2>2 DEF InContext
<1>8. CASE AddFail(l)
  <2>1. Running(WtKey(l, loop[l].at), l) /\ Leave(WtKey(l, loop[l].at)) /\ Goto(l, "done")
    BY <1>8 DEF AddFail, ChainInv, HoldsRepo, At
  <2>2. loop'[l].pc = "done"
    BY <1>1, <2>1, GotoProceeds, IsStage
  <2> QED
    BY <1>1, <1>2, <1>4, <2>1, <2>2 DEF InContext
<1>9. CASE UNCHANGED chain
  BY <1>3, <1>9
<1> QED
  BY <1>5, <1>6, <1>7, <1>8, <1>9
     DEF Step, Know, Notes, CloneStart, CloneEnd, MirrorLook, MirrorClone, MirrorCloned, Workdir,
         MountEmpty, AddStart, Mounted, Backfill

LEMMA RepoChange ==
    ASSUME TypeOK, NEW l \in Loops, loop[l].pc # "idle", NEW x \in Contexts, NEW r \in RepoType,
           SetRepo(l, x, r)
    PROVE  /\ main' \in [Users -> [Contexts -> RepoType]]
           /\ main'[loop[l].user][x] = r
           /\ \A u \in Users, y \in Contexts :
                  u # loop[l].user \/ y # x => main'[u][y] = main[u][y]
<1>1. loop[l].user \in Users
  BY KeysOf
<1> QED
  BY <1>1 DEF SetRepo, TypeOK

-----------------------------------------------------------------------------
LEMMA TypeInit == Init => TypeOK
<1> SUFFICES ASSUME Init PROVE TypeOK
  OBVIOUS
<1>1. main \in [Users -> [Contexts -> RepoType]]
  BY DEF Init, RepoType, Missing
<1>2. chain \in [Keys -> Seq(Loops)]
  BY EmptySeq DEF Init
<1>3. wt \in [Loops -> [Contexts -> TreeType]]
  BY DEF Init, TreeType, NoTree
<1>4. mirror \in [Users -> MirrorType]
  BY DEF Init, MirrorType
<1>5. loop \in [Loops -> LoopType] /\ \A l \in Loops : loop[l].pc = "idle" /\ ~loop[l].meta
  BY IsStage, First DEF Init, LoopType, Idle
<1> QED
  BY <1>1, <1>2, <1>3, <1>4, <1>5 DEF Init, TypeOK, Placed

\* A step of a call is well typed, chains apart.
LEMMA StepTyped ==
    ASSUME TypeOK, NEW l \in Loops, Step(l)
    PROVE  /\ main' \in [Users -> [Contexts -> RepoType]]
           /\ adding' \in [Users -> [Contexts -> SUBSET Loops]]
           /\ wt' \in [Loops -> [Contexts -> TreeType]]
           /\ mirror' \in [Users -> MirrorType]
           /\ restarts' \in Nat /\ collided' \in BOOLEAN
<1>0. Proceeds(l)
  BY StepProceeds
<1>1. loop[l].pc # "idle" /\ loop[l].user \in Users /\ loop[l].at \in Contexts
  BY <1>0, KeysOf DEF Proceeds
<1>2. Missing \in RepoType /\ \A x \in Contexts : main[loop[l].user][x] \in RepoType
  BY <1>1 DEF Missing, RepoType, TypeOK
<1>3. main' \in [Users -> [Contexts -> RepoType]]
  <2>1. CASE main' = main
    BY <2>1 DEF TypeOK
  <2>2. CASE Know(l) \/ Notes(l)
    BY <1>1, <1>2, <2>1, <2>2, RepoChange DEF Know, Notes, Contexts, Cloned
  <2>3. CASE CloneStart(l)
    <3> DEFINE r == [st |-> "cloning", by |-> l, gen |-> Repo(l, CloneOf(l)).gen]
    <3>1. CloneOf(l) \in Contexts
      BY DEF CloneOf, Contexts, Cloned
    <3>2. r \in RepoType
      BY <1>2, <3>1 DEF Repo, RepoType
    <3> HIDE DEF r
    <3> QED
      BY <1>1, <2>3, <3>1, <3>2, RepoChange DEF CloneStart, r
  <2>4. ASSUME NEW works \in BOOLEAN, CloneEnd(l, works) PROVE main' \in [Users -> [Contexts -> RepoType]]
    <3> DEFINE g == Repo(l, CloneOf(l)).gen
               r == IF works THEN [st |-> "ready", by |-> None, gen |-> g + 1]
                    ELSE [Missing EXCEPT !.gen = g]
    <3>1. CloneOf(l) \in Contexts
      BY DEF CloneOf, Contexts, Cloned
    <3>2. g \in Nat
      BY <1>2, <3>1 DEF Repo, RepoType
    <3>3. main' = main \/ SetRepo(l, CloneOf(l), r)
      BY <2>4 DEF CloneEnd
    <3> HIDE DEF g
    <3>4. r \in RepoType
      BY <3>2 DEF RepoType, Missing
    <3> HIDE DEF r
    <3> QED
      BY <1>1, <2>1, <3>1, <3>3, <3>4, RepoChange
  <2> QED
    BY <2>1, <2>2, <2>3, <2>4
       DEF Step, LeaveContext, MirrorLook, MirrorClone, MirrorCloned, Workdir, MountEmpty, MountWait,
           AddSkip, AddLink, AddStart, AddEnd, AddFail, Mounted, Backfill
<1>4. adding' \in [Users -> [Contexts -> SUBSET Loops]]
  <2>1. CASE adding' = adding
    BY <2>1 DEF TypeOK
  <2>2. CASE AddStart(l)
    BY <1>1, <2>2 DEF AddStart, TypeOK
  <2>3. CASE AddEnd(l) \/ AddFail(l)
    <3>1. adding' = [adding EXCEPT ![loop[l].user][loop[l].at] = @ \ {l}]
      BY <2>3 DEF AddEnd, AddFail
    <3> QED
      BY <1>1, <3>1 DEF TypeOK
  <2> QED
    BY <2>1, <2>2, <2>3
       DEF Step, Know, Notes, CloneStart, CloneEnd, LeaveContext, MirrorLook, MirrorClone, MirrorCloned,
           Workdir, MountEmpty, MountWait, AddSkip, AddLink, Mounted, Backfill
<1>5. wt' \in [Loops -> [Contexts -> TreeType]]
  <2>1. CASE wt' = wt
    BY <2>1 DEF TypeOK
  <2>2. ASSUME NEW t \in TreeType, wt' = [wt EXCEPT ![l][loop[l].at] = t]
        PROVE  wt' \in [Loops -> [Contexts -> TreeType]]
    BY <1>1, <2>2 DEF TypeOK
  <2>3. CASE MountEmpty(l)
    <3>1. [NoTree EXCEPT !.st = "empty"] \in TreeType
      BY DEF NoTree, TreeType
    <3> QED
      BY <2>2, <2>3, <3>1 DEF MountEmpty
  <2>4. CASE AddLink(l)
    <3>1. [NoTree EXCEPT !.st = "link", !.of = loop[l].user] \in TreeType
      BY <1>1 DEF NoTree, TreeType
    <3> QED
      BY <2>2, <2>4, <3>1 DEF AddLink
  <2>5. CASE AddEnd(l)
    <3> DEFINE x == loop[l].at
               t == [st |-> IF Repo(l, x).st = "ready" THEN "worktree" ELSE "orphan",
                     of |-> loop[l].user, gen |-> Repo(l, x).gen]
    <3>1. t \in TreeType
      BY <1>1, <1>2 DEF Repo, RepoType, TreeType
    <3>2. wt' = [wt EXCEPT ![l][x] = t]
      BY <2>5 DEF AddEnd
    <3> HIDE DEF t
    <3> QED
      BY <2>2, <3>1, <3>2
  <2> QED
    BY <2>1, <2>3, <2>4, <2>5
       DEF Step, Know, Notes, CloneStart, CloneEnd, LeaveContext, MirrorLook, MirrorClone,
         MirrorCloned, Workdir, MountWait, AddSkip, AddStart, AddFail, Mounted, Backfill
<1>6. mirror' \in [Users -> MirrorType]
  <2>1. CASE mirror' = mirror
    BY <2>1 DEF TypeOK
  <2>2. ASSUME NEW st \in {"absent", "cloning", "ready"}, NEW by \in Loops \union {None},
               SetMirror(l, st, by)
        PROVE  mirror' \in [Users -> MirrorType]
    BY <1>1, <2>2 DEF SetMirror, TypeOK, MirrorType
  <2>3. CASE MirrorClone(l)
    BY <2>1, <2>2, <2>3 DEF MirrorClone
  <2>4. ASSUME NEW works \in BOOLEAN, MirrorCloned(l, works) PROVE mirror' \in [Users -> MirrorType]
    <3> DEFINE st == IF works THEN "ready" ELSE "absent"
    <3>1. mirror' = mirror \/ SetMirror(l, "ready", None) \/ SetMirror(l, "absent", None)
      BY <2>4 DEF MirrorCloned
    <3> QED
      BY <2>1, <2>2, <3>1
  <2> QED
    BY <2>1, <2>3, <2>4
       DEF Step, Know, Notes, CloneStart, CloneEnd, LeaveContext, MirrorLook, Workdir, MountEmpty,
           MountWait, AddSkip, AddLink, AddStart, AddEnd, AddFail, Mounted, Backfill, world
<1>7. restarts' = restarts
  BY DEF Step, Know, Notes, CloneStart, CloneEnd, LeaveContext, MirrorLook, MirrorClone, MirrorCloned,
         Workdir, MountEmpty, MountWait, AddSkip, AddLink, AddStart, AddEnd, AddFail, Mounted, Backfill,
         world
<1>8. collided' \in BOOLEAN
  <2>1. CASE collided' = collided
    BY <2>1 DEF TypeOK
  <2>2. CASE CloneStart(l) \/ AddStart(l)
    BY <2>2 DEF CloneStart, AddStart
  <2> QED
    BY <2>1, <2>2
       DEF Step, Know, Notes, CloneEnd, LeaveContext, MirrorLook, MirrorClone, MirrorCloned, Workdir,
           MountEmpty, MountWait, AddSkip, AddLink, AddEnd, AddFail, Mounted, Backfill
<1> QED
  BY <1>3, <1>4, <1>5, <1>6, <1>7, <1>8 DEF TypeOK

\* The steps that are not steps of a call under way.
LEMMA CreateTyped ==
    ASSUME TypeOK, NEW l \in Loops, NEW u \in Users, NEW v \in Vaults, Create(l, u, v)
    PROVE  /\ TypeOK'
           /\ \A k \in Keys, m \in Loops : Running(k, m) => chain'[k] # <<>> /\ Head(chain'[k]) = m
           /\ \A m \in Loops : m # l => loop'[m] = loop[m]
           /\ loop[l].pc = "idle" /\ loop'[l].pc = "know"
           /\ loop'[l].user = u /\ loop'[l].driver = u
           /\ ~loop'[l].meta /\ ~loop'[l].warned /\ ~loop'[l].moved
<1> DEFINE r == [Idle EXCEPT !.pc = "know", !.user = u, !.vault = v, !.job = "create", !.driver = u]
<1>1. loop' = [loop EXCEPT ![l] = r] /\ loop[l].pc = "idle"
  BY DEF Create, At
<1>2. /\ r \in LoopType /\ r.pc = "know" /\ r.user = u /\ r.vault = v /\ r.driver = u
      /\ ~r.meta /\ ~r.warned /\ ~r.moved
  BY IsStage, First DEF Idle, LoopType
<1> HIDE DEF r
<1>3. /\ loop' \in [Loops -> LoopType] /\ loop'[l] = r
      /\ \A m \in Loops : m # l => loop'[m] = loop[m]
  BY <1>1, <1>2 DEF TypeOK
<1>4. \A m \in Loops : Placed(m)'
  BY <1>2, <1>3 DEF Placed, TypeOK
<1>5. <<"ctx", u, v>> \in Keys /\ Join(<<"ctx", u, v>>, l)
  BY DEF Create, Join, Keys
<1>6. /\ chain' \in [Keys -> Seq(Loops)]
      /\ \A k \in Keys, m \in Loops : Running(k, m) => chain'[k] # <<>> /\ Head(chain'[k]) = m
  BY <1>5, JoinChain
<1> QED
  BY <1>1, <1>2, <1>3, <1>4, <1>6 DEF Create, TypeOK, world

LEMMA DriveTyped ==
    ASSUME TypeOK, NEW l \in Loops, NEW u \in Users, Drive(l, u)
    PROVE  /\ TypeOK'
           /\ \A m \in Loops : m # l => loop'[m] = loop[m]
           /\ loop[l].pc = "done" /\ loop[l].meta
           /\ loop'[l].pc = "mount" /\ loop'[l].moved /\ loop'[l].meta
<1> DEFINE r == [loop[l] EXCEPT !.driver = u, !.user = u, !.pc = "mount", !.at = "knowledge",
                                !.job = "drive", !.moved = TRUE]
<1>1. loop' = [loop EXCEPT ![l] = r] /\ loop[l].pc = "done" /\ loop[l].meta /\ loop[l] \in LoopType
  BY DEF Drive, At, TypeOK
<1>2. /\ r \in LoopType /\ r.pc = "mount" /\ r.user = u /\ r.vault = loop[l].vault /\ r.driver = u
      /\ r.meta /\ r.moved
  BY <1>1, IsStage, First DEF LoopType
<1> HIDE DEF r
<1>3. /\ loop' \in [Loops -> LoopType] /\ loop'[l] = r
      /\ \A m \in Loops : m # l => loop'[m] = loop[m]
  BY <1>1, <1>2 DEF TypeOK
<1>4. \A m \in Loops : Placed(m)'
  BY <1>1, <1>2, <1>3 DEF Placed, TypeOK
<1> QED
  BY <1>1, <1>2, <1>3, <1>4 DEF Drive, TypeOK, world

LEMMA RestartTyped ==
    ASSUME TypeOK, Restart
    PROVE  /\ TypeOK'
           /\ \A m \in Loops :
                 /\ loop'[m].pc \in {"idle", "done", "boot"}
                 /\ loop'[m].pc = "idle" => loop'[m] = loop[m]
                 /\ loop'[m].pc = "boot" => loop[m].meta
                 /\ loop'[m].meta = loop[m].meta /\ loop'[m].driver = loop[m].driver
                 /\ loop'[m].warned = loop[m].warned /\ loop'[m].moved = loop[m].moved
                 /\ loop'[m].user = IF loop[m].meta THEN loop[m].driver ELSE loop[m].user
<1> DEFINE row(m) == IF loop[m].meta THEN [loop[m] EXCEPT !.pc = "boot", !.user = loop[m].driver]
                     ELSE IF loop[m].pc = "idle" THEN loop[m] ELSE [loop[m] EXCEPT !.pc = "done"]
<1>1. loop' = [m \in Loops |-> row(m)]
  BY DEF Restart, At
<1>2. ASSUME NEW m \in Loops
      PROVE  /\ row(m) \in LoopType
             /\ row(m).pc \in {"idle", "done", "boot"}
             /\ row(m).pc = "idle" => row(m) = loop[m]
             /\ row(m).pc = "boot" => loop[m].meta
             /\ row(m).meta = loop[m].meta /\ row(m).driver = loop[m].driver
             /\ row(m).warned = loop[m].warned /\ row(m).moved = loop[m].moved
             /\ row(m).user = IF loop[m].meta THEN loop[m].driver ELSE loop[m].user
             /\ row(m).vault = loop[m].vault
             /\ row(m).pc # "idle" \/ row(m).meta => loop[m].pc # "idle" \/ loop[m].meta
  <2>1. loop[m] \in LoopType
    BY DEF TypeOK
  <2>2. CASE loop[m].meta
    BY <2>1, <2>2, IsStage DEF LoopType
  <2>3. CASE ~loop[m].meta /\ loop[m].pc = "idle"
    BY <2>1, <2>3
  <2>4. CASE ~loop[m].meta /\ loop[m].pc # "idle"
    BY <2>1, <2>4, IsStage DEF LoopType
  <2> QED
    BY <2>2, <2>3, <2>4
<1> HIDE DEF row
<1>3. loop' \in [Loops -> LoopType] /\ \A m \in Loops : loop'[m] = row(m)
  BY <1>1, <1>2
<1>4. ASSUME NEW m \in Loops PROVE Placed(m)'
  <2>1. Placed(m) /\ loop'[m] = row(m)
    BY <1>3 DEF TypeOK
  <2> QED
    BY <1>2, <2>1 DEF Placed
<1>5. chain' \in [Keys -> Seq(Loops)]
  BY EmptySeq DEF Restart
<1>6. adding' \in [Users -> [Contexts -> SUBSET Loops]]
  BY DEF Restart
<1>7. restarts' \in Nat
  <2>1. restarts' = restarts + 1
    BY DEF Restart
  <2>2. restarts \in Nat
    BY DEF TypeOK
  <2> QED
    BY <2>1, <2>2
<1>8. TypeOK'
  BY <1>3, <1>4, <1>5, <1>6, <1>7 DEF Restart, TypeOK
<1> QED
  BY <1>2, <1>3, <1>8

-----------------------------------------------------------------------------
(***************************************************************************)
(* Types, chains and additions together.                                   *)
(***************************************************************************)
Orderly == TypeOK /\ ChainInv /\ AddingInv

LEMMA OrderlyInit == Init => Orderly
<1>1. Init => TypeOK
  BY TypeInit
<1>2. Init => ChainInv /\ AddingInv
  BY DEF Init, ChainInv, HoldsContext, HoldsRepo, InContext, AddingInv, Idle
<1> QED
  BY <1>1, <1>2 DEF Orderly

LEMMA StepTypeOK == ASSUME Orderly, NEW l \in Loops, Step(l) PROVE TypeOK'
<1>1. Proceeds(l)
  BY StepProceeds DEF Orderly
<1>2. \A m \in Loops : Placed(m)'
  BY <1>1 DEF Placed, Orderly, TypeOK, Proceeds
<1> QED
  BY <1>1, <1>2, StepTyped, StepChain DEF Orderly, TypeOK, Proceeds

\* A loop that a step leaves alone holds what it held.
LEMMA OthersHold ==
    ASSUME NEW m \in Loops, HoldsContext(m), HoldsRepo(m), TypeOK,
           loop'[m] = loop[m],
           \A k \in Keys : Running(k, m) => chain'[k] # <<>> /\ Head(chain'[k]) = m
    PROVE  HoldsContext(m)' /\ HoldsRepo(m)'
<1>1. loop[m].pc # "idle" =>
        /\ CtxKey(m) \in Keys /\ WtKey(m, loop[m].at) \in Keys
        /\ CtxKey(m)' = CtxKey(m) /\ WtKey(m, loop[m].at)' = WtKey(m, loop[m].at)
  BY KeysOf DEF CtxKey, WtKey
<1>2. HoldsContext(m)'
  BY <1>1 DEF HoldsContext, InContext, Running, CtxKey
<1>3. HoldsRepo(m)'
  BY <1>1 DEF HoldsRepo, Running, WtKey
<1> QED
  BY <1>2, <1>3

LEMMA StepChainInv == ASSUME Orderly, NEW l \in Loops, Step(l) PROVE ChainInv'
<1>1. Proceeds(l) /\ TypeOK /\ ChainInv
  BY StepProceeds DEF Orderly
<1>2. ASSUME NEW m \in Loops, m # l PROVE HoldsContext(m)' /\ HoldsRepo(m)'
  <2>1. \A k \in Keys : Running(k, m) => chain'[k] # <<>> /\ Head(chain'[k]) = m
    BY <1>1, <1>2, StepChain
  <2> QED
    BY <1>1, <1>2, <2>1, OthersHold DEF ChainInv, Proceeds
<1>3. HoldsContext(l)'
  <2> SUFFICES ASSUME loop'[l].pc \in InContext PROVE Running(CtxKey(l), l)'
    BY DEF HoldsContext
  <2>1. chain' = chain
    BY <1>1, StepChain
  <2>2. CtxKey(l)' = CtxKey(l)
    BY <1>1 DEF Proceeds, CtxKey
  <2>3. Know(l) \/ loop[l].pc \in InContext
    <3>1. ~(loop'[l].pc \in {"mirror", "mount"})
      BY DEF InContext
    <3> QED
      BY <1>1, <3>1, StepWithin
  <2>4. Running(CtxKey(l), l)
    BY <1>1, <2>3 DEF Know, ChainInv, HoldsContext
  <2> QED
    BY <2>1, <2>2, <2>4 DEF Running
<1>4. HoldsRepo(l)'
  <2> SUFFICES ASSUME loop'[l].pc = "adding" PROVE Running(WtKey(l, loop[l].at), l)'
    BY DEF HoldsRepo
  <2>1. AddStart(l)
    BY <1>1, StepEdges DEF Step
  <2>2. /\ Running(WtKey(l, loop[l].at), l) /\ chain' = chain
        /\ loop'[l].user = loop[l].user /\ loop'[l].at = loop[l].at
    BY <1>1, <2>1 DEF AddStart, Goto, TypeOK, LoopType
  <2> QED
    BY <2>2 DEF Running, WtKey
<1> QED
  BY <1>2, <1>3, <1>4 DEF ChainInv

LEMMA StepAddingInv == ASSUME Orderly, NEW l \in Loops, Step(l) PROVE AddingInv'
<1>1. Proceeds(l) /\ TypeOK /\ AddingInv
  BY StepProceeds DEF Orderly
<1>2. loop[l].user \in Users /\ loop[l].at \in Contexts /\ adding \in [Users -> [Contexts -> SUBSET Loops]]
  BY <1>1, KeysOf DEF Proceeds, TypeOK
<1> SUFFICES ASSUME NEW u \in Users, NEW x \in Contexts, NEW m \in adding'[u][x]
             PROVE  m \in Loops /\ loop'[m].pc = "adding" /\ loop'[m].user = u /\ loop'[m].at = x
  BY DEF AddingInv
<1>3. CASE AddStart(l)
  <2>1. /\ loop'[l].pc = "adding" /\ loop'[l].user = loop[l].user /\ loop'[l].at = loop[l].at
    BY <1>1, <1>3 DEF AddStart, Goto, TypeOK, LoopType
  <2>2. m \in adding[u][x] \/ (m = l /\ u = loop[l].user /\ x = loop[l].at)
    BY <1>2, <1>3 DEF AddStart
  <2>3. m \in adding[u][x] => m # l
    BY <1>1, <1>3 DEF AddStart, At, AddingInv
  <2> QED
    BY <1>1, <2>1, <2>2, <2>3 DEF AddingInv, Proceeds
<1>4. CASE AddEnd(l) \/ AddFail(l)
  <2>1. adding' = [adding EXCEPT ![loop[l].user][loop[l].at] = @ \ {l}]
    BY <1>4 DEF AddEnd, AddFail
  <2>2. m \in adding[u][x] /\ ~ (m = l /\ u = loop[l].user /\ x = loop[l].at)
    BY <1>2, <2>1
  <2>3. m # l
    BY <1>1, <2>2 DEF AddingInv
  <2> QED
    BY <1>1, <2>2, <2>3 DEF AddingInv, Proceeds
<1>5. CASE adding' = adding /\ loop[l].pc # "adding"
  BY <1>1, <1>5 DEF AddingInv, Proceeds
<1> QED
  BY <1>3, <1>4, <1>5
     DEF Step, Know, Notes, CloneStart, CloneEnd, LeaveContext, MirrorLook, MirrorClone, MirrorCloned,
         Workdir, MountEmpty, MountWait, AddSkip, AddLink, Mounted, Backfill, At

LEMMA OrderlyStep == ASSUME Orderly, [Next]_vars PROVE Orderly'
<1>1. ASSUME NEW l \in Loops, Step(l) PROVE Orderly'
  BY <1>1, StepTypeOK, StepChainInv, StepAddingInv DEF Orderly
<1>2. ASSUME NEW l \in Loops, NEW u \in Users, NEW v \in Vaults, Create(l, u, v) PROVE Orderly'
  <2>1. ASSUME NEW m \in Loops PROVE HoldsContext(m)' /\ HoldsRepo(m)'
    <3>1. CASE m = l
      BY <1>2, <3>1, CreateTyped DEF HoldsContext, HoldsRepo, InContext, Orderly
    <3>2. CASE m # l
      BY <1>2, <3>2, CreateTyped, OthersHold DEF Orderly, ChainInv
    <3> QED
      BY <3>1, <3>2
  <2>2. AddingInv'
    <3>1. adding' = adding /\ loop[l].pc = "idle" /\ \A m \in Loops : m # l => loop'[m] = loop[m]
      BY <1>2, CreateTyped DEF Orderly, Create
    <3> QED
      BY <3>1 DEF Orderly, AddingInv
  <2> QED
    BY <1>2, <2>1, <2>2, CreateTyped DEF Orderly, ChainInv
<1>3. ASSUME NEW l \in Loops, NEW u \in Users, Drive(l, u) PROVE Orderly'
  <2>1. chain' = chain /\ adding' = adding
    BY <1>3 DEF Drive
  <2>2. ASSUME NEW m \in Loops PROVE HoldsContext(m)' /\ HoldsRepo(m)'
    <3>1. CASE m = l
      BY <1>3, <3>1, DriveTyped DEF HoldsContext, HoldsRepo, InContext, Orderly
    <3>2. CASE m # l
      BY <1>3, <2>1, <3>2, DriveTyped, OthersHold DEF Orderly, ChainInv, Running
    <3> QED
      BY <3>1, <3>2
  <2>3. AddingInv'
    BY <1>3, <2>1, DriveTyped DEF Orderly, AddingInv
  <2> QED
    BY <1>3, <2>2, <2>3, DriveTyped DEF Orderly, ChainInv
<1>4. CASE Restart
  <2>1. ChainInv'
    BY <1>4, RestartTyped DEF ChainInv, HoldsContext, HoldsRepo, InContext, Orderly
  <2>2. AddingInv'
    BY <1>4 DEF Restart, AddingInv
  <2> QED
    BY <1>4, <2>1, <2>2, RestartTyped DEF Orderly
<1>5. CASE UNCHANGED vars
  BY <1>5 DEF vars, Orderly, TypeOK, Placed, ChainInv, HoldsContext, HoldsRepo, Running, CtxKey, WtKey,
              AddingInv
<1> QED
  BY <1>1, <1>2, <1>3, <1>4, <1>5 DEF Next

\* The state of the context machinery stays well typed.
THEOREM TypeCorrect == Spec => []TypeOK
<1>1. Spec => []Orderly
  BY OrderlyInit, OrderlyStep, PTL DEF Spec
<1>2. Orderly => TypeOK
  BY DEF Orderly
<1> QED
  BY <1>1, <1>2, PTL

\* At most one git worktree add runs on a main repository, whatever vaults,
\* failures, handoffs and restarts there are.
OneAddition ==
    \A u \in Users, x \in Contexts : \A l, m \in adding[u][x] : l = m

THEOREM AdditionsTakeTurns == Spec => []OneAddition
<1>1. ASSUME Orderly PROVE OneAddition
  <2> SUFFICES ASSUME NEW u \in Users, NEW x \in Contexts, NEW l \in adding[u][x], NEW m \in adding[u][x]
               PROVE  l = m
    BY DEF OneAddition
  <2>1. Running(<<"wt", u, x>>, l) /\ Running(<<"wt", u, x>>, m)
    BY <1>1 DEF Orderly, AddingInv, ChainInv, HoldsRepo, WtKey
  <2> QED
    BY <2>1 DEF Running
<1> QED
  BY <1>1, OrderlyInit, OrderlyStep, PTL DEF Spec

-----------------------------------------------------------------------------
(***************************************************************************)
(* The main repositories of users with one vault.                          *)
(***************************************************************************)
\* Two calls never are inside the context chain of one user.
LEMMA OneInContext ==
    ASSUME Orderly, OneVault, NEW l \in Loops, NEW m \in Loops,
           loop[l].pc \in InContext \/ (loop[l].pc = "know" /\ Running(CtxKey(l), l)),
           loop[m].pc \in InContext \/ (loop[m].pc = "know" /\ Running(CtxKey(m), m)),
           loop[l].user = loop[m].user
    PROVE  l = m
<1>1. Running(CtxKey(l), l) /\ Running(CtxKey(m), m)
  BY DEF Orderly, ChainInv, HoldsContext
<1>2. loop[l].vault \in Vaults /\ loop[m].vault \in Vaults
  BY KeysOf DEF Orderly, InContext
<1>3. CtxKey(l) = CtxKey(m)
  BY <1>2 DEF CtxKey, OneVault
<1> QED
  BY <1>1, <1>3 DEF Running

\* A step changes the main repositories only of its own user, and only inside the
\* chain of the user.
LEMMA StepMain ==
    ASSUME Orderly, NEW l \in Loops, Step(l)
    PROVE  \/ main' = main
           \/ /\ loop[l].pc \in InContext \/ (loop[l].pc = "know" /\ Running(CtxKey(l), l))
              /\ \A u \in Users : u # loop[l].user => main'[u] = main[u]
<1>1. loop[l].user \in Users /\ main \in [Users -> [Contexts -> RepoType]]
  BY StepProceeds, KeysOf DEF Proceeds, Orderly, TypeOK
<1>2. ASSUME NEW x, NEW r, SetRepo(l, x, r) PROVE \A u \in Users : u # loop[l].user => main'[u] = main[u]
  BY <1>1, <1>2 DEF SetRepo
<1>3. CASE Know(l)
  BY <1>2, <1>3 DEF Know, At
<1>4. CASE Notes(l)
  BY <1>2, <1>4 DEF Notes, At, InContext
<1>5. CASE CloneStart(l)
  BY <1>2, <1>5 DEF CloneStart, InContext
<1>6. ASSUME NEW works \in BOOLEAN, CloneEnd(l, works)
      PROVE  /\ loop[l].pc \in InContext
             /\ main' = main \/ \A u \in Users : u # loop[l].user => main'[u] = main[u]
  BY <1>2, <1>6 DEF CloneEnd, InContext
<1> QED
  BY <1>3, <1>4, <1>5, <1>6
     DEF Step, LeaveContext, MirrorLook, MirrorClone, MirrorCloned, Workdir, MountEmpty, MountWait,
         AddSkip, AddLink, AddStart, AddEnd, AddFail, Mounted, Backfill

\* Another call finds its repositories as they were while it is in its chain.
LEMMA OthersRepos ==
    ASSUME Orderly, OneVault, NEW l \in Loops, Step(l), NEW m \in Loops, m # l,
           loop[m].pc \in InContext
    PROVE  loop'[m] = loop[m] /\ main'[loop[m].user] = main[loop[m].user]
<1>1. loop'[m] = loop[m] /\ loop[m].user \in Users
  BY StepProceeds, KeysOf DEF Orderly, Proceeds, InContext
<1>2. main' # main => loop[l].user # loop[m].user
  BY StepMain, OneInContext
<1> QED
  BY <1>1, <1>2, StepMain

NoCollisionInv == Orderly /\ CloneInv /\ NoCollision

LEMMA StepNoCollision ==
    ASSUME NoCollisionInv, OneVault, NEW l \in Loops, Step(l) PROVE CloneInv' /\ NoCollision'
<1>1. Orderly /\ TypeOK /\ CloneInv /\ ~collided /\ Proceeds(l)
  BY StepProceeds DEF NoCollisionInv, Orderly, NoCollision
<1>2. CloneInv'
  <2> SUFFICES ASSUME NEW m \in Loops
               PROVE  /\ At(m, "knowClone")' => Repo(m, "knowledge")'.st = "absent"
                      /\ At(m, "notesClone")' => Repo(m, "notes")'.st = "absent"
    BY DEF CloneInv
  <2>1. CASE m # l
    <3> SUFFICES ASSUME loop'[m].pc \in {"knowClone", "notesClone"}
                 PROVE  Repo(m, "knowledge")' = Repo(m, "knowledge") /\ Repo(m, "notes")' = Repo(m, "notes")
                        /\ loop'[m] = loop[m]
      BY <1>1 DEF At, CloneInv
    <3> QED
      BY <1>1, <2>1, OthersRepos DEF Proceeds, InContext, Repo
  <2>2. CASE m = l /\ loop'[l].pc = "knowClone"
    <3>1. Know(l)
      BY <1>1, <2>2, StepEdges DEF Step
    <3>2. Repo(l, "knowledge").st = "absent" /\ main' = main /\ loop'[l].user = loop[l].user
      BY <1>1, <2>2, <3>1 DEF Know, Goto, TypeOK, LoopType, Proceeds
    <3> QED
      BY <2>2, <3>2 DEF At, Repo
  <2>3. CASE m = l /\ loop'[l].pc = "notesClone"
    <3>1. Notes(l)
      BY <1>1, <2>3, StepEdges DEF Step
    <3>2. Repo(l, "notes").st = "absent" /\ main' = main /\ loop'[l].user = loop[l].user
      BY <1>1, <2>3, <3>1 DEF Notes, Goto, TypeOK, LoopType, Proceeds
    <3> QED
      BY <2>3, <3>2 DEF At, Repo
  <2> QED
    BY <2>1, <2>2, <2>3 DEF At
<1>3. ~collided'
  <2>1. CASE CloneStart(l)
    BY <1>1, <2>1 DEF CloneStart, CloneOf, CloneInv, At
  <2>2. CASE AddStart(l)
    <3>1. loop[l].user \in Users /\ loop[l].at \in Contexts
      BY <1>1, KeysOf DEF Proceeds
    <3>2. \A m \in adding[loop[l].user][loop[l].at] : m = l /\ loop[m].pc = "adding"
      BY <1>1, <2>2, <3>1 DEF AddStart, Orderly, AddingInv, ChainInv, HoldsRepo, WtKey, Running
    <3>3. adding[loop[l].user][loop[l].at] = {}
      BY <2>2, <3>2 DEF AddStart, At
    <3> QED
      BY <1>1, <2>2, <3>3 DEF AddStart
  <2> QED
    BY <1>1, <2>1, <2>2
       DEF Step, Know, Notes, CloneEnd, LeaveContext, MirrorLook, MirrorClone, MirrorCloned, Workdir,
           MountEmpty, MountWait, AddSkip, AddLink, AddEnd, AddFail, Mounted, Backfill
<1> QED
  BY <1>2, <1>3 DEF NoCollision

LEMMA NoCollisionStep == ASSUME OneVault, NoCollisionInv, [Next]_vars PROVE NoCollisionInv'
<1> SUFFICES CloneInv' /\ NoCollision'
  BY OrderlyStep DEF NoCollisionInv
<1>1. ASSUME NEW l \in Loops, Step(l) PROVE CloneInv' /\ NoCollision'
  BY <1>1, StepNoCollision
<1>2. ASSUME NEW l \in Loops, NEW u \in Users, NEW v \in Vaults, Create(l, u, v)
      PROVE  CloneInv' /\ NoCollision'
  <2>1. /\ main' = main /\ collided' = collided /\ loop'[l].pc = "know"
        /\ \A m \in Loops : m # l => loop'[m] = loop[m]
    BY <1>2, CreateTyped DEF Create, NoCollisionInv, Orderly
  <2> QED
    BY <2>1 DEF NoCollisionInv, CloneInv, NoCollision, At, Repo
<1>3. ASSUME NEW l \in Loops, NEW u \in Users, Drive(l, u) PROVE CloneInv' /\ NoCollision'
  <2>1. /\ main' = main /\ collided' = collided /\ loop'[l].pc = "mount"
        /\ \A m \in Loops : m # l => loop'[m] = loop[m]
    BY <1>3, DriveTyped DEF Drive, NoCollisionInv, Orderly
  <2> QED
    BY <2>1 DEF NoCollisionInv, CloneInv, NoCollision, At, Repo
<1>4. CASE Restart
  BY <1>4, RestartTyped DEF Restart, NoCollisionInv, Orderly, CloneInv, NoCollision, At
<1>5. CASE UNCHANGED vars
  BY <1>5 DEF vars, NoCollisionInv, CloneInv, NoCollision, At, Repo
<1> QED
  BY <1>1, <1>2, <1>3, <1>4, <1>5 DEF Next

\* Users with one vault: two git commands never meet on a main repository.
THEOREM CommandsNeverMeet == OneVault => (Spec => []NoCollision)
<1> SUFFICES ASSUME OneVault PROVE Spec => []NoCollision
  OBVIOUS
<1>1. Init => NoCollisionInv
  BY OrderlyInit DEF Init, NoCollisionInv, CloneInv, NoCollision, At, Idle
<1>2. NoCollisionInv /\ [Next]_vars => NoCollisionInv'
  BY NoCollisionStep
<1> QED
  BY <1>1, <1>2, PTL DEF Spec, NoCollisionInv

-----------------------------------------------------------------------------
(***************************************************************************)
(* What the main repositories hold.                                        *)
(***************************************************************************)
RepoFacts == NoCollisionInv /\ RepoInv

\* A call inside the chain of its user.
Inside(l) == loop[l].pc \in InContext \/ (loop[l].pc = "know" /\ Running(CtxKey(l), l))

\* What a call does inside the chain disturbs its own user's repositories and
\* itself, and no other call.
LEMMA RepoInvLocal ==
    ASSUME RepoFacts, OneVault, NEW l \in Loops, Proceeds(l), Inside(l),
           \A v \in Users : v # loop[l].user => main'[v] = main[v],
           UserRepos(loop[l].user)', CallRepos(l)'
    PROVE  RepoInv'
<1>1. ASSUME NEW v \in Users PROVE UserRepos(v)'
  <2>1. CASE v = loop[l].user
    BY <2>1 DEF Proceeds
  <2>2. CASE v # loop[l].user
    BY <2>2 DEF RepoFacts, RepoInv, UserRepos, Proceeds
  <2> QED
    BY <2>1, <2>2
<1>2. ASSUME NEW m \in Loops PROVE CallRepos(m)'
  <2>1. CASE m = l
    BY <2>1
  <2>2. CASE m # l /\ loop[m].pc \in InContext
    <3>1. loop'[m] = loop[m] /\ loop[m].user \in Users /\ loop[m].user # loop[l].user
      BY <2>2, KeysOf, OneInContext DEF Inside, Proceeds, RepoFacts, NoCollisionInv, Orderly, InContext
    <3> QED
      BY <3>1 DEF RepoFacts, RepoInv, CallRepos, At, Repo
  <2>3. CASE m # l /\ loop[m].pc \notin InContext
    BY <2>3 DEF CallRepos, At, Proceeds, InContext
  <2> QED
    BY <2>1, <2>2, <2>3
<1> QED
  BY <1>1, <1>2 DEF RepoInv

\* Inside its chain a call that is not cloning itself meets no clone.
LEMMA NoneCloning ==
    ASSUME RepoFacts, OneVault, NEW l \in Loops, Inside(l), loop[l].user \in Users,
           loop[l].pc \notin {"knowCloning", "notesCloning"}, NEW x \in Cloned
    PROVE  main[loop[l].user][x].st # "cloning"
<1> SUFFICES ASSUME main[loop[l].user][x].st = "cloning" PROVE FALSE
  OBVIOUS
<1>1. PICK m \in Loops : /\ loop[m].user = loop[l].user
                         /\ loop[m].pc \in {"knowCloning", "notesCloning"}
  BY DEF RepoFacts, RepoInv, UserRepos
<1>2. m = l
  BY <1>1, OneInContext DEF Inside, InContext, RepoFacts, NoCollisionInv
<1> QED
  BY <1>1, <1>2

\* A complete repository stays as it is.
ReadyStays == \A u \in Users, x \in Contexts : main[u][x].st = "ready" => main'[u][x] = main[u][x]

LEMMA ChangeNotReady ==
    ASSUME TypeOK, NEW l \in Loops, loop[l].user \in Users, NEW x \in Cloned, NEW r \in RepoType,
           SetRepo(l, x, r), main[loop[l].user][x].st # "ready"
    PROVE  /\ \A v \in Users : v # loop[l].user => main'[v] = main[v]
           /\ main'[loop[l].user][x] = r
           /\ \A y \in Contexts : y # x => main'[loop[l].user][y] = main[loop[l].user][y]
           /\ ReadyStays
<1>1. Cloned \subseteq Contexts
  BY DEF Contexts
<1> QED
  BY <1>1 DEF SetRepo, TypeOK, ReadyStays

LEMMA CloneNames ==
    /\ "knowledge" \in Cloned /\ "notes" \in Cloned
    /\ "knowledge" \in Contexts /\ "notes" \in Contexts /\ "personal" \in Contexts
    /\ \A x \in Cloned : x = "knowledge" \/ x = "notes"
    /\ \A x \in Contexts : x \in Cloned \/ x = "personal"
    /\ "personal" \notin Cloned
  BY DEF Cloned, Contexts

LEMMA KnowRepos ==
    ASSUME RepoFacts, OneVault, NEW l \in Loops, Step(l), Know(l) PROVE RepoInv' /\ ReadyStays
<1> DEFINE u == loop[l].user
<1>1. TypeOK /\ Proceeds(l) /\ u \in Users /\ UserRepos(u)
  BY StepProceeds, KeysOf DEF RepoFacts, NoCollisionInv, Orderly, Proceeds, RepoInv
<1>2. Inside(l) /\ \A x \in Cloned : main[u][x].st # "cloning"
  BY <1>1, NoneCloning DEF Inside, Know, At
<1>3. loop'[l].user = u
  BY <1>1 DEF Proceeds
<1>4. CASE u \notin Declared
  <2>1. SetRepo(l, "knowledge", Missing) /\ loop'[l].pc = "notes" /\ Missing \in RepoType
    BY <1>1, <1>4, IsStage DEF Know, Goto, TypeOK, LoopType, Missing, RepoType
  <2>2. main[u]["knowledge"].st = "absent" /\ main[u]["notes"].st = "absent"
    BY <1>1, <1>4, CloneNames DEF UserRepos
  <2>3. /\ \A v \in Users : v # u => main'[v] = main[v]
        /\ main'[u]["knowledge"] = Missing /\ main'[u]["notes"] = main[u]["notes"]
        /\ main'[u]["personal"] = main[u]["personal"] /\ ReadyStays
    BY <1>1, <2>1, <2>2, CloneNames, ChangeNotReady
  <2>4. UserRepos(u)'
    BY <1>1, <1>3, <2>2, <2>3, CloneNames DEF UserRepos, Missing
  <2>5. CallRepos(l)'
    BY <1>3, <1>4, <2>1 DEF CallRepos, At
  <2> QED
    BY <1>1, <1>2, <2>3, <2>4, <2>5, RepoInvLocal
<1>5. CASE u \in Declared
  <2> DEFINE there == Repo(l, "knowledge").st # "absent"
  <2>1. /\ main' = main /\ loop'[l].has = there
        /\ loop'[l].pc = IF there THEN "notes" ELSE "knowClone"
    BY <1>1, <1>5 DEF Know, TypeOK, LoopType
  <2>2. main[u]["knowledge"].st \in {"absent", "cloning", "ready"}
    BY <1>1, CloneNames DEF TypeOK, RepoType
  <2>3. there <=> Repo(l, "knowledge").st = "ready"
    BY <1>2, <2>2, CloneNames DEF Repo
  <2>4. UserRepos(u)'
    BY <1>1, <1>2, <1>3, <2>1 DEF UserRepos
  <2>5. CallRepos(l)'
    BY <1>3, <1>5, <2>1, <2>3 DEF CallRepos, At, Repo
  <2> QED
    BY <1>1, <1>2, <2>1, <2>4, <2>5, RepoInvLocal DEF ReadyStays
<1> QED
  BY <1>4, <1>5

LEMMA NotesRepos ==
    ASSUME RepoFacts, OneVault, NEW l \in Loops, Step(l), Notes(l) PROVE RepoInv' /\ ReadyStays
<1> DEFINE u == loop[l].user
           known == loop[l].has /\ Repo(l, "knowledge").st = "ready"
<1>1. TypeOK /\ Proceeds(l) /\ u \in Users /\ UserRepos(u) /\ CallRepos(l)
  BY StepProceeds, KeysOf DEF RepoFacts, NoCollisionInv, Orderly, Proceeds, RepoInv
<1>2. Inside(l) /\ \A x \in Cloned : main[u][x].st # "cloning"
  BY <1>1, NoneCloning DEF Inside, Notes, At, InContext
<1>3. loop'[l].user = u
  BY <1>1 DEF Proceeds
<1>4. CASE known
  <2>1. main' = main /\ loop'[l].pc \in {"notesClone", "leave"}
    BY <1>1, <1>4, StepEdges DEF Notes
  <2>2. UserRepos(u)'
    BY <1>1, <1>2, <1>3, <2>1 DEF UserRepos
  <2>3. u \in Declared
    BY <1>1, <1>4, CloneNames DEF UserRepos, Repo
  <2>4. CallRepos(l)'
    BY <1>3, <1>4, <2>1, <2>3 DEF CallRepos, At, Repo
  <2> QED
    BY <1>1, <1>2, <2>1, <2>2, <2>4, RepoInvLocal DEF ReadyStays
<1>5. CASE ~known
  <2>1. SetRepo(l, "notes", Missing) /\ loop'[l].pc = "leave" /\ Missing \in RepoType
    BY <1>1, <1>5, IsStage DEF Notes, Goto, TypeOK, LoopType, Missing, RepoType
  <2>2. main[u]["notes"].st = "absent"
    BY <1>1, <1>5, CloneNames DEF UserRepos, CallRepos, Notes, At, Repo
  <2>3. /\ \A v \in Users : v # u => main'[v] = main[v]
        /\ main'[u]["notes"] = Missing /\ main'[u]["knowledge"] = main[u]["knowledge"]
        /\ main'[u]["personal"] = main[u]["personal"] /\ ReadyStays
    BY <1>1, <2>1, <2>2, CloneNames, ChangeNotReady
  <2>4. UserRepos(u)'
    BY <1>1, <1>2, <1>3, <2>2, <2>3, CloneNames DEF UserRepos, Missing
  <2>5. CallRepos(l)'
    BY <2>1 DEF CallRepos, At
  <2> QED
    BY <1>1, <1>2, <2>3, <2>4, <2>5, RepoInvLocal
<1> QED
  BY <1>4, <1>5

LEMMA CloneStartRepos ==
    ASSUME RepoFacts, OneVault, NEW l \in Loops, Step(l), CloneStart(l) PROVE RepoInv' /\ ReadyStays
<1> DEFINE u == loop[l].user
           x == CloneOf(l)
           y == IF x = "knowledge" THEN "notes" ELSE "knowledge"
           r == [st |-> "cloning", by |-> l, gen |-> Repo(l, x).gen]
<1>1. TypeOK /\ CloneInv /\ Proceeds(l) /\ u \in Users /\ UserRepos(u) /\ CallRepos(l)
  BY StepProceeds, KeysOf DEF RepoFacts, NoCollisionInv, Orderly, Proceeds, RepoInv
<1>2. Inside(l) /\ \A z \in Cloned : main[u][z].st # "cloning"
  BY <1>1, NoneCloning DEF Inside, CloneStart, InContext
<1>3. loop'[l].user = u
  BY <1>1 DEF Proceeds
<1>4. \/ x = "knowledge" /\ loop[l].pc = "knowClone" /\ loop'[l].pc = "knowCloning"
      \/ x = "notes" /\ loop[l].pc = "notesClone" /\ loop'[l].pc = "notesCloning"
  BY <1>1, StepEdges DEF CloneOf, At
<1>5. main[u][x].st = "absent" /\ u \in Declared
  BY <1>1, <1>4 DEF CloneInv, CallRepos, At, Repo
<1>6. r \in RepoType /\ r.st = "cloning" /\ r.by = l /\ SetRepo(l, x, r)
  BY <1>1, <1>4, CloneNames DEF TypeOK, RepoType, Repo, CloneStart
<1> HIDE DEF r
<1>7. x \in Cloned
  BY <1>4, CloneNames
<1> HIDE DEF x
<1>8. /\ \A v \in Users : v # u => main'[v] = main[v]
      /\ main'[u][x].st = "cloning" /\ main'[u][x].by = l
      /\ main'[u][y] = main[u][y] /\ main'[u]["personal"] = main[u]["personal"]
      /\ ReadyStays
  BY <1>1, <1>5, <1>6, <1>7, CloneNames, ChangeNotReady
<1>9. x = "knowledge" => main[u]["notes"].st = "absent"
  BY <1>1, <1>5 DEF UserRepos
<1>10. x = "notes" => main[u]["knowledge"].st = "ready"
  BY <1>1, <1>4 DEF CallRepos, Repo
<1>11. UserRepos(u)'
  <2>1. CASE x = "knowledge"
    BY <1>1, <1>3, <1>4, <1>5, <1>8, <1>9, <2>1, CloneNames DEF UserRepos
  <2>2. CASE x = "notes"
    BY <1>1, <1>3, <1>4, <1>5, <1>8, <1>10, <2>2, CloneNames DEF UserRepos
  <2> QED
    BY <1>4, <2>1, <2>2
<1>12. CallRepos(l)'
  BY <1>3, <1>4, <1>5, <1>8, <1>10 DEF CallRepos, At, Repo
<1> QED
  BY <1>1, <1>2, <1>8, <1>11, <1>12, RepoInvLocal

LEMMA CloneEndRepos ==
    ASSUME RepoFacts, OneVault, NEW l \in Loops, Step(l), NEW works \in BOOLEAN, CloneEnd(l, works)
    PROVE  /\ RepoInv' /\ ReadyStays
           /\ loop'[l].warned <=> loop[l].warned \/ ~works
           /\ works => main'[loop[l].user][CloneOf(l)].st = "ready"
<1> DEFINE u == loop[l].user
           x == CloneOf(l)
           y == IF x = "knowledge" THEN "notes" ELSE "knowledge"
           g == Repo(l, x).gen
           r == IF works THEN [st |-> "ready", by |-> None, gen |-> g + 1] ELSE [Missing EXCEPT !.gen = g]
<1>1. TypeOK /\ Proceeds(l) /\ u \in Users /\ UserRepos(u) /\ CallRepos(l)
  BY StepProceeds, KeysOf DEF RepoFacts, NoCollisionInv, Orderly, Proceeds, RepoInv
<1>2. Inside(l)
  BY DEF Inside, CloneEnd, InContext
<1>3. loop'[l].user = u
  BY <1>1 DEF Proceeds
<1>4. \/ x = "knowledge" /\ loop[l].pc = "knowCloning" /\ loop'[l].pc = "notes"
      \/ x = "notes" /\ loop[l].pc = "notesCloning" /\ loop'[l].pc = "leave"
  BY <1>1, StepEdges DEF CloneOf, At
<1>5. main[u][x].st = "cloning" /\ main[u][x].by = l /\ u \in Declared
  BY <1>1, <1>4 DEF CallRepos, At, Repo
<1>6. g \in Nat
  BY <1>1, <1>4, CloneNames DEF TypeOK, RepoType, Repo
<1>7. SetRepo(l, x, r)
  BY <1>5 DEF CloneEnd, Repo
<1>8. /\ loop'[l].warned <=> loop[l].warned \/ ~works
      /\ x = "knowledge" => (loop'[l].has <=> works)
  <2> DEFINE h == IF x = "knowledge" THEN works ELSE loop[l].has
             w == loop[l].warned \/ ~works
             p == IF x = "knowledge" THEN "notes" ELSE "leave"
  <2>1. loop' = [loop EXCEPT ![l].pc = p, ![l].has = h, ![l].warned = w]
    BY <1>5 DEF CloneEnd, Repo
  <2> HIDE DEF p, h, w
  <2>2. loop'[l].has = h /\ loop'[l].warned = w
    BY <1>1, <2>1 DEF TypeOK, LoopType
  <2> QED
    BY <2>2 DEF h, w
<1> HIDE DEF g
<1>9. r \in RepoType /\ r.st = IF works THEN "ready" ELSE "absent"
  BY <1>6 DEF RepoType, Missing
<1> HIDE DEF r
<1>10. x \in Cloned
  BY <1>4, CloneNames
<1> HIDE DEF x
<1>11. /\ \A v \in Users : v # u => main'[v] = main[v]
       /\ main'[u][x].st = IF works THEN "ready" ELSE "absent"
       /\ main'[u][y] = main[u][y] /\ main'[u]["personal"] = main[u]["personal"]
       /\ ReadyStays
  BY <1>1, <1>5, <1>7, <1>9, <1>10, CloneNames, ChangeNotReady
<1>12. x = "knowledge" => main[u]["notes"].st = "absent"
  BY <1>1, <1>5 DEF UserRepos
<1>13. x = "notes" => main[u]["knowledge"].st = "ready"
  BY <1>1, <1>4 DEF CallRepos, Repo
<1>14. UserRepos(u)'
  <2>1. CASE x = "knowledge"
    BY <1>1, <1>3, <1>4, <1>5, <1>11, <1>12, <2>1, CloneNames DEF UserRepos
  <2>2. CASE x = "notes"
    BY <1>1, <1>3, <1>4, <1>5, <1>11, <1>13, <2>2, CloneNames DEF UserRepos
  <2> QED
    BY <1>4, <2>1, <2>2
<1>15. CallRepos(l)'
  BY <1>3, <1>4, <1>5, <1>8, <1>11 DEF CallRepos, At, Repo
<1>16. RepoInv'
  BY <1>1, <1>2, <1>11, <1>14, <1>15, RepoInvLocal
<1> QED
  BY <1>8, <1>11, <1>16 DEF x

LEMMA StepRepos ==
    ASSUME RepoFacts, OneVault, NEW l \in Loops, Step(l) PROVE RepoInv' /\ ReadyStays
<1>1. Orderly /\ TypeOK /\ Proceeds(l) /\ loop[l].user \in Users /\ UserRepos(loop[l].user)
  BY StepProceeds, KeysOf DEF RepoFacts, NoCollisionInv, Orderly, Proceeds, RepoInv
<1>2. CASE Know(l) \/ Notes(l) \/ CloneStart(l) \/ \E works \in BOOLEAN : CloneEnd(l, works)
  BY <1>2, KnowRepos, NotesRepos, CloneStartRepos, CloneEndRepos
<1>3. CASE LeaveContext(l)
  <2>1. /\ main' = main /\ loop'[l].pc \in {"mirror", "mount"} /\ loop'[l].user = loop[l].user
        /\ Inside(l)
    BY <1>1, <1>3, StepEdges DEF LeaveContext, Inside, InContext, At, Proceeds
  <2>2. \A x \in Cloned : main[loop[l].user][x].st # "cloning"
    BY <1>1, <1>3, <2>1, NoneCloning DEF LeaveContext, At
  <2>3. UserRepos(loop[l].user)'
    BY <1>1, <2>1, <2>2 DEF UserRepos
  <2>4. CallRepos(l)'
    BY <2>1 DEF CallRepos, At
  <2> QED
    BY <1>1, <2>1, <2>3, <2>4, RepoInvLocal DEF ReadyStays
<1>4. CASE main' = main /\ loop[l].pc \notin InContext /\ loop'[l].pc \notin InContext
  <2>1. ASSUME NEW u \in Users PROVE UserRepos(u)'
    BY <1>1, <1>4 DEF RepoFacts, RepoInv, UserRepos, Proceeds, InContext
  <2>2. ASSUME NEW m \in Loops PROVE CallRepos(m)'
    BY <1>1, <1>4 DEF RepoFacts, RepoInv, CallRepos, At, Repo, Proceeds, InContext
  <2> QED
    BY <1>4, <2>1, <2>2 DEF RepoInv, ReadyStays
<1> QED
  <2>1. ASSUME Outside(l) PROVE main' = main /\ loop[l].pc \notin InContext /\ loop'[l].pc \notin InContext
    <3>1. main' = main
      BY <2>1 DEF Outside, MirrorLook, MirrorClone, MirrorCloned, Workdir, MountEmpty, MountWait, AddSkip,
                  AddLink, AddStart, AddEnd, AddFail, Mounted, Backfill
    <3> QED
      BY <1>1, <2>1, <3>1, StepWithin
  <2> QED
    BY <1>1, <1>2, <1>3, <1>4, <2>1, StepWithin

\* The steps outside of the chains; a server that is not killed while git clone
\* runs leaves no half of a repository.
LEMMA NextRepos ==
    ASSUME RepoFacts, OneVault, ~DieInClone, [Next]_vars PROVE RepoFacts' /\ ReadyStays
<1>1. Orderly /\ TypeOK /\ RepoInv
  BY DEF RepoFacts, NoCollisionInv, Orderly
<1>2. NoCollisionInv'
  BY NoCollisionStep DEF RepoFacts
<1>3. ASSUME NEW l \in Loops, Step(l) PROVE RepoInv' /\ ReadyStays
  BY <1>3, StepRepos
<1>4. ASSUME main' = main, NEW l \in Loops, \A m \in Loops : m # l => loop'[m] = loop[m],
             loop[l].pc \in {"idle", "done"}, loop'[l].pc \in {"know", "mount"}
      PROVE  RepoInv' /\ ReadyStays
  <2>1. ASSUME NEW u \in Users PROVE UserRepos(u)'
    BY <1>1, <1>4 DEF RepoInv, UserRepos
  <2>2. ASSUME NEW m \in Loops PROVE CallRepos(m)'
    BY <1>1, <1>4 DEF RepoInv, CallRepos, At, Repo
  <2> QED
    BY <1>4, <2>1, <2>2 DEF RepoInv, ReadyStays
<1>5. ASSUME NEW l \in Loops, NEW u \in Users, NEW v \in Vaults, Create(l, u, v)
      PROVE  RepoInv' /\ ReadyStays
  BY <1>1, <1>4, <1>5, CreateTyped DEF Create
<1>6. ASSUME NEW l \in Loops, NEW u \in Users, Drive(l, u) PROVE RepoInv' /\ ReadyStays
  BY <1>1, <1>4, <1>6, DriveTyped DEF Drive
<1>7. CASE Restart
  <2>1. main' = main /\ \A u \in Users, x \in Cloned : main[u][x].st # "cloning"
    BY <1>7 DEF Restart, Cloning
  <2>2. ASSUME NEW u \in Users PROVE UserRepos(u)'
    BY <1>1, <2>1 DEF RepoInv, UserRepos
  <2>3. ASSUME NEW m \in Loops PROVE CallRepos(m)'
    BY <1>1, <1>7, RestartTyped DEF CallRepos, At
  <2>4. ReadyStays
    BY <2>1 DEF ReadyStays
  <2> QED
    BY <1>2, <2>2, <2>3, <2>4 DEF RepoInv, RepoFacts
<1>8. CASE UNCHANGED vars
  <2>1. main' = main /\ loop' = loop
    BY <1>8 DEF vars
  <2>2. RepoInv'
    BY <1>1, <2>1 DEF RepoInv, UserRepos, CallRepos, At, Repo
  <2>3. ReadyStays
    BY <2>1 DEF ReadyStays
  <2> QED
    BY <1>2, <2>2, <2>3 DEF RepoFacts
<1> QED
  BY <1>2, <1>3, <1>5, <1>6, <1>7, <1>8 DEF Next, RepoFacts

-----------------------------------------------------------------------------
(***************************************************************************)
(* Loops with all their contexts.                                          *)
(***************************************************************************)
LEMMA StepTree ==
    ASSUME TypeOK, NEW l \in Loops, Step(l)
    PROVE  /\ \A m \in Loops, x \in Contexts : m # l \/ x # loop[l].at => wt'[m][x] = wt[m][x]
           /\ wt' # wt => MountEmpty(l) \/ AddLink(l) \/ AddEnd(l)
           /\ MountEmpty(l) \/ AddLink(l) => wt'[l][loop[l].at].st # "worktree" /\ main' = main
           /\ AddEnd(l) => /\ Repo(l, loop[l].at).st = "ready" <=> wt'[l][loop[l].at].st = "worktree"
                           /\ wt'[l][loop[l].at].of = loop[l].user
                           /\ wt'[l][loop[l].at].gen = Repo(l, loop[l].at).gen
                           /\ main' = main
<1>1. loop[l].at \in Contexts /\ wt \in [Loops -> [Contexts -> TreeType]]
  BY StepProceeds, KeysOf DEF Proceeds, TypeOK
<1>2. ASSUME NEW t, wt' = [wt EXCEPT ![l][loop[l].at] = t]
      PROVE  /\ wt'[l][loop[l].at] = t
             /\ \A m \in Loops, x \in Contexts : m # l \/ x # loop[l].at => wt'[m][x] = wt[m][x]
  BY <1>1, <1>2
<1>3. CASE MountEmpty(l)
  <2> DEFINE t == [NoTree EXCEPT !.st = "empty"]
  <2>1. wt' = [wt EXCEPT ![l][loop[l].at] = t] /\ main' = main
    BY <1>3 DEF MountEmpty
  <2>2. t.st # "worktree"
    BY DEF NoTree
  <2>3. ~AddEnd(l)
    BY <1>3 DEF MountEmpty, AddEnd, At
  <2> QED
    BY <1>2, <1>3, <2>1, <2>2, <2>3
<1>4. CASE AddLink(l)
  <2> DEFINE t == [NoTree EXCEPT !.st = "link", !.of = loop[l].user]
  <2>1. wt' = [wt EXCEPT ![l][loop[l].at] = t] /\ main' = main
    BY <1>4 DEF AddLink
  <2>2. t.st # "worktree"
    BY DEF NoTree
  <2>3. ~AddEnd(l)
    BY <1>4 DEF AddLink, AddEnd, At
  <2> QED
    BY <1>2, <1>4, <2>1, <2>2, <2>3
<1>5. CASE AddEnd(l)
  <2> DEFINE t == [st |-> IF Repo(l, loop[l].at).st = "ready" THEN "worktree" ELSE "orphan",
                   of |-> loop[l].user, gen |-> Repo(l, loop[l].at).gen]
  <2>1. wt' = [wt EXCEPT ![l][loop[l].at] = t] /\ main' = main
    BY <1>5 DEF AddEnd
  <2>2. /\ Repo(l, loop[l].at).st = "ready" <=> t.st = "worktree"
        /\ t.of = loop[l].user /\ t.gen = Repo(l, loop[l].at).gen
    OBVIOUS
  <2>3. ~MountEmpty(l) /\ ~AddLink(l)
    BY <1>5 DEF MountEmpty, AddLink, AddEnd, At
  <2> HIDE DEF t
  <2> QED
    BY <1>2, <1>5, <2>1, <2>2, <2>3
<1>6. CASE wt' = wt /\ ~MountEmpty(l) /\ ~AddLink(l) /\ ~AddEnd(l)
  BY <1>6
<1> QED
  BY <1>3, <1>4, <1>5, <1>6
     DEF Step, Know, Notes, CloneStart, CloneEnd, LeaveContext, MirrorLook, MirrorClone, MirrorCloned,
         Workdir, MountWait, AddSkip, AddStart, AddFail, Mounted, Backfill

LEMMA NextTree ==
    ASSUME RepoFacts, TreeInv, OneVault, ~DieInClone, [Next]_vars PROVE TreeInv'
<1>1. TypeOK /\ ReadyStays
  BY NextRepos DEF RepoFacts, NoCollisionInv, Orderly
<1> SUFFICES ASSUME NEW m \in Loops, NEW x \in Contexts, wt'[m][x].st = "worktree"
             PROVE  /\ wt'[m][x].of \in Users /\ main'[wt'[m][x].of][x].st = "ready"
                    /\ wt'[m][x].gen = main'[wt'[m][x].of][x].gen
  BY DEF TreeInv
<1>2. CASE wt'[m][x] = wt[m][x]
  BY <1>1, <1>2 DEF TreeInv, ReadyStays
<1>3. ASSUME NEW l \in Loops, Step(l), wt'[m][x] # wt[m][x]
      PROVE  /\ m = l /\ x = loop[l].at /\ AddEnd(l)
  BY <1>1, <1>3, StepTree
<1>4. ASSUME NEW l \in Loops, Step(l), m = l /\ x = loop[l].at /\ AddEnd(l)
      PROVE  /\ wt'[m][x].of \in Users /\ main'[wt'[m][x].of][x].st = "ready"
             /\ wt'[m][x].gen = main'[wt'[m][x].of][x].gen
  BY <1>1, <1>4, StepTree, StepProceeds, KeysOf DEF Repo, Proceeds
<1>5. wt' = wt \/ \E l \in Loops : Step(l)
  <2>1. ASSUME NEW l \in Loops, NEW u \in Users, NEW v \in Vaults, Create(l, u, v) PROVE wt' = wt
    BY <2>1 DEF Create
  <2>2. ASSUME NEW l \in Loops, NEW u \in Users, Drive(l, u) PROVE wt' = wt
    BY <2>2 DEF Drive
  <2>3. ASSUME Restart PROVE wt' = wt
    BY <2>3 DEF Restart
  <2>4. ASSUME UNCHANGED vars PROVE wt' = wt
    BY <2>4 DEF vars
  <2> QED
    BY <2>1, <2>2, <2>3, <2>4 DEF Next
<1> QED
  BY <1>2, <1>3, <1>4, <1>5

\* What is whole stays whole while its directory is left alone.
LEMMA WholeStays ==
    ASSUME TreeInv, ReadyStays, NEW m \in Loops, NEW x \in Contexts,
           wt'[m][x] = wt[m][x], loop'[m].driver = loop[m].driver, Whole(m, x)
    PROVE  Whole(m, x)'
  BY DEF Whole, TreeInv, ReadyStays

SoundFacts == RepoFacts /\ TreeInv /\ WholeInv

\* A context that is done with is whole, for a loop that nothing happened to.
LEMMA ContextDone ==
    ASSUME SoundFacts, ReadyStays, NEW l \in Loops, Step(l), Clean(l),
           MountEmpty(l) \/ AddSkip(l) \/ AddLink(l) \/ AddEnd(l), NEW x, x = loop[l].at
    PROVE  Whole(l, x)'
<1> DEFINE u == loop[l].user
<1>1. /\ TypeOK /\ Proceeds(l) /\ u \in Users /\ x \in Contexts /\ UserRepos(u) /\ Sound(l)
      /\ loop'[l].driver = loop[l].driver
  BY StepProceeds, KeysOf
     DEF SoundFacts, RepoFacts, NoCollisionInv, Orderly, Proceeds, RepoInv, WholeInv
<1>2. u = loop[l].driver /\ loop[l].pc \in PastContext
  BY <1>1 DEF Sound, Clean, MountEmpty, AddSkip, AddLink, AddEnd, At, PastContext, InMount
<1>3. CASE x \in Cloned /\ u \notin Declared
  BY <1>1, <1>2, <1>3 DEF Whole
<1>4. CASE ~(x \in Cloned /\ u \notin Declared)
  <2>1. main[u][x].st = "ready"
    BY <1>1, <1>2, <1>4, CloneNames DEF Sound, UserRepos, Repo
  <2>2. AddSkip(l) \/ AddEnd(l)
    BY <2>1 DEF MountEmpty, AddLink, Repo
  <2>3. CASE AddSkip(l)
    <3>1. wt[l][x].st = "worktree" /\ wt' = wt
      BY <2>3 DEF AddSkip
    <3>2. Whole(l, x)
      BY <1>1, <3>1 DEF SoundFacts, TreeInv, Whole
    <3> QED
      BY <1>1, <3>1, <3>2, WholeStays DEF SoundFacts
  <2>4. CASE AddEnd(l)
    <3>1. /\ wt'[l][x].st = "worktree" /\ wt'[l][x].of = u /\ wt'[l][x].gen = main[u][x].gen
          /\ main' = main
      BY <1>1, <2>1, <2>4, StepTree DEF Repo
    <3> QED
      BY <2>1, <3>1 DEF Whole
  <2> QED
    BY <2>2, <2>3, <2>4
<1> QED
  BY <1>3, <1>4

\* The steps of other calls leave a loop as it was.
LEMMA SoundStays ==
    ASSUME SoundFacts, ReadyStays, TreeInv', NEW m \in Loops, Sound(m),
           loop'[m] = loop[m], \A x \in Contexts : wt'[m][x] = wt[m][x]
    PROVE  Sound(m)'
<1>1. \A x \in Contexts : Whole(m, x) => Whole(m, x)'
  BY WholeStays DEF SoundFacts
<1>2. Before(loop[m].at) \subseteq Contexts
  BY CloneNames DEF Before, Contexts
<1>3. Clean(m)' <=> Clean(m)
  BY DEF Clean
<1>4. \A x \in Cloned : Repo(m, x).st = "ready" /\ loop[m].user \in Users => Repo(m, x)'.st = "ready"
  BY CloneNames DEF Repo, ReadyStays
<1>5. loop[m].pc \in PastContext \/ loop[m].meta => loop[m].user \in Users
  BY KeysOf DEF SoundFacts, RepoFacts, NoCollisionInv, Orderly, TypeOK, Placed, PastContext, InMirror, InMount
<1> QED
  BY <1>1, <1>2, <1>3, <1>4, <1>5 DEF Sound

\* Where the call goes on in the list of contexts.
LEMMA NextAt ==
    ASSUME TypeOK, NEW l \in Loops, NextContext(l)
    PROVE  /\ loop'[l].pc = "mounted" => loop[l].at = "personal"
           /\ loop'[l].pc = "mount" => Before(loop'[l].at) = Before(loop[l].at) \union {loop[l].at}
<1>1. loop[l].at \in Contexts
  BY DEF TypeOK, LoopType
<1>2. /\ loop'[l].pc = IF loop[l].at = "personal" THEN "mounted" ELSE "mount"
      /\ loop'[l].at = IF loop[l].at = "personal" THEN loop[l].at ELSE Following(loop[l].at)
  BY DEF NextContext, TypeOK, LoopType
<1>3. CASE loop[l].at = "knowledge"
  BY <1>2, <1>3 DEF Following, Before
<1>4. CASE loop[l].at = "notes"
  BY <1>2, <1>4 DEF Following, Before, Cloned
<1>5. CASE loop[l].at = "personal"
  BY <1>2, <1>5
<1> QED
  BY <1>1, <1>3, <1>4, <1>5, CloneNames

\* Only these steps go on to another context.
LEMMA StepAt ==
    ASSUME TypeOK, NEW l \in Loops, Step(l), ~LeaveContext(l), ~Backfill(l),
           ~(MountEmpty(l) \/ AddSkip(l) \/ AddLink(l) \/ AddEnd(l))
    PROVE  loop'[l].at = loop[l].at
<1>0. loop \in [Loops -> LoopType]
  BY DEF TypeOK
<1>1. ASSUME NEW p, Goto(l, p) PROVE loop'[l].at = loop[l].at
  BY <1>0, <1>1 DEF Goto, LoopType
<1>2. CASE Know(l)
  BY <1>0, <1>1, <1>2 DEF Know, LoopType
<1>3. ASSUME NEW works \in BOOLEAN, CloneEnd(l, works) PROVE loop'[l].at = loop[l].at
  <2> DEFINE x == CloneOf(l)
             mine == Repo(l, x).st = "cloning" /\ Repo(l, x).by = l
             p == IF x = "knowledge" THEN "notes" ELSE "leave"
             h == IF x = "knowledge" THEN works /\ mine ELSE loop[l].has
             w == loop[l].warned \/ ~(works /\ mine)
  <2>1. loop' = [loop EXCEPT ![l].pc = p, ![l].has = h, ![l].warned = w]
    BY <1>3 DEF CloneEnd
  <2> HIDE DEF p, h, w
  <2> QED
    BY <1>0, <2>1 DEF LoopType
<1>4. CASE MirrorClone(l)
  <2>1. loop' = [loop EXCEPT ![l].tries = 1] => loop'[l].at = loop[l].at
    BY <1>0 DEF LoopType
  <2> QED
    BY <1>1, <1>4, <2>1 DEF MirrorClone
<1>5. ASSUME NEW works \in BOOLEAN, MirrorCloned(l, works) PROVE loop'[l].at = loop[l].at
  <2> DEFINE done == works /\ Mirror(l).st = "cloning" /\ Mirror(l).by = l
             p == IF done THEN "workdir" ELSE IF loop[l].tries = 0 THEN "mirrorClone" ELSE "done"
  <2>1. loop' = [loop EXCEPT ![l].pc = p, ![l].tries = 1]
    BY <1>5 DEF MirrorCloned
  <2> HIDE DEF p
  <2> QED
    BY <1>0, <2>1 DEF LoopType
<1>6. CASE Workdir(l)
  <2> DEFINE d == IF Mirror(l).st = "ready" THEN "worktree" ELSE "plain"
  <2>1. loop' = [loop EXCEPT ![l].pc = "mount", ![l].workdir = d]
    BY <1>6 DEF Workdir
  <2> HIDE DEF d
  <2> QED
    BY <1>0, <2>1 DEF LoopType
<1>7. CASE Mounted(l)
  BY <1>0, <1>7 DEF Mounted, LoopType
<1> QED
  BY <1>1, <1>2, <1>3, <1>4, <1>5, <1>6, <1>7
     DEF Step, Notes, CloneStart, MirrorLook, MountWait, AddStart, AddFail

LEMMA StepSound ==
    ASSUME SoundFacts, OneVault, ReadyStays, TreeInv', NEW l \in Loops, Step(l) PROVE Sound(l)'
<1> DEFINE u == loop[l].user
           Mounting == MountEmpty(l) \/ AddSkip(l) \/ AddLink(l) \/ AddEnd(l)
<1>1. /\ TypeOK /\ RepoFacts /\ Proceeds(l) /\ u \in Users /\ loop[l].at \in Contexts
      /\ UserRepos(u) /\ CallRepos(l) /\ Sound(l)
      /\ loop'[l].user = u /\ loop'[l].driver = loop[l].driver /\ loop'[l].moved = loop[l].moved
      /\ loop[l].pc # "idle"
  BY StepProceeds, KeysOf
     DEF SoundFacts, RepoFacts, NoCollisionInv, Orderly, Proceeds, RepoInv, WholeInv
<1>2. loop'[l].warned \/ ~loop[l].warned
  BY <1>1, StepEdges, CloneEndRepos
<1>3. Clean(l)' => Clean(l)
  BY <1>1, <1>2 DEF Clean
<1>4. \A x \in Contexts : Clean(l) /\ Whole(l, x) => Whole(l, x)'
  <2> SUFFICES ASSUME NEW x \in Contexts, Clean(l), Whole(l, x) PROVE Whole(l, x)'
    OBVIOUS
  <2>1. CASE wt'[l][x] = wt[l][x]
    BY <1>1, <2>1, WholeStays DEF SoundFacts
  <2>2. CASE wt'[l][x] # wt[l][x]
    BY <1>1, <2>2, StepTree, ContextDone
  <2> QED
    BY <2>1, <2>2
<1>5. \A x \in Cloned : Repo(l, x).st = "ready" => Repo(l, x)'.st = "ready"
  BY <1>1, CloneNames DEF Repo, ReadyStays
<1>6. loop'[l].pc # "boot"
  BY <1>1, StepEdges DEF Step
<1>7. loop'[l].meta => loop'[l].pc \notin InContext \union {"idle", "know"}
  <2>1. CASE Outside(l)
    BY <1>1, <2>1, StepWithin
  <2>2. CASE LeaveContext(l)
    <3>1. loop'[l].pc \in {"mirror", "mount"}
      BY <1>1, <2>2, StepWithin
    <3> QED
      BY <3>1 DEF InContext
  <2>3. CASE ~Outside(l) /\ ~LeaveContext(l)
    <3>1. loop[l].pc \in InContext \union {"know"}
      BY <1>1, <2>3, StepWithin
    <3>2. ~loop[l].meta
      BY <1>1, <3>1 DEF Sound
    <3>3. ~Mounted(l)
      BY <2>3 DEF Outside
    <3> QED
      BY <1>1, <3>2, <3>3, StepEdges
  <2> QED
    BY <2>1, <2>2, <2>3
<1>8. loop'[l].moved \/ loop'[l].user = loop'[l].driver
  BY <1>1 DEF Sound
<1>9. ASSUME Clean(l)', u \in Declared, loop'[l].pc \in PastContext \/ loop'[l].meta
      PROVE  \A x \in Cloned : Repo(l, x)'.st = "ready"
  <2>1. CASE Notes(l)
    <3>1. main' = main /\ loop[l].has /\ Repo(l, "knowledge").st = "ready"
      BY <1>1, <1>3, <1>9, <2>1 DEF Notes, CallRepos, At, Clean
    <3>2. loop'[l].pc = "leave"
      BY <1>1, <1>9, <2>1, StepEdges DEF Notes, At, Sound, PastContext, InMirror, InMount, InContext
    <3>3. Repo(l, "notes").st # "absent"
      BY <1>1, <2>1, <3>1, <3>2, IsStage DEF Notes, Goto, TypeOK, LoopType
    <3>4. Repo(l, "notes").st # "cloning"
      BY <1>1, <2>1, NoneCloning, CloneNames DEF Inside, Notes, At, InContext, Repo
    <3>5. Repo(l, "notes").st = "ready"
      BY <1>1, <3>3, <3>4, CloneNames DEF TypeOK, RepoType, Repo
    <3> QED
      BY <1>5, <3>1, <3>5, CloneNames
  <2>2. ASSUME NEW works \in BOOLEAN, CloneEnd(l, works)
        PROVE  \A x \in Cloned : Repo(l, x)'.st = "ready"
    <3>1. works
      BY <1>1, <1>9, <2>2, CloneEndRepos DEF Clean
    <3>2. loop[l].pc = "notesCloning"
      BY <1>1, <1>9, <2>2, StepEdges DEF Sound, PastContext, InMirror, InMount, InContext
    <3>3. CloneOf(l) = "notes" /\ Repo(l, "knowledge").st = "ready"
      BY <1>1, <3>2 DEF CloneOf, At, CallRepos
    <3>4. main'[u]["notes"].st = "ready"
      BY <1>1, <2>2, <3>1, <3>3, CloneEndRepos
    <3>5. Repo(l, "notes")'.st = "ready"
      BY <1>1, <3>4 DEF Repo
    <3> QED
      BY <1>5, <3>3, <3>5, CloneNames
  <2>3. CASE loop[l].pc \in PastContext \/ loop[l].meta
    BY <1>1, <1>3, <1>5, <1>9, <2>3 DEF Sound
  <2>4. loop[l].pc \in PastContext \/ loop[l].meta \/ Notes(l) \/ \E works \in BOOLEAN : CloneEnd(l, works)
    BY <1>1, <1>9, StepEdges
       DEF Step, LeaveContext, MirrorLook, MirrorClone, MirrorCloned, Workdir, MountEmpty, MountWait, AddSkip,
           AddLink, AddStart, AddEnd, AddFail, Mounted, Backfill, At, Sound, PastContext, InMirror, InMount
  <2> QED
    BY <2>1, <2>2, <2>3, <2>4
<1>10. ASSUME Clean(l)', loop'[l].pc \in InMirror \union InMount, NEW x \in Before(loop'[l].at)
       PROVE  Whole(l, x)'
  <2>1. CASE LeaveContext(l) \/ Backfill(l)
    <3>1. loop'[l].at = "knowledge"
      BY <1>1, <2>1 DEF LeaveContext, Backfill, TypeOK, LoopType
    <3> QED
      BY <1>10, <3>1 DEF Before
  <2>2. CASE Mounting
    <3>1. NextContext(l) /\ loop'[l].pc = "mount" /\ loop[l].pc \in InMount
      BY <1>1, <1>10, <2>2, StepEdges
         DEF MountEmpty, AddSkip, AddLink, AddEnd, At, InMirror, InMount
    <3>2. x \in Before(loop[l].at) \/ x = loop[l].at
      BY <1>1, <1>10, <3>1, NextAt
    <3>3. CASE x = loop[l].at
      BY <1>3, <1>10, <2>2, <3>3, ContextDone
    <3>4. CASE x \in Before(loop[l].at)
      <4>1. Whole(l, x) /\ x \in Contexts
        BY <1>1, <1>3, <1>10, <3>1, <3>4, CloneNames DEF Sound, Before
      <4> QED
        BY <1>3, <1>4, <1>10, <4>1
    <3> QED
      BY <3>2, <3>3, <3>4
  <2>3. CASE loop[l].pc \in InMirror \union InMount /\ loop'[l].at = loop[l].at
    <3>1. Whole(l, x) /\ x \in Contexts
      BY <1>1, <1>3, <1>10, <2>3, CloneNames DEF Sound, Before
    <3> QED
      BY <1>3, <1>4, <1>10, <3>1
  <2>4. ASSUME ~ (LeaveContext(l) \/ Backfill(l)), ~Mounting
        PROVE  loop[l].pc \in InMirror \union InMount /\ loop'[l].at = loop[l].at
    <3>1. loop'[l].at = loop[l].at
      BY <1>1, <2>4, StepAt
    <3>2. loop[l].pc \in InMirror \union InMount
      BY <1>1, <1>10, <2>4, StepEdges
         DEF Step, MirrorLook, MirrorClone, MirrorCloned, Workdir, MountWait, AddStart, At, InMirror, InMount
    <3> QED
      BY <3>1, <3>2
  <2> QED
    BY <2>1, <2>2, <2>3, <2>4
<1>11. ASSUME Clean(l)', loop'[l].pc = "mounted" \/ loop'[l].meta, NEW x \in Contexts
       PROVE  Whole(l, x)'
  <2>1. CASE loop[l].pc = "mounted" \/ loop[l].meta
    BY <1>1, <1>3, <1>4, <1>11, <2>1 DEF Sound
  <2>2. CASE ~ (loop[l].pc = "mounted" \/ loop[l].meta)
    <3>1. Mounting /\ loop'[l].pc = "mounted" /\ NextContext(l)
      BY <1>1, <1>11, <2>2, StepEdges
         DEF Step, Mounted, At, MountEmpty, AddSkip, AddLink, AddEnd
    <3>2. loop[l].at = "personal" /\ loop[l].pc \in InMount
      BY <1>1, <3>1, NextAt DEF MountEmpty, AddSkip, AddLink, AddEnd, At, InMount
    <3>3. x = loop[l].at \/ x \in Before(loop[l].at)
      BY <1>11, <3>2, CloneNames DEF Before
    <3>4. CASE x = loop[l].at
      BY <1>3, <1>11, <3>1, <3>4, ContextDone
    <3>5. CASE x \in Before(loop[l].at)
      BY <1>1, <1>3, <1>4, <1>11, <3>2, <3>5 DEF Sound
    <3> QED
      BY <3>3, <3>4, <3>5
  <2> QED
    BY <2>1, <2>2
<1> QED
  BY <1>1, <1>6, <1>7, <1>8, <1>9, <1>10, <1>11 DEF Sound
\* What is sound stays so, and a new loop is.
LEMMA NextWhole ==
    ASSUME SoundFacts, OneVault, ~DieInClone, [Next]_vars PROVE SoundFacts'
<1>1. TypeOK /\ ReadyStays /\ RepoFacts' /\ TreeInv'
  BY NextRepos, NextTree DEF SoundFacts, RepoFacts, NoCollisionInv, Orderly
<1>2. \A m \in Loops : Sound(m)
  BY DEF SoundFacts, WholeInv
<1>3. ASSUME NEW l \in Loops, Step(l), NEW m \in Loops PROVE Sound(m)'
  <2>1. CASE m = l
    BY <1>1, <1>3, <2>1, StepSound
  <2>2. CASE m # l
    <3>1. loop'[m] = loop[m] /\ \A x \in Contexts : wt'[m][x] = wt[m][x]
      BY <1>1, <1>3, <2>2, StepProceeds, StepTree DEF Proceeds
    <3> QED
      BY <1>1, <1>2, <3>1, SoundStays
  <2> QED
    BY <2>1, <2>2
<1>4. ASSUME NEW l \in Loops, NEW u \in Users, NEW v \in Vaults, Create(l, u, v), NEW m \in Loops
      PROVE  Sound(m)'
  <2>1. wt' = wt /\ \A k \in Loops : k # l => loop'[k] = loop[k]
    BY <1>1, <1>4, CreateTyped DEF Create
  <2>2. CASE m = l
    <3>1. /\ loop'[l].pc = "know" /\ ~loop'[l].meta /\ loop'[l].user = loop'[l].driver
      BY <1>1, <1>4 DEF Create, Idle, TypeOK
    <3> QED
      BY <2>2, <3>1 DEF Sound, InMirror, InMount, PastContext
  <2>3. CASE m # l
    BY <1>1, <1>2, <2>1, <2>3, SoundStays
  <2> QED
    BY <2>2, <2>3
<1>5. ASSUME NEW l \in Loops, NEW u \in Users, Drive(l, u), NEW m \in Loops
      PROVE  Sound(m)'
  <2>1. wt' = wt /\ \A k \in Loops : k # l => loop'[k] = loop[k]
    BY <1>1, <1>5, DriveTyped DEF Drive
  <2>2. CASE m = l
    <3>1. loop'[l].pc = "mount" /\ loop'[l].moved
      BY <1>1, <1>5 DEF Drive, TypeOK, LoopType
    <3> QED
      BY <2>2, <3>1 DEF Sound, Clean, InContext
  <2>3. CASE m # l
    BY <1>1, <1>2, <2>1, <2>3, SoundStays
  <2> QED
    BY <2>2, <2>3
<1>6. ASSUME Restart, NEW m \in Loops PROVE Sound(m)'
  <2>1. main' = main /\ wt' = wt
    BY <1>6 DEF Restart
  <2>2. /\ loop'[m].meta = loop[m].meta /\ loop'[m].warned = loop[m].warned
        /\ loop'[m].moved = loop[m].moved /\ loop'[m].driver = loop[m].driver
        /\ IF loop[m].meta THEN loop'[m].pc = "boot" /\ loop'[m].user = loop[m].driver
           ELSE loop'[m].user = loop[m].user /\ loop'[m].pc \in {"idle", "done"}
    BY <1>1, <1>6 DEF Restart, At, TypeOK, LoopType
  <2>3. \A x \in Contexts : Whole(m, x)' <=> Whole(m, x)
    BY <2>1, <2>2 DEF Whole
  <2>4. \A x : ~loop[m].moved /\ loop[m].meta => Repo(m, x)' = Repo(m, x)
    BY <1>2, <2>1, <2>2 DEF Repo, Sound
  <2> QED
    BY <1>2, <2>2, <2>3, <2>4 DEF Sound, Clean, InContext, InMirror, InMount, PastContext
<1>7. ASSUME UNCHANGED vars, NEW m \in Loops PROVE Sound(m)'
  BY <1>1, <1>2, <1>7, SoundStays DEF vars
<1> QED
  BY <1>1, <1>3, <1>4, <1>5, <1>6, <1>7 DEF Next, SoundFacts, WholeInv

LEMMA SoundInit == Init => SoundFacts
<1> SUFFICES ASSUME Init PROVE SoundFacts
  OBVIOUS
<1>1. NoCollisionInv
  BY OrderlyInit DEF NoCollisionInv, CloneInv, NoCollision, Init, At, Idle
<1>2. RepoInv
  BY CloneNames DEF RepoInv, UserRepos, CallRepos, Init, At, Idle, Missing
<1>3. TreeInv
  BY DEF TreeInv, Init, NoTree
<1>4. WholeInv
  BY DEF WholeInv, Sound, Init, Idle, InMirror, InMount, PastContext
<1> QED
  BY <1>1, <1>2, <1>3, <1>4 DEF SoundFacts, RepoFacts

\* Every listed loop that was created without a warning, never changed hands and
\* is not being worked on has all its contexts, whatever the creations, failures
\* and restarts: for users with one vault, and a server that is not killed while
\* git clone runs (a clone cut short is taken for a repository from then on).
THEOREM ListedLoopsStayWhole == OneVault /\ ~DieInClone => (Spec => []ListedLoopsAreWhole)
<1> SUFFICES ASSUME OneVault, ~DieInClone PROVE Spec => []ListedLoopsAreWhole
  OBVIOUS
<1>1. Init => SoundFacts
  BY SoundInit
<1>2. SoundFacts /\ [Next]_vars => SoundFacts'
  BY NextWhole
<1>3. SoundFacts => ListedLoopsAreWhole
  BY DEF SoundFacts, WholeInv, Sound, Clean, ListedLoopsAreWhole
<1> QED
  BY <1>1, <1>2, <1>3, PTL DEF Spec
=============================================================================
