--------------------------- MODULE LoopMeta_proofs ---------------------------
(***************************************************************************)
(* Theorems about LoopMeta, for any number of calls and users.             *)
(***************************************************************************)
EXTENDS LoopMeta, TLAPS

\* A patch names the fields that its route sets, and nothing else.
LEMMA PatchDomains ==
    ASSUME NEW p \in Patches
    PROVE  \/ DOMAIN p = {"archived"} /\ p.archived \in BOOLEAN
           \/ DOMAIN p = {"title", "titleAuto"} /\ p.title = "user" /\ p.titleAuto = "no"
           \/ DOMAIN p = {"title", "titleAuto"} /\ p.title = "auto" /\ p.titleAuto = "yes"
           \/ DOMAIN p = {"rfd"} /\ p.rfd \in Users
           \/ /\ DOMAIN p = {"driver", "driverHistory", "rfd", "note"}
              /\ p.driver \in Users /\ p.driverHistory \in Seq(Users)
              /\ p.rfd = None /\ p.note \in Note
           \/ DOMAIN p = {"driver"} /\ p.driver \in Users
           \/ DOMAIN p = {"note"} /\ p.note = None
           \/ DOMAIN p = {"config"} /\ p.config \in SUBSET ConfigKeys
<1>1. CASE p \in [archived : BOOLEAN]
  BY <1>1
<1>2. CASE p \in [title : {"user"}, titleAuto : {"no"}]
  BY <1>2
<1>3. CASE p \in [title : {"auto"}, titleAuto : {"yes"}]
  BY <1>3
<1>4. CASE p \in [rfd : Users]
  BY <1>4
<1>5. CASE p \in [driver : Users, driverHistory : Seq(Users), rfd : {None}, note : Note]
  BY <1>5
<1>6. CASE p \in [driver : Users]
  BY <1>6
<1>7. CASE p \in [note : {None}]
  BY <1>7
<1>8. CASE p \in [config : SUBSET ConfigKeys]
  BY <1>8
<1> QED
  BY <1>1, <1>2, <1>3, <1>4, <1>5, <1>6, <1>7, <1>8 DEF Patches

\* Patching metadata gives metadata.
LEMMA MergeType ==
    ASSUME NEW m \in Meta, NEW p \in Patches
    PROVE  Merge(m, p) \in Meta
<1> DEFINE v(f) == Patched(m, p, f)
<1>1. /\ v("archived") \in BOOLEAN
      /\ v("title") \in {"untitled", "user", "auto"}
      /\ v("titleAuto") \in {"unset", "yes", "no"}
  BY PatchDomains DEF Patched, Meta
<1>2. v("driver") \in Users /\ v("driverHistory") \in Seq(Users)
  BY PatchDomains DEF Patched, Meta
<1>3. v("rfd") \in Users \cup {None} /\ v("note") \in Note \cup {None}
  BY PatchDomains DEF Patched, Meta
<1>4. v("config") \in SUBSET ConfigKeys
  BY PatchDomains DEF Patched, Meta
<1> HIDE DEF v
<1> QED
  BY <1>1, <1>2, <1>3, <1>4 DEF Merge, Meta, v

-----------------------------------------------------------------------------
\* A call that submits a well-formed patch leaves everything well typed.
LEMMA SubmitType ==
    ASSUME TypeOK, NEW c \in Calls, NEW p \in Patches, Submit(c, p), delivered' \in [Calls -> Nat]
    PROVE  TypeOK'
<1>1. pc' \in [Calls -> PCs]
  BY DEF TypeOK, Submit, Goto, PCs
<1>2. patch' \in [Calls -> Patches \cup {None}]
  BY DEF TypeOK, Submit
<1>3. overlapped' \in BOOLEAN
  BY DEF Submit, TypeOK
<1> QED
  BY <1>1, <1>2, <1>3 DEF TypeOK, Submit

\* A call that moves on without touching the file leaves everything well typed.
LEMMA MoveType ==
    ASSUME TypeOK, NEW c \in Calls, NEW s \in PCs, Goto(c, s),
           UNCHANGED <<file, patch, merged, history>>
    PROVE  TypeOK'
BY DEF TypeOK, Goto, PCs, history

(* Between its first read and its fill a call has a patch, and once it has *)
(* merged it the metadata to write.                                        *)
Ready ==
    \A c \in Calls :
        /\ Patching(c) => patch[c] \in Patches
        /\ pc[c] \in {"write", "fill"} => merged[c] \in Meta

\* Every step keeps the types: every route's patch is one of Patches.
LEMMA TypeStep == TypeOK /\ Ready /\ [Next]_vars => TypeOK'
<1> SUFFICES ASSUME TypeOK, Ready, [Next]_vars PROVE TypeOK'
  OBVIOUS
<1> USE MetaAssumption
<1>1. CASE UNCHANGED vars
  BY <1>1 DEF TypeOK, vars, history
<1>2. ASSUME NEW c \in Calls, NEW value \in BOOLEAN, SetArchived(c, value) PROVE TypeOK'
  <2>1. [archived |-> value] \in Patches
    BY DEF Patches
  <2> QED
    BY <1>2, <2>1, SubmitType DEF SetArchived, TypeOK
<1>3. ASSUME NEW c \in Calls, NEW u \in Users, RequestDrive(c, u) PROVE TypeOK'
  <2>1. [rfd |-> u] \in Patches
    BY DEF Patches
  <2> QED
    BY <1>3, <2>1, SubmitType DEF RequestDrive, TypeOK
<1>4. ASSUME NEW c \in Calls, NEW u \in Users, Drive(c, u) PROVE TypeOK'
  <2>1. file \in Meta
    BY <1>4 DEF Drive, TypeOK
  <2>2. file.driver \in Users /\ file.driverHistory \in Seq(Users)
    BY <2>1 DEF Meta
  <2>3. Append(file.driverHistory, u) \in Seq(Users)
    BY <2>2
  <2>4. [from |-> file.driver, to |-> u, at |-> c] \in Note
    BY <2>2 DEF Note
  <2>5. Takeover(c, u) \in
            [driver : Users, driverHistory : Seq(Users), rfd : {None}, note : Note]
    BY <2>2, <2>3, <2>4 DEF Takeover
  <2>6. Takeover(c, u) \in Patches
    BY <2>5 DEF Patches
  <2> QED
    BY <1>4, <2>6, SubmitType DEF Drive, TypeOK
<1>5. ASSUME NEW c \in Calls, NEW u \in Users, AssignDriver(c, u) PROVE TypeOK'
  <2>1. [driver |-> u] \in Patches
    BY DEF Patches
  <2> QED
    BY <1>5, <2>1, SubmitType DEF AssignDriver, TypeOK
<1>6. ASSUME NEW c \in Calls, Rename(c) PROVE TypeOK'
  <2>1. [title |-> "user", titleAuto |-> "no"] \in Patches
    BY DEF Patches
  <2> QED
    BY <1>6, <2>1, SubmitType DEF Rename, TypeOK
<1>7. ASSUME NEW c \in Calls, SelectProvider(c) PROVE TypeOK'
  <2>1. [config |-> {"provider"}] \in Patches
    BY DEF Patches, ConfigKeys
  <2> QED
    BY <1>7, <2>1, SubmitType DEF SelectProvider, TypeOK
<1>8. ASSUME NEW c \in Calls, SetGoal(c) PROVE TypeOK'
  <2>1. (IF file = None THEN {} ELSE file.config) \subseteq ConfigKeys
    BY DEF TypeOK, Meta
  <2>2. [config |-> (IF file = None THEN {} ELSE file.config) \cup {"goal"}] \in Patches
    BY <2>1 DEF Patches, ConfigKeys
  <2> QED
    BY <1>8, <2>2, SubmitType DEF SetGoal, TypeOK
<1>9. ASSUME NEW c \in Calls, SetPermissionMode(c) PROVE TypeOK'
  <2>1. [config |-> {"mode"}] \in Patches
    BY DEF Patches, ConfigKeys
  <2> QED
    BY <1>9, <2>1, SubmitType DEF SetPermissionMode, TypeOK
<1>10. ASSUME NEW c \in Calls, Send(c) PROVE TypeOK'
  BY <1>10, MoveType DEF Send, PCs
<1>11. ASSUME NEW c \in Calls, PushMessage(c) PROVE TypeOK'
  <2>1. [note |-> None] \in Patches
    BY DEF Patches
  <2>2. CASE NoteFound # None
    <3>1. NoteFound \in Note
      BY <2>2 DEF NoteFound, TypeOK, Meta
    <3>2. NoteFound.at \in Calls
      BY <3>1 DEF Note
    <3>3. delivered' = [delivered EXCEPT ![NoteFound.at] = @ + 1] /\ Submit(c, [note |-> None])
      BY <1>11, <2>2 DEF PushMessage
    <3>4. delivered' \in [Calls -> Nat]
      BY <3>2, <3>3 DEF TypeOK
    <3> QED
      BY <3>3, <3>4, <2>1, SubmitType
  <2>3. CASE NoteFound = None
    BY <1>11, <2>3, MoveType DEF PushMessage, PCs
  <2> QED
    BY <2>2, <2>3
<1>12. ASSUME NEW c \in Calls, BeginNaming(c) PROVE TypeOK'
  BY <1>12, MoveType DEF BeginNaming, PCs
<1>13. ASSUME NEW c \in Calls, EndNaming(c) PROVE TypeOK'
  <2>1. [title |-> "auto", titleAuto |-> "yes"] \in Patches
    BY DEF Patches
  <2>2. CASE Submit(c, [title |-> "auto", titleAuto |-> "yes"]) /\ UNCHANGED delivered
    BY <2>1, <2>2, SubmitType DEF TypeOK
  <2>3. CASE Goto(c, "done") /\ UNCHANGED <<file, patch, merged, history>>
    BY <2>3, MoveType DEF PCs
  <2> QED
    BY <1>13, <2>2, <2>3 DEF EndNaming
<1>14. ASSUME NEW c \in Calls, Read(c) PROVE TypeOK'
  <2>1. CASE file = None
    BY <1>14, <2>1, MoveType DEF Read, PCs
  <2>2. CASE file # None
    <3>1. Merge(file, patch[c]) \in Meta
      BY <1>14, <2>2, MergeType DEF Read, Ready, Patching, TypeOK
    <3>2. merged' \in [Calls -> Meta \cup {None}]
      BY <1>14, <2>2, <3>1 DEF Read, TypeOK
    <3>3. pc' \in [Calls -> PCs]
      BY <1>14, <2>2 DEF Read, TypeOK, Goto, PCs
    <3> QED
      BY <1>14, <3>2, <3>3 DEF Read, TypeOK, history
  <2> QED
    BY <2>1, <2>2
<1>15. ASSUME NEW c \in Calls, Truncate(c) PROVE TypeOK'
  BY <1>15 DEF Truncate, TypeOK, Goto, PCs, history
<1>16. ASSUME NEW c \in Calls, Fill(c) PROVE TypeOK'
  <2>1. merged[c] \in Meta /\ patch[c] \in Patches
    BY <1>16 DEF Fill, Ready, Patching
  <2>2. intended' \in Meta
    BY <1>16, <2>1, MergeType DEF Fill, TypeOK
  <2>3. requests' \in Nat /\ handoffs' \in Nat
    BY <1>16 DEF Fill, TypeOK
  <2>4. renamed' \in BOOLEAN
    BY <1>16 DEF Fill, TypeOK, Renames
  <2>5. pc' \in [Calls -> PCs]
    BY <1>16 DEF Fill, TypeOK, Goto, PCs
  <2> QED
    BY <1>16, <2>1, <2>2, <2>3, <2>4, <2>5 DEF Fill, TypeOK
<1> QED
  BY <1>1, <1>2, <1>3, <1>4, <1>5, <1>6, <1>7, <1>8, <1>9, <1>10, <1>11, <1>12, <1>13, <1>14,
     <1>15, <1>16 DEF Next, Steps

-----------------------------------------------------------------------------
(* The kinds of steps                                                      *)

AutoNames(p) == "titleAuto" \in DOMAIN p /\ p.titleAuto = "yes"

(* A patch that hands the loop over names its new driver twice.            *)
PatchTogether(p) == Hands(p) => Last(p.driverHistory) = p.note.to

(* The calls that patch nothing: the message is queued, the model asked,   *)
(* there is no note, no name.                                              *)
Move(c) ==
    /\ pc[c] \in {"new", "queued", "naming"}
    /\ \E s \in {"queued", "naming", "done"} : Goto(c, s)
    /\ UNCHANGED <<file, patch, merged, history>>

(* A route that submits the patch p, and what it has read when it does.    *)
Route(c, p) ==
    /\ pc[c] \in {"new", "queued", "naming"}
    /\ Submit(c, p)
    /\ Hands(p) => /\ Last(p.driverHistory) = p.note.to /\ p.note.at = c
                   /\ file # None /\ file.rfd # None
    /\ AutoNames(p) => file # None /\ file.title = "untitled"
    /\ \/ UNCHANGED delivered
       \/ /\ p = [note |-> None]
          /\ NoteFound # None
          /\ delivered' = [delivered EXCEPT ![NoteFound.at] = @ + 1]

\* Every step is one of these: a route that submits its patch or none, or one of
\* the three steps of patchLoopMeta.
LEMMA StepCases ==
    ASSUME TypeOK, Next
    PROVE  \E c \in Calls : \/ Move(c) \/ Read(c) \/ Truncate(c) \/ Fill(c)
                            \/ \E p \in Patches : Route(c, p)
<1> USE MetaAssumption
<1>1. PICK c \in Calls : Steps(c)
  BY DEF Next
<1>2. ASSUME NEW p \in Patches, Submit(c, p), UNCHANGED delivered, ~Hands(p), ~AutoNames(p),
             pc[c] \in {"new", "queued", "naming"}
      PROVE  Route(c, p)
  BY <1>2 DEF Route
<1>3. ASSUME NEW value \in BOOLEAN, SetArchived(c, value) PROVE \E p \in Patches : Route(c, p)
  <2> DEFINE p == [archived |-> value]
  <2>1. p \in Patches /\ ~Hands(p) /\ ~AutoNames(p)
    BY DEF Patches, Hands, AutoNames
  <2>2. Submit(c, p) /\ UNCHANGED delivered /\ pc[c] = "new"
    BY <1>3 DEF SetArchived
  <2> HIDE DEF p
  <2> QED
    BY <1>2, <2>1, <2>2
<1>4. ASSUME NEW u \in Users, RequestDrive(c, u) PROVE \E p \in Patches : Route(c, p)
  <2> DEFINE p == [rfd |-> u]
  <2>1. p \in Patches /\ ~Hands(p) /\ ~AutoNames(p)
    BY DEF Patches, Hands, AutoNames
  <2>2. Submit(c, p) /\ UNCHANGED delivered /\ pc[c] = "new"
    BY <1>4 DEF RequestDrive
  <2> HIDE DEF p
  <2> QED
    BY <1>2, <2>1, <2>2
<1>5. ASSUME NEW u \in Users, Drive(c, u) PROVE \E p \in Patches : Route(c, p)
  <2> DEFINE p == Takeover(c, u)
  <2>1. file \in Meta /\ file # None /\ file.rfd # None
    BY <1>5 DEF Drive, TypeOK
  <2>2. file.driver \in Users /\ file.driverHistory \in Seq(Users)
    BY <2>1 DEF Meta
  <2>3. Append(file.driverHistory, u) \in Seq(Users)
    BY <2>2
  <2>4. p.note \in Note /\ p.note.to = u /\ p.note.at = c
    BY <2>2 DEF Note, Takeover
  <2>5. p \in Patches
    BY <2>2, <2>3, <2>4 DEF Patches, Takeover
  <2>6. Last(p.driverHistory) = u
    BY <2>2 DEF Takeover, Last
  <2>7. ~AutoNames(p)
    BY DEF AutoNames, Takeover
  <2>8. Submit(c, p) /\ UNCHANGED delivered /\ pc[c] = "new"
    BY <1>5 DEF Drive
  <2> HIDE DEF p
  <2>9. Route(c, p)
    BY <2>1, <2>4, <2>6, <2>7, <2>8 DEF Route
  <2> QED
    BY <2>5, <2>9
<1>6. ASSUME NEW u \in Users, AssignDriver(c, u) PROVE \E p \in Patches : Route(c, p)
  <2> DEFINE p == [driver |-> u]
  <2>1. p \in Patches /\ ~Hands(p) /\ ~AutoNames(p)
    BY DEF Patches, Hands, AutoNames
  <2>2. Submit(c, p) /\ UNCHANGED delivered /\ pc[c] = "new"
    BY <1>6 DEF AssignDriver
  <2> HIDE DEF p
  <2> QED
    BY <1>2, <2>1, <2>2
<1>7. ASSUME Rename(c) PROVE \E p \in Patches : Route(c, p)
  <2> DEFINE p == [title |-> "user", titleAuto |-> "no"]
  <2>1. p \in Patches /\ ~Hands(p) /\ ~AutoNames(p)
    BY DEF Patches, Hands, AutoNames
  <2>2. Submit(c, p) /\ UNCHANGED delivered /\ pc[c] = "new"
    BY <1>7 DEF Rename
  <2> HIDE DEF p
  <2> QED
    BY <1>2, <2>1, <2>2
<1>8. ASSUME NEW keys \in SUBSET ConfigKeys, pc[c] = "new",
             Submit(c, [config |-> keys]), UNCHANGED delivered
      PROVE  \E p \in Patches : Route(c, p)
  <2> DEFINE p == [config |-> keys]
  <2>1. p \in Patches /\ ~Hands(p) /\ ~AutoNames(p)
    BY DEF Patches, Hands, AutoNames
  <2>2. Submit(c, p) /\ UNCHANGED delivered /\ pc[c] = "new"
    BY <1>8
  <2> HIDE DEF p
  <2> QED
    BY <1>2, <2>1, <2>2
<1>9. CASE SelectProvider(c)
  BY <1>8, <1>9 DEF SelectProvider, ConfigKeys
<1>10. CASE SetPermissionMode(c)
  BY <1>8, <1>10 DEF SetPermissionMode, ConfigKeys
<1>11. CASE SetGoal(c)
  <2>1. (IF file = None THEN {} ELSE file.config) \cup {"goal"} \in SUBSET ConfigKeys
    BY DEF TypeOK, Meta, ConfigKeys
  <2> QED
    BY <1>8, <1>11, <2>1 DEF SetGoal
<1>12. CASE Send(c)
  BY <1>12 DEF Send, Move
<1>13. CASE PushMessage(c)
  <2> DEFINE p == [note |-> None]
  <2>1. p \in Patches /\ ~Hands(p) /\ ~AutoNames(p)
    BY DEF Patches, Hands, AutoNames
  <2>2. CASE NoteFound # None
    BY <1>13, <2>1, <2>2 DEF PushMessage, Route
  <2>3. CASE NoteFound = None
    BY <1>13, <2>3 DEF PushMessage, Move
  <2> QED
    BY <2>2, <2>3
<1>14. CASE BeginNaming(c)
  BY <1>14 DEF BeginNaming, Move
<1>15. CASE EndNaming(c)
  <2> DEFINE p == [title |-> "auto", titleAuto |-> "yes"]
  <2>1. p \in Patches /\ ~Hands(p)
    BY DEF Patches, Hands
  <2>2. CASE MayName /\ Submit(c, p) /\ UNCHANGED delivered
    BY <1>15, <2>1, <2>2 DEF EndNaming, Route, MayName
  <2>3. CASE Goto(c, "done") /\ UNCHANGED <<file, patch, merged, history>>
    BY <1>15, <2>3 DEF EndNaming, Move
  <2> QED
    BY <1>15, <2>2, <2>3 DEF EndNaming
<1> QED
  BY <1>1, <1>3, <1>4, <1>5, <1>6, <1>7, <1>9, <1>10, <1>11, <1>12, <1>13, <1>14, <1>15
     DEF Steps

-----------------------------------------------------------------------------
(* What holds however the calls overlap                                    *)

AllTogether ==
    /\ PairsTogether
    /\ \A c \in Calls :
          /\ Patching(c) => PatchTogether(patch[c])
          /\ pc[c] \in {"write", "fill"} => Together(merged[c])

CoreInv == TypeOK /\ Ready /\ AllTogether

\* A patch keeps together what it sets together.
LEMMA MergeTogether ==
    ASSUME NEW m \in Meta, NEW p \in Patches, Together(m), PatchTogether(p)
    PROVE  Together(Merge(m, p))
<1> DEFINE r == Merge(m, p)
<1>1. r.note # None => Last(r.driverHistory) = r.note.to
  BY PatchDomains, MetaAssumption DEF Merge, Patched, Together, PatchTogether, Hands
<1>2. r.titleAuto = "no" => r.title = "user"
  BY PatchDomains DEF Merge, Patched, Together
<1>3. r.titleAuto = "yes" => r.title = "auto"
  BY PatchDomains DEF Merge, Patched, Together
<1> QED
  BY <1>1, <1>2, <1>3 DEF Together

\* Every step keeps the patches and what is about to be written well formed.
LEMMA ReadyStep == TypeOK /\ Ready /\ [Next]_vars => Ready'
<1> SUFFICES ASSUME TypeOK, Ready, [Next]_vars, NEW d \in Calls
             PROVE  /\ Patching(d)' => patch'[d] \in Patches
                    /\ pc'[d] \in {"write", "fill"} => merged'[d] \in Meta
  BY DEF Ready
<1>1. CASE UNCHANGED vars
  BY <1>1 DEF vars, Ready, Patching
<1>2. ASSUME NEW c \in Calls, Move(c)
      PROVE  Ready'
  BY <1>2 DEF Move, Goto, Ready, Patching, TypeOK
<1>3. ASSUME NEW c \in Calls, NEW p \in Patches, Route(c, p)
      PROVE  Ready'
  BY <1>3 DEF Route, Submit, Goto, Ready, Patching, TypeOK
<1>4. ASSUME NEW c \in Calls, Read(c)
      PROVE  Ready'
  <2>1. file # None => Merge(file, patch[c]) \in Meta
    BY <1>4, MergeType DEF Read, Ready, Patching, TypeOK
  <2> QED
    BY <1>4, <2>1 DEF Read, Goto, Ready, Patching, TypeOK
<1>5. ASSUME NEW c \in Calls, Truncate(c)
      PROVE  Ready'
  BY <1>5 DEF Truncate, Goto, Ready, Patching, TypeOK
<1>6. ASSUME NEW c \in Calls, Fill(c)
      PROVE  Ready'
  BY <1>6 DEF Fill, Goto, Ready, Patching, TypeOK
<1> QED
  BY <1>1, <1>2, <1>3, <1>4, <1>5, <1>6, StepCases DEF Ready

\* Every step keeps together what was patched together.
LEMMA TogetherStep == CoreInv /\ [Next]_vars => AllTogether'
<1> SUFFICES ASSUME CoreInv, [Next]_vars PROVE AllTogether'
  OBVIOUS
<1> USE DEF CoreInv
<1>1. CASE UNCHANGED vars
  BY <1>1 DEF vars, AllTogether, PairsTogether, Patching
<1>2. ASSUME NEW c \in Calls, Move(c) PROVE AllTogether'
  BY <1>2 DEF Move, Goto, AllTogether, PairsTogether, Patching, TypeOK
<1>3. ASSUME NEW c \in Calls, NEW p \in Patches, Route(c, p) PROVE AllTogether'
  <2>1. PatchTogether(p)
    BY <1>3 DEF Route, PatchTogether
  <2>2. PairsTogether'
    BY <1>3 DEF Route, Submit, AllTogether, PairsTogether
  <2>3. ASSUME NEW d \in Calls
        PROVE  /\ Patching(d)' => PatchTogether(patch'[d])
               /\ pc'[d] \in {"write", "fill"} => Together(merged'[d])
    <3>1. /\ d # c => pc'[d] = pc[d] /\ patch'[d] = patch[d]
          /\ d = c => pc'[d] = "read" /\ patch'[d] = p
          /\ merged'[d] = merged[d]
      BY <1>3 DEF Route, Submit, Goto, TypeOK
    <3> QED
      BY <2>1, <3>1 DEF AllTogether, Patching
  <2> QED
    BY <2>2, <2>3 DEF AllTogether
<1>4. ASSUME NEW c \in Calls, Read(c) PROVE AllTogether'
  <2>1. file # None => Together(Merge(file, patch[c]))
    BY <1>4, MergeTogether DEF Read, AllTogether, PairsTogether, Ready, Patching, TypeOK
  <2>2. PairsTogether'
    BY <1>4 DEF Read, AllTogether, PairsTogether
  <2>3. ASSUME NEW d \in Calls
        PROVE  /\ Patching(d)' => PatchTogether(patch'[d])
               /\ pc'[d] \in {"write", "fill"} => Together(merged'[d])
    <3>1. d # c => pc'[d] = pc[d] /\ merged'[d] = merged[d]
      BY <1>4 DEF Read, Goto, TypeOK
    <3>2. patch' = patch
      BY <1>4 DEF Read
    <3>3. d = c => \/ pc'[d] = "done"
                   \/ file # None /\ merged'[d] = Merge(file, patch[c])
      BY <1>4 DEF Read, Goto, TypeOK
    <3>4. Patching(c)
      BY <1>4 DEF Read, Patching
    <3> QED
      BY <2>1, <3>1, <3>2, <3>3, <3>4 DEF AllTogether, Patching
  <2> QED
    BY <2>2, <2>3 DEF AllTogether
<1>5. ASSUME NEW c \in Calls, Truncate(c) PROVE AllTogether'
  <2>1. ASSUME NEW d \in Calls
        PROVE  /\ Patching(d)' => PatchTogether(patch'[d])
               /\ pc'[d] \in {"write", "fill"} => Together(merged'[d])
    BY <1>5 DEF Truncate, Goto, AllTogether, Patching, TypeOK
  <2> QED
    BY <1>5, <2>1 DEF Truncate, AllTogether, PairsTogether
<1>6. ASSUME NEW c \in Calls, Fill(c) PROVE AllTogether'
  <2>1. Together(merged[c])
    BY <1>6 DEF Fill, AllTogether
  <2>2. ASSUME NEW d \in Calls
        PROVE  /\ Patching(d)' => PatchTogether(patch'[d])
               /\ pc'[d] \in {"write", "fill"} => Together(merged'[d])
    BY <1>6 DEF Fill, Goto, AllTogether, Patching, TypeOK
  <2> QED
    BY <1>6, <2>1, <2>2 DEF Fill, AllTogether, PairsTogether
<1> QED
  BY <1>1, <1>2, <1>3, <1>4, <1>5, <1>6, StepCases

\* The types, the patches and the pairs hold in every state.
LEMMA Core == Spec => []CoreInv
<1>1. Init => CoreInv
  <2> SUFFICES ASSUME Init PROVE CoreInv
    OBVIOUS
  <2> USE MetaAssumption
  <2>0. <<Creator>> \in Seq(Users)
    OBVIOUS
  <2>1. file \in Meta
    BY <2>0 DEF Init, Meta, ConfigKeys
  <2>2. requests \in Nat
    BY DEF Init
  <2>3. TypeOK
    BY <2>1, <2>2 DEF Init, TypeOK, PCs
  <2>4. Ready /\ \A c \in Calls : ~Patching(c) /\ pc[c] = "new"
    BY DEF Init, Ready, Patching
  <2>5. PairsTogether
    BY DEF Init, PairsTogether, Together
  <2> QED
    BY <2>3, <2>4, <2>5 DEF CoreInv, AllTogether
<1>2. CoreInv /\ [Next]_vars => CoreInv'
  BY TypeStep, ReadyStep, TogetherStep DEF CoreInv
<1> QED
  BY <1>1, <1>2, PTL DEF Spec

\* Every state is well typed.
THEOREM TypeCorrect == Spec => []TypeOK
<1>1. CoreInv => TypeOK
  BY DEF CoreInv
<1> QED
  BY <1>1, Core, PTL

\* What one patch sets together stays together, for any number of calls and however
\* they overlap.
THEOREM PatchesStayTogether == Spec => []PairsTogether
<1>1. CoreInv => PairsTogether
  BY DEF CoreInv, AllTogether
<1> QED
  BY <1>1, Core, PTL

-----------------------------------------------------------------------------
(* What holds as long as no call reads the file while another patches it   *)

(* One call at a time patches, and it works on the current file.           *)
Exclusive == \A c, d \in Calls : Patching(c) /\ Patching(d) => c = d

Current ==
    /\ file # None => file = intended
    /\ file = None => \E c \in Calls : pc[c] = "fill"
    /\ \A c \in Calls : pc[c] \in {"write", "fill"} => merged[c] = Merge(intended, patch[c])

(* A loop that is up for drive has been requested once more than taken.    *)
Turns ==
    /\ handoffs <= requests
    /\ intended.rfd # None => handoffs < requests
    /\ \A c \in Calls : Patching(c) /\ Hands(patch[c]) => intended.rfd # None

Titles ==
    /\ renamed => intended.title = "user"
    /\ \A c \in Calls : Patching(c) /\ AutoNames(patch[c]) => ~renamed

(* A note that is in the file has been told to nobody, unless the call     *)
(* that told it is about to clear it.                                      *)
Notes ==
    /\ \A c \in Calls : delivered[c] <= 1 /\ (delivered[c] # 0 => pc[c] = "done")
    /\ \A c \in Calls : Patching(c) /\ Hands(patch[c]) => patch[c].note.at = c
    /\ intended.note # None =>
          /\ pc[intended.note.at] = "done"
          /\ \/ delivered[intended.note.at] = 0
             \/ \E d \in Calls : Patching(d) /\ patch[d] = [note |-> None]

Serial == Exclusive /\ Current /\ Turns /\ Titles /\ Notes

\* While nobody patches, a route that reads the file and submits a patch has read
\* the current one.
LEMMA SerialRoute ==
    ASSUME CoreInv, ~overlapped => Serial, NEW c \in Calls, NEW p \in Patches, Route(c, p),
           ~overlapped'
    PROVE  Serial'
<1> USE DEF CoreInv
<1>1. ~overlapped /\ \A d \in Calls \ {c} : ~Patching(d)
  BY DEF Route, Submit
<1>2. Serial /\ ~Patching(c)
  BY <1>1 DEF Route, Patching
<1>3. /\ \A d \in Calls : Patching(d)' => d = c
      /\ patch'[c] = p /\ pc'[c] = "read"
      /\ \A d \in Calls : d # c => pc'[d] = pc[d]
  BY <1>1 DEF Route, Submit, Goto, Patching, TypeOK
<1>4. UNCHANGED <<file, merged, requests, handoffs, renamed, intended>>
  BY DEF Route, Submit
<1>5. Exclusive'
  BY <1>3 DEF Exclusive
<1>6. Current'
  BY <1>2, <1>3, <1>4 DEF Serial, Current, Patching
<1>7. Hands(p) => intended.rfd # None
  BY <1>2 DEF Route, Serial, Current
<1>8. Turns'
  BY <1>2, <1>3, <1>4, <1>7 DEF Serial, Turns
<1>9. AutoNames(p) => ~renamed
  BY <1>2 DEF Route, Serial, Current, Titles
<1>10. Titles'
  BY <1>2, <1>3, <1>4, <1>9 DEF Serial, Titles
<1>11. Notes'
  <2>1. \A d \in Calls : Patching(d)' /\ Hands(patch'[d]) => patch'[d].note.at = d
    BY <1>3 DEF Route
  <2>2. CASE UNCHANGED delivered
    <3>1. \A d \in Calls : delivered[d] # 0 => pc'[d] = "done"
      <4>1. delivered[c] = 0
        BY <1>2 DEF Route, Serial, Notes
      <4> QED
        BY <4>1, <1>2, <1>3 DEF Serial, Notes
    <3>2. intended.note # None => /\ pc'[intended.note.at] = "done"
                                  /\ delivered[intended.note.at] = 0
      <4> SUFFICES ASSUME intended.note # None
                   PROVE  pc'[intended.note.at] = "done" /\ delivered[intended.note.at] = 0
        OBVIOUS
      <4>1. intended.note.at \in Calls
        BY DEF TypeOK, Meta, Note
      <4>2. pc[intended.note.at] = "done" /\ delivered[intended.note.at] = 0
        BY <1>1, <1>2 DEF Serial, Notes
      <4>3. intended.note.at # c
        BY <4>2 DEF Route
      <4> QED
        BY <1>3, <4>1, <4>2, <4>3
    <3> QED
      BY <1>2, <1>4, <2>1, <2>2, <3>1, <3>2 DEF Serial, Notes
  <2>3. CASE /\ p = [note |-> None]
             /\ NoteFound # None
             /\ delivered' = [delivered EXCEPT ![NoteFound.at] = @ + 1]
    <3>1. intended.note = NoteFound
      BY <1>2, <2>3 DEF NoteFound, Serial, Current
    <3> DEFINE a == intended.note.at
    <3>2. a \in Calls
      BY <2>3, <3>1 DEF TypeOK, Meta, Note
    <3>3. pc[a] = "done" /\ delivered[a] = 0
      BY <1>1, <1>2, <2>3, <3>1 DEF Serial, Notes
    <3>4. a # c
      BY <3>3 DEF Route
    <3>5. delivered'[a] = 1 /\ \A d \in Calls : d # a => delivered'[d] = delivered[d]
      BY <2>3, <3>1, <3>2, <3>3 DEF TypeOK
    <3>6. delivered[c] = 0
      BY <1>2 DEF Route, Serial, Notes
    <3>7. pc'[a] = "done"
      BY <1>3, <3>2, <3>3, <3>4
    <3>8. \A d \in Calls : delivered'[d] <= 1 /\ (delivered'[d] # 0 => pc'[d] = "done")
      BY <1>2, <1>3, <3>5, <3>6, <3>7 DEF Serial, Notes
    <3>9. Patching(c)' /\ patch'[c] = [note |-> None]
      BY <1>3, <2>3 DEF Patching
    <3> QED
      BY <1>4, <2>1, <3>7, <3>8, <3>9 DEF Notes
  <2> QED
    BY <2>2, <2>3 DEF Route
<1> QED
  BY <1>5, <1>6, <1>8, <1>10, <1>11 DEF Serial

\* The call that patches merges its patch with the current file.
LEMMA SerialRead ==
    ASSUME CoreInv, Serial, NEW c \in Calls, Read(c)
    PROVE  Serial'
<1> USE DEF CoreInv
<1>1. /\ \A d \in Calls : Patching(d)' => Patching(d)
      /\ \A d \in Calls : pc[d] = "done" => pc'[d] = "done"
      /\ \A d \in Calls : d # c => pc'[d] = pc[d] /\ merged'[d] = merged[d]
  BY DEF Read, Goto, Patching, TypeOK
<1>2. UNCHANGED <<file, patch, delivered, requests, handoffs, renamed, intended>>
  BY DEF Read, history
<1>3. Patching(c) /\ \A d \in Calls : Patching(d) => d = c
  BY DEF Read, Patching, Serial, Exclusive
<1>4. file # None
  BY <1>3 DEF Read, Serial, Current, Patching
<1>5. file = intended /\ pc'[c] = "write" /\ merged'[c] = Merge(intended, patch[c])
  BY <1>4 DEF Read, Goto, Serial, Current, TypeOK
<1>6. Exclusive'
  BY <1>1 DEF Serial, Exclusive
<1>7. Current'
  BY <1>1, <1>2, <1>3, <1>4, <1>5 DEF Serial, Current, Patching
<1>8. Turns'
  BY <1>1, <1>2 DEF Serial, Turns
<1>9. Titles'
  BY <1>1, <1>2 DEF Serial, Titles
<1>10. Notes'
  <2>1. Patching(c)'
    BY <1>5 DEF Patching
  <2>2. \A d \in Calls : Patching(d) => Patching(d)'
    BY <1>3, <2>1
  <2>3. intended.note # None => intended.note.at \in Calls
    BY DEF TypeOK, Meta, Note
  <2> QED
    BY <1>1, <1>2, <2>2, <2>3 DEF Serial, Notes
<1> QED
  BY <1>6, <1>7, <1>8, <1>9, <1>10 DEF Serial

\* Truncating the file leaves the one call that patches to fill it.
LEMMA SerialTruncate ==
    ASSUME CoreInv, Serial, NEW c \in Calls, Truncate(c)
    PROVE  Serial'
<1> USE DEF CoreInv
<1>1. /\ \A d \in Calls : Patching(d)' <=> Patching(d)
      /\ \A d \in Calls : pc[d] = "done" => pc'[d] = "done"
      /\ \A d \in Calls : d # c => pc'[d] = pc[d]
      /\ pc[c] = "write" /\ pc'[c] = "fill"
  BY DEF Truncate, Goto, Patching, TypeOK
<1>2. UNCHANGED <<patch, merged, delivered, requests, handoffs, renamed, intended>> /\ file' = None
  BY DEF Truncate, history
<1>3. Exclusive'
  BY <1>1 DEF Serial, Exclusive
<1>4. Current'
  BY <1>1, <1>2 DEF Serial, Current
<1>5. Turns'
  BY <1>1, <1>2 DEF Serial, Turns
<1>6. Titles'
  BY <1>1, <1>2 DEF Serial, Titles
<1>7. Notes'
  <2>1. intended.note # None => intended.note.at \in Calls
    BY DEF TypeOK, Meta, Note
  <2> QED
    BY <1>1, <1>2, <2>1 DEF Serial, Notes
<1> QED
  BY <1>3, <1>4, <1>5, <1>6, <1>7 DEF Serial

\* Filling the file applies the patch to what was intended before.
LEMMA SerialFill ==
    ASSUME CoreInv, Serial, NEW c \in Calls, Fill(c)
    PROVE  Serial'
<1> USE DEF CoreInv
<1> DEFINE p == patch[c]
<1>1. Patching(c) /\ \A d \in Calls : Patching(d) => d = c
  BY DEF Fill, Patching, Serial, Exclusive
<1>2. p \in Patches /\ intended \in Meta
  BY <1>1 DEF Ready, TypeOK
<1>3. /\ \A d \in Calls : ~Patching(d)'
      /\ \A d \in Calls : pc[d] = "done" => pc'[d] = "done"
      /\ pc'[c] = "done"
  BY <1>1 DEF Fill, Goto, Patching, TypeOK
<1>4. file' = intended' /\ intended' = Merge(intended, p)
  BY DEF Fill, Serial, Current
<1>5. Exclusive'
  BY <1>3 DEF Exclusive
<1>6. Current'
  <2>1. file' # None
    BY MetaAssumption, <1>3, <1>4 DEF Fill, Ready
  <2> QED
    BY <1>3, <1>4, <2>1 DEF Current, Patching
<1>7. Turns'
  <2>1. CASE Hands(p)
    <3>1. intended'.rfd = None /\ handoffs' = handoffs + 1 /\ handoffs < requests
      BY <1>1, <1>2, <1>4, <2>1, PatchDomains
         DEF Fill, Hands, Serial, Turns, Merge, Patched
    <3>2. requests' = requests
      BY <1>2, <2>1, PatchDomains DEF Fill, Hands, Requests, TypeOK
    <3> QED
      BY <1>3, <3>1, <3>2 DEF Turns, TypeOK
  <2>2. CASE Requests(p)
    <3>1. ~Hands(p)
      BY <1>2, <2>2, PatchDomains, MetaAssumption DEF Hands, Requests
    <3>2. requests' = requests + 1 /\ handoffs' = handoffs
      BY <2>2, <3>1 DEF Fill, TypeOK
    <3> QED
      BY <1>3, <3>2 DEF Turns, Serial, TypeOK
  <2>3. CASE ~Hands(p) /\ ~Requests(p)
    <3>1. requests' = requests /\ handoffs' = handoffs
      BY <2>3 DEF Fill, TypeOK
    <3>2. intended'.rfd = intended.rfd
      BY <1>2, <1>4, <2>3, PatchDomains, MetaAssumption
         DEF Hands, Requests, Merge, Patched
    <3> QED
      BY <1>3, <3>1, <3>2 DEF Turns, Serial
  <2> QED
    BY <2>1, <2>2, <2>3
<1>8. Titles'
  <2>1. CASE Renames(p)
    BY <1>2, <1>3, <1>4, <2>1, PatchDomains DEF Titles, Renames, Merge, Patched
  <2>2. CASE ~Renames(p)
    <3>1. renamed' = renamed
      BY <2>2 DEF Fill, TypeOK
    <3>2. renamed => intended'.title = intended.title
      BY <1>1, <1>2, <1>4, <2>2, PatchDomains
         DEF Serial, Titles, AutoNames, Renames, Merge, Patched
    <3> QED
      BY <1>3, <3>1, <3>2 DEF Serial, Titles
  <2> QED
    BY <2>1, <2>2
<1>9. Notes'
  <2>1. UNCHANGED delivered
    BY DEF Fill
  <2>2. delivered[c] = 0 \/ pc[c] = "done"
    BY DEF Serial, Notes
  <2>3. delivered[c] = 0
    BY <1>1, <2>2 DEF Patching
  <2>4. intended'.note # None =>
            pc'[intended'.note.at] = "done" /\ delivered[intended'.note.at] = 0
    <3>1. CASE Hands(p)
      <4>1. intended'.note = p.note
        BY <1>2, <1>4, <3>1, PatchDomains DEF Hands, Merge, Patched
      <4>2. p.note.at = c
        BY <1>1, <3>1 DEF Serial, Notes
      <4> QED
        BY <1>3, <2>3, <4>1, <4>2
    <3>2. CASE p = [note |-> None]
      BY <1>2, <1>4, <3>2 DEF Merge, Patched
    <3>3. CASE ~Hands(p) /\ p # [note |-> None]
      <4>1. intended'.note = intended.note
        <5>1. DOMAIN p = {"note"} => p = [note |-> None]
          BY <1>2 DEF Patches
        <5>2. "note" \notin DOMAIN p
          BY <1>2, <3>3, <5>1, PatchDomains DEF Hands
        <5> QED
          BY <1>4, <5>2 DEF Merge, Patched
      <4>2. intended.note # None => /\ intended.note.at \in Calls
                                    /\ pc[intended.note.at] = "done"
                                    /\ delivered[intended.note.at] = 0
        BY <1>1, <3>3 DEF Serial, Notes, TypeOK, Meta, Note
      <4> QED
        BY <1>3, <4>1, <4>2
    <3> QED
      BY <3>1, <3>2, <3>3
  <2> QED
    BY <1>3, <2>1, <2>4 DEF Serial, Notes
<1> QED
  BY <1>5, <1>6, <1>7, <1>8, <1>9 DEF Serial

\* A call that patches nothing disturbs nothing.
LEMMA SerialMove ==
    ASSUME CoreInv, Serial, NEW c \in Calls, Move(c)
    PROVE  Serial'
<1> USE DEF CoreInv
<1>1. /\ \A d \in Calls : Patching(d)' <=> Patching(d)
      /\ \A d \in Calls : pc[d] = "done" => pc'[d] = "done"
      /\ \A d \in Calls : Patching(d) => pc'[d] = pc[d]
      /\ \A d \in Calls : pc'[d] \in {"write", "fill"} => pc'[d] = pc[d]
  BY DEF Move, Goto, Patching, TypeOK
<1>2. UNCHANGED <<file, patch, merged, delivered, requests, handoffs, renamed, intended>>
  BY DEF Move, history
<1>3. Exclusive'
  BY <1>1 DEF Serial, Exclusive
<1>4. Current'
  BY <1>1, <1>2 DEF Serial, Current, Patching
<1>5. Turns'
  BY <1>1, <1>2 DEF Serial, Turns
<1>6. Titles'
  BY <1>1, <1>2 DEF Serial, Titles
<1>7. Notes'
  <2>1. intended.note # None => intended.note.at \in Calls
    BY DEF TypeOK, Meta, Note
  <2> QED
    BY <1>1, <1>2, <2>1 DEF Serial, Notes
<1> QED
  BY <1>3, <1>4, <1>5, <1>6, <1>7 DEF Serial

\* The serial facts hold until two calls overlap.
LEMMA SerialHolds == Spec => [](~overlapped => Serial)
<1> DEFINE S == ~overlapped => Serial
<1>1. Init /\ CoreInv => S
  <2> SUFFICES ASSUME Init, CoreInv PROVE Serial
    OBVIOUS
  <2>1. \A c \in Calls : pc[c] = "new" /\ ~Patching(c) /\ delivered[c] = 0
    BY DEF Init, Patching
  <2>2. file # None /\ intended = file /\ file.note = None
    BY MetaAssumption DEF Init, CoreInv, TypeOK, Meta
  <2>3. requests \in Nat /\ handoffs = 0 /\ (file.rfd # None => requests = 1) /\ ~renamed
    BY DEF Init
  <2> QED
    BY <2>1, <2>2, <2>3 DEF Serial, Exclusive, Current, Turns, Titles, Notes
<1>2. CoreInv /\ S /\ [Next]_vars => S'
  <2> SUFFICES ASSUME CoreInv, S, [Next]_vars, ~overlapped' PROVE Serial'
    OBVIOUS
  <2>1. CASE UNCHANGED vars
    BY <2>1 DEF vars, history, Serial, Exclusive, Current, Turns, Titles, Notes, Patching
  <2>2. ASSUME NEW c \in Calls, Move(c) PROVE Serial'
    BY <2>2, SerialMove DEF Move, history
  <2>3. ASSUME NEW c \in Calls, Read(c) PROVE Serial'
    BY <2>3, SerialRead DEF Read, history
  <2>4. ASSUME NEW c \in Calls, Truncate(c) PROVE Serial'
    BY <2>4, SerialTruncate DEF Truncate, history
  <2>5. ASSUME NEW c \in Calls, Fill(c) PROVE Serial'
    BY <2>5, SerialFill DEF Fill
  <2>6. ASSUME NEW c \in Calls, NEW p \in Patches, Route(c, p) PROVE Serial'
    BY <2>6, SerialRoute
  <2> QED
    BY <2>1, <2>2, <2>3, <2>4, <2>5, <2>6, StepCases DEF CoreInv
<1> QED
  BY <1>1, <1>2, Core, PTL DEF Spec

\* While no call reads the file in the middle of another's patch, no patch is lost.
THEOREM SerialPatchesSurvive == Spec => []NoUpdateLost
<1>1. (~overlapped => Serial) => NoUpdateLost
  BY DEF Serial, Current, NoUpdateLost
<1> QED
  BY <1>1, SerialHolds, PTL

\* ... a loop is taken over at most once for each time it was put up for drive.
THEOREM SerialDriveOnce == Spec => []OneDriverPerRequest
<1>1. (~overlapped => Serial) => OneDriverPerRequest
  BY DEF Serial, Turns, OneDriverPerRequest
<1> QED
  BY <1>1, SerialHolds, PTL

\* ... the note of a handoff is delivered at most once.
THEOREM SerialNoteOnce == Spec => []NoteDeliveredOnce
<1>1. (~overlapped => Serial) => NoteDeliveredOnce
  BY DEF Serial, Notes, NoteDeliveredOnce
<1> QED
  BY <1>1, SerialHolds, PTL

\* ... the creator's title is kept, however long the model takes to propose another.
THEOREM SerialTitleKept == Spec => []AutoNameYields
<1>1. (~overlapped => Serial) => AutoNameYields
  BY DEF Serial, Current, Titles, AutoNameYields
<1> QED
  BY <1>1, SerialHolds, PTL
=============================================================================
