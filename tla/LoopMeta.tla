------------------------------- MODULE LoopMeta -------------------------------
(***************************************************************************)
(* The metadata file of one loop and the routes that change it: archive,   *)
(* rename, request-drive, drive, the kanban's assignment of a driver, the  *)
(* settings of the chat, auto-naming, and the messages that consume the    *)
(* note of a handoff (server/src/loops.ts patchLoopMeta, index.ts,         *)
(* kanban.ts, auto-name.ts, session.ts).                                   *)
(*                                                                         *)
(* Nothing locks the file.  A route reads it (getLoop), decides, and calls *)
(* patchLoopMeta, which reads it again, merges the patch field by field,   *)
(* and writes the whole of it back.  Writing truncates the file before it  *)
(* fills it; getLoop of a truncated file returns null.  Every one of these *)
(* is an await of its own, between which other routes run.                 *)
(*                                                                         *)
(* A route that refuses a request changes nothing and is no step.          *)
(***************************************************************************)
EXTENDS Naturals, SequencesExt

CONSTANTS
    Calls,     \* the requests, each of them once
    Users,
    Creator,   \* the loop's createdBy
    None

VARIABLES
    file,        \* what getLoop returns: the metadata, or None while truncated
    pc,          \* the await each call is at
    patch,       \* the patch each call makes
    merged,      \* what each call is about to write
    delivered,   \* how many messages carried the note of each handoff
    requests,    \* how many times the loop was put up for drive
    handoffs,    \* how many times somebody took it
    renamed,     \* has its creator chosen a title?
    intended,    \* the patches written so far, one applied after the other
    overlapped   \* did some call read the file while another was patching it?

history == <<delivered, requests, handoffs, renamed, intended, overlapped>>
vars    == <<file, pc, patch, merged, history>>

PCs == {"new",
        "naming",    \* maybeAutoName waits for the model
        "queued",    \* a message on its way to _pushUserMessage
        "read",      \* patchLoopMeta, before its getLoop
        "write",     \* before its writeFile
        "fill",      \* inside it: the file is truncated
        "done"}

ConfigKeys == {"vault", "goal", "provider", "mode"}

Note == [from : Users, to : Users, at : Calls]

Meta == [archived : BOOLEAN,
         title : {"untitled", "user", "auto"},
         titleAuto : {"unset", "yes", "no"},
         driver : Users,
         driverHistory : Seq(Users),
         rfd : Users \cup {None},
         note : Note \cup {None},
         config : SUBSET ConfigKeys]

ASSUME MetaAssumption == Creator \in Users /\ None \notin Users \cup Meta

\* The patches of the routes below.
Patches == [archived : BOOLEAN]
     \cup  [title : {"user"}, titleAuto : {"no"}]
     \cup  [title : {"auto"}, titleAuto : {"yes"}]
     \cup  [rfd : Users]
     \cup  [driver : Users, driverHistory : Seq(Users), rfd : {None}, note : Note]
     \cup  [driver : Users]
     \cup  [note : {None}]
     \cup  [config : SUBSET ConfigKeys]

\* { ...meta, ...patch }
Patched(m, p, f) == IF f \in DOMAIN p THEN p[f] ELSE m[f]

Merge(m, p) == [archived      |-> Patched(m, p, "archived"),
                title         |-> Patched(m, p, "title"),
                titleAuto     |-> Patched(m, p, "titleAuto"),
                driver        |-> Patched(m, p, "driver"),
                driverHistory |-> Patched(m, p, "driverHistory"),
                rfd           |-> Patched(m, p, "rfd"),
                note          |-> Patched(m, p, "note"),
                config        |-> Patched(m, p, "config")]

\* createLoop, and a loop that its creator has put up for drive.
Init ==
    /\ file \in [archived : {FALSE}, title : {"untitled"}, titleAuto : {"unset"},
                 driver : {Creator}, driverHistory : {<<Creator>>},
                 rfd : {None, Creator}, note : {None}, config : {{}, {"vault"}}]
    /\ pc = [c \in Calls |-> "new"]
    /\ patch = [c \in Calls |-> None]
    /\ merged = [c \in Calls |-> None]
    /\ delivered = [c \in Calls |-> 0]
    /\ requests = IF file.rfd = None THEN 0 ELSE 1
    /\ handoffs = 0
    /\ renamed = FALSE
    /\ intended = file
    /\ overlapped = FALSE

-----------------------------------------------------------------------------
(* patchLoopMeta *)

Goto(c, s) == pc' = [pc EXCEPT ![c] = s]

Patching(c) == pc[c] \in {"read", "write", "fill"}

\* The call has read the file, if it reads it, and calls patchLoopMeta.
Submit(c, p) ==
    /\ Goto(c, "read")
    /\ patch' = [patch EXCEPT ![c] = p]
    /\ overlapped' = (overlapped \/ \E d \in Calls \ {c} : Patching(d))
    /\ UNCHANGED <<file, merged, requests, handoffs, renamed, intended>>

\* { ...patch, ...meta }: what the file has wins.
SeededRead(c) ==
    /\ pc[c] = "read"
    /\ \/ file = None /\ Goto(c, "done") /\ UNCHANGED merged
       \/ /\ file # None
          /\ Goto(c, "write")
          /\ merged' = [merged EXCEPT ![c] = file]
    /\ UNCHANGED <<file, patch, history>>

\* Its getLoop and the merge; a file that cannot be read is not patched.
Read(c) ==
    /\ pc[c] = "read"
    /\ \/ file = None /\ Goto(c, "done") /\ UNCHANGED merged
       \/ /\ file # None
          /\ Goto(c, "write")
          /\ merged' = [merged EXCEPT ![c] = Merge(file, patch[c])]
    /\ UNCHANGED <<file, patch, history>>

Truncate(c) ==
    /\ pc[c] = "write"
    /\ Goto(c, "fill")
    /\ file' = None
    /\ UNCHANGED <<patch, merged, history>>

Hands(p)    == {"driver", "note"} \subseteq DOMAIN p
Requests(p) == "rfd" \in DOMAIN p /\ p.rfd # None
Renames(p)  == "titleAuto" \in DOMAIN p /\ p.titleAuto = "no"

Fill(c) ==
    /\ pc[c] = "fill"
    /\ Goto(c, "done")
    /\ file' = merged[c]
    /\ patch' = [patch EXCEPT ![c] = None]
    /\ merged' = [merged EXCEPT ![c] = None]
    /\ requests' = requests + IF Requests(patch[c]) THEN 1 ELSE 0
    /\ handoffs' = handoffs + IF Hands(patch[c]) THEN 1 ELSE 0
    /\ renamed' = (renamed \/ Renames(patch[c]))
    /\ intended' = Merge(intended, patch[c])
    /\ UNCHANGED <<delivered, overlapped>>

-----------------------------------------------------------------------------
(* The routes, from their first read to their call of patchLoopMeta *)

\* PATCH /api/loops/:id and DELETE /v1/loops/:id, by the creator.
SetArchived(c, value) ==
    /\ pc[c] = "new" /\ file # None
    /\ Submit(c, [archived |-> value])
    /\ UNCHANGED delivered

Rename(c) ==
    /\ pc[c] = "new" /\ file # None
    /\ Submit(c, [title |-> "user", titleAuto |-> "no"])
    /\ UNCHANGED delivered

\* POST request-drive: the driver lets go.
RequestDrive(c, u) ==
    /\ pc[c] = "new" /\ file # None
    /\ u = file.driver /\ ~file.archived /\ file.rfd = None
    /\ Submit(c, [rfd |-> u])
    /\ UNCHANGED delivered

\* The history is left to the next reader.
SeededTakeover(c, u) ==
    [driver |-> u, driverHistory |-> file.driverHistory, rfd |-> None,
     note |-> [from |-> file.driver, to |-> u, at |-> c]]

Takeover(c, u) ==
    [driver |-> u, driverHistory |-> Append(file.driverHistory, u), rfd |-> None,
     note |-> [from |-> file.driver, to |-> u, at |-> c]]

\* Whoever asks takes over.
SeededDrive(c, u) ==
    /\ pc[c] = "new" /\ file # None
    /\ ~file.archived
    /\ Submit(c, Takeover(c, u))
    /\ UNCHANGED delivered

\* POST drive: any user takes over.
Drive(c, u) ==
    /\ pc[c] = "new" /\ file # None
    /\ file.rfd # None /\ ~file.archived
    /\ Submit(c, Takeover(c, u))
    /\ UNCHANGED delivered

\* A card without an assignee.
SeededAssign(c, u) ==
    /\ pc[c] = "new"
    /\ Submit(c, [driver |-> None])
    /\ UNCHANGED delivered

\* assignDriverForCard, linkLoopToCard: whatever the file says.
AssignDriver(c, u) ==
    /\ pc[c] = "new"
    /\ Submit(c, [driver |-> u])
    /\ UNCHANGED delivered

\* The loop's websocket lets the driver write, and anyone while the file cannot be read.
MayWrite == file # None => ~file.archived /\ file.rfd = None

\* provider_select: the provider is all of the patched config.
SelectProvider(c) ==
    /\ pc[c] = "new" /\ MayWrite
    /\ Submit(c, [config |-> {"provider"}])
    /\ UNCHANGED delivered

\* set_goal: the config of the file that was read, and the goal.
SetGoal(c) ==
    /\ pc[c] = "new" /\ MayWrite
    /\ Submit(c, [config |-> (IF file = None THEN {} ELSE file.config) \cup {"goal"}])
    /\ UNCHANGED delivered

\* _pushUserMessage with a new permission mode, which nothing waits for.
SetPermissionMode(c) ==
    /\ pc[c] = "new"
    /\ Submit(c, [config |-> {"mode"}])
    /\ UNCHANGED delivered

\* A message is accepted, and may wait in the session's queue.
Send(c) ==
    /\ pc[c] = "new" /\ MayWrite
    /\ Goto(c, "queued")
    /\ UNCHANGED <<file, patch, merged, history>>

NoteFound == IF file = None THEN None ELSE file.note

\* The note stays in the file.
SeededPush(c) ==
    /\ pc[c] = "queued"
    /\ NoteFound # None
    /\ delivered' = [delivered EXCEPT ![NoteFound.at] = @ + 1]
    /\ Goto(c, "done")
    /\ UNCHANGED <<file, patch, merged, requests, handoffs, renamed, intended, overlapped>>

\* _pushUserMessage: the note of a handoff goes into the message, and is cleared.
PushMessage(c) ==
    /\ pc[c] = "queued"
    /\ \/ /\ NoteFound # None
          /\ delivered' = [delivered EXCEPT ![NoteFound.at] = @ + 1]
          /\ Submit(c, [note |-> None])
       \/ /\ NoteFound = None
          /\ Goto(c, "done")
          /\ UNCHANGED <<file, patch, merged, history>>

MayName == file # None /\ file.title = "untitled" /\ file.titleAuto # "no"

\* maybeAutoName: the first read, then the model is asked for a title.
BeginNaming(c) ==
    /\ pc[c] = "new" /\ MayName
    /\ Goto(c, "naming")
    /\ UNCHANGED <<file, patch, merged, history>>

SeededName(c) ==
    /\ pc[c] = "naming"
    /\ Submit(c, [title |-> "auto", titleAuto |-> "yes"])
    /\ UNCHANGED delivered

\* The answer comes, or none; the file is read again before it is used.
EndNaming(c) ==
    /\ pc[c] = "naming"
    /\ \/ /\ MayName
          /\ Submit(c, [title |-> "auto", titleAuto |-> "yes"])
          /\ UNCHANGED delivered
       \/ /\ Goto(c, "done")
          /\ UNCHANGED <<file, patch, merged, history>>

Steps(c) ==
    \/ \E value \in BOOLEAN : SetArchived(c, value)
    \/ \E u \in Users : RequestDrive(c, u) \/ Drive(c, u) \/ AssignDriver(c, u)
    \/ Rename(c) \/ SelectProvider(c) \/ SetGoal(c) \/ SetPermissionMode(c)
    \/ Send(c) \/ PushMessage(c)
    \/ BeginNaming(c) \/ EndNaming(c)
    \/ Read(c) \/ Truncate(c) \/ Fill(c)

Next == \E c \in Calls : Steps(c)

Spec == Init /\ [][Next]_vars

-----------------------------------------------------------------------------
TypeOK ==
    /\ file \in Meta \cup {None}
    /\ pc \in [Calls -> PCs]
    /\ patch \in [Calls -> Patches \cup {None}]
    /\ merged \in [Calls -> Meta \cup {None}]
    /\ delivered \in [Calls -> Nat]
    /\ requests \in Nat /\ handoffs \in Nat
    /\ renamed \in BOOLEAN
    /\ intended \in Meta
    /\ overlapped \in BOOLEAN

\* The note of a handoff names the last driver of the history, and a title has the
\* owner that goes with it.
Together(m) ==
    /\ m.note # None => Last(m.driverHistory) = m.note.to
    /\ m.titleAuto = "no" => m.title = "user"
    /\ m.titleAuto = "yes" => m.title = "auto"

\* What one patch sets together stays together in the file, however the patches of
\* many calls interleave and undo each other.  (patchLoopMeta replaces the file as
\* a whole.)
PairsTogether == file # None => Together(file)

\* As long as no call reads the file while another is patching it, every patch
\* survives: the file is what the patches make of it one after the other.
NoUpdateLost == ~overlapped /\ file # None => file = intended

\* ... nobody takes over a loop that was not put up for drive, or that another
\* has already taken.
OneDriverPerRequest == ~overlapped => handoffs <= requests

\* ... and the note of a handoff is told to the model once, although messages wait
\* in a queue between the route that accepts them and the read that finds the note.
NoteDeliveredOnce == ~overlapped => \A c \in Calls : delivered[c] <= 1

\* ... and a title that the creator chose is not replaced by one that the model was
\* asked for before.
AutoNameYields == ~overlapped /\ renamed /\ file # None => file.title = "user"

-----------------------------------------------------------------------------
(* What comments say, and some schedules contradict.                       *)

\* "One-shot flag ... consumed by the next sendUserText ... Cleared atomically when
\* consumed": no two messages carry the same note.
NoteIsOneShot == \A c \in Calls : delivered[c] <= 1

\* "Vault selected for this loop": no patch drops it, not even if every call had the
\* file to itself.
VaultKept == []["vault" \in intended.config => "vault" \in intended'.config]_vars
=============================================================================
