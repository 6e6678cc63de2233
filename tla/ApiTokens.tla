----------------------------- MODULE ApiTokens ------------------------------
(***************************************************************************)
(* api-tokens.json and its cache.  Every change goes through one queue     *)
(* (withWriteLock), reads do not.  The cache is an object that a change    *)
(* alters in place, before the file is written; a read without a cache     *)
(* makes a new object, named here by the request that read it.             *)
(*                                                                         *)
(* A token stands for its entry; owners, labels and dates are left out.    *)
(***************************************************************************)
EXTENDS Naturals, Sequences

CONSTANTS
    Tokens,    \* the tokens that are created
    Calls,     \* requests the server works on at a time
    MaxCalls,  \* requests in all
    SlowReads, \* a read of the file may overlap other calls
    MayTear,   \* the server may be killed while it writes
    Absent,    \* there is no file
    Empty,     \* the file was truncated and is not filled yet
    None

VARIABLES
    cached,    \* the object that is the cache, None before the first read
    heap,      \* heap[r]: the tokens of the object that call r read
    file,      \* the tokens in the file, or Absent, or Empty
    queue,     \* withWriteLock: the calls that may change, in order
    call,      \* call[r]: [pc, op, tok, obj, snap]
    calls,     \* calls so far
    used,      \* history: tokens whose creation was asked for
    live,      \* history: created and answered, and nobody asked to revoke it
    gone       \* history: revoked and answered

tokens == <<cached, heap, file, queue, call, calls, used, live, gone>>
----------------------------------------------------------------------------
Idle == [pc |-> "idle", op |-> "none", tok |-> None, obj |-> None, snap |-> None]
At(r, pc) == call[r].pc = pc
Goto(r, pc) == call' = [call EXCEPT ![r].pc = pc]
Changes(op) == op \in {"create", "revoke", "touch"}

Init ==
    /\ cached = None /\ heap = [r \in Calls |-> {}] /\ file = Absent
    /\ queue = <<>> /\ call = [r \in Calls |-> Idle] /\ calls = 0
    /\ used = {} /\ live = {} /\ gone = {}

\* Nobody can name a token before its creation is answered.
Ask(r, op, t) ==
    /\ At(r, "idle") /\ calls < MaxCalls
    /\ op = "create" <=> t \notin used
    /\ \A q \in Calls : call[q].op = "create" => call[q].tok # t
    /\ calls' = calls + 1
    /\ call' = [call EXCEPT ![r] = [Idle EXCEPT !.pc = IF Changes(op) THEN "queued" ELSE "look",
                                                !.op = op, !.tok = t]]
    /\ queue' = IF Changes(op) THEN Append(queue, r) ELSE queue
    /\ used' = used \union {t}
    /\ live' = IF op = "revoke" THEN live \ {t} ELSE live
    /\ UNCHANGED <<cached, heap, file, gone>>

SeededStart(r) ==
    /\ At(r, "queued")
    /\ Goto(r, "look")
    /\ UNCHANGED <<cached, heap, file, queue, calls, used, live, gone>>

\* withWriteLock: whatever became of the one before.
Start(r) ==
    /\ At(r, "queued") /\ Head(queue) = r
    /\ Goto(r, "look")
    /\ UNCHANGED <<cached, heap, file, queue, calls, used, live, gone>>
----------------------------------------------------------------------------
(***************************************************************************)
(* readTokensFile: a file that cannot be parsed is one without tokens.     *)
(***************************************************************************)
Reading == \E r \in Calls : At(r, "reading")
Free == SlowReads \/ ~Reading

NoFile(r) ==
    /\ At(r, "look") /\ cached = None /\ file = Absent
    /\ heap' = [heap EXCEPT ![r] = {}]
    /\ cached' = r
    /\ UNCHANGED <<file, queue, call, calls, used, live, gone>>

Read(r) ==
    /\ At(r, "look") /\ cached = None /\ file # Absent /\ Free
    /\ heap' = [heap EXCEPT ![r] = IF file = Empty THEN {} ELSE file]
    /\ Goto(r, "reading")
    /\ UNCHANGED <<cached, file, queue, calls, used, live, gone>>

\* The call goes on with the object it read.
Parsed(r) ==
    /\ At(r, "reading")
    /\ cached' = r
    /\ call' = [call EXCEPT ![r].pc = "act", ![r].obj = r]
    /\ UNCHANGED <<heap, file, queue, calls, used, live, gone>>

Cached(r) ==
    /\ At(r, "look") /\ cached # None /\ Free
    /\ call' = [call EXCEPT ![r].pc = "act", ![r].obj = cached]
    /\ UNCHANGED <<cached, heap, file, queue, calls, used, live, gone>>
----------------------------------------------------------------------------
\* The call that changes is the first in the queue.
Leave(r) ==
    /\ call' = [call EXCEPT ![r] = Idle]
    /\ queue' = IF Changes(call[r].op) THEN Tail(queue) ELSE queue

\* createApiToken, revokeApiToken and the update of lastUsedAt alter the
\* object; without the entry there is nothing to write.
Alter(r) ==
    LET o == call[r].obj  t == call[r].tok
        after == CASE call[r].op = "create" -> heap[o] \union {t}
                   [] call[r].op = "revoke" -> heap[o] \ {t}
                   [] OTHER -> heap[o]
    IN
    /\ At(r, "act") /\ Changes(call[r].op)
    /\ heap' = [heap EXCEPT ![o] = after]
    /\ IF call[r].op # "create" /\ t \notin heap[o] THEN Leave(r)
       ELSE Goto(r, "write") /\ UNCHANGED queue
    /\ UNCHANGED <<cached, file, calls, used, live, gone>>

\* resolveApiToken answers, and leaves the update of lastUsedAt behind;
\* listApiTokens only answers.
Resolve(r) ==
    /\ At(r, "act") /\ ~Changes(call[r].op)
    /\ IF call[r].op = "resolve" /\ call[r].tok \in heap[call[r].obj]
       THEN /\ call' = [call EXCEPT ![r].op = "touch", ![r].pc = "queued"]
            /\ queue' = Append(queue, r)
       ELSE Leave(r)
    /\ UNCHANGED <<cached, heap, file, calls, used, live, gone>>

\* writeTokensFile: the text is made when the file is truncated.
Truncate(r) ==
    /\ At(r, "write") /\ Free
    /\ file' = Empty
    /\ call' = [call EXCEPT ![r].pc = "fill", ![r].snap = heap[call[r].obj]]
    /\ UNCHANGED <<cached, heap, queue, calls, used, live, gone>>

Fill(r) ==
    /\ At(r, "fill")
    /\ file' = call[r].snap
    /\ cached' = call[r].obj
    /\ live' = IF call[r].op = "create" THEN live \union {call[r].tok} ELSE live
    /\ gone' = IF call[r].op = "revoke" THEN gone \union {call[r].tok} ELSE gone
    /\ Leave(r)
    /\ UNCHANGED <<heap, calls, used>>

\* The server is killed and started again.
Restart ==
    /\ cached # None
    /\ MayTear \/ ~\E r \in Calls : At(r, "fill")
    /\ cached' = None
    /\ call' = [r \in Calls |-> Idle] /\ queue' = <<>>
    /\ UNCHANGED <<heap, file, calls, used, live, gone>>

Next ==
    \/ \E r \in Calls, op \in {"create", "revoke", "resolve", "list"}, t \in Tokens : Ask(r, op, t)
    \/ \E r \in Calls :
          \/ Start(r) \/ NoFile(r) \/ Read(r) \/ Parsed(r) \/ Cached(r)
          \/ Alter(r) \/ Resolve(r) \/ Truncate(r) \/ Fill(r)
    \/ Restart

Spec == Init /\ [][Next]_tokens
----------------------------------------------------------------------------
\* The tokens the server answers by, or will after it has read the file.
View == IF cached # None THEN heap[cached] ELSE IF file \in {Absent, Empty} THEN {} ELSE file

\* Whatever calls overlap, and over restarts: a token that was handed out is
\* good until somebody asks to revoke it, and none is good once its revocation
\* was answered.  Fails with SlowReads, when a read that began before a change
\* replaces the cache after it, and with MayTear, when the torn file is read
\* as one without tokens.
TokensKept == live \subseteq View /\ gone \intersect View = {}
=============================================================================
