------------------------------ MODULE Accounts ------------------------------
(***************************************************************************)
(* users.json and its cache: registration, login, and what an admin may do *)
(* to other accounts.  Every operation takes the users as it finds them,   *)
(* may wait (a password is hashed), and then writes all of them back;      *)
(* nothing orders two operations.                                          *)
(*                                                                         *)
(* Passwords, names and repositories are left out: a user has a role and a *)
(* status, and is logged in from one browser.                              *)
(***************************************************************************)
EXTENDS Naturals, FiniteSets

CONSTANTS
    Users,     \* the names people register
    Requests,  \* requests the server works on at a time
    MaxOps,    \* requests in all
    Absent,    \* there is no users.json
    Empty,     \* users.json was truncated and is not filled yet
    Torn,      \* users.json is a mixture of two writes
    None

VARIABLES
    users,     \* cached: the users as the server knows them, None before it reads
    disk,      \* users.json
    ask,       \* ask[r]: [pc, op, who, by, seen]: a request and the users it saw
    sessions,  \* the users who are logged in
    saved,     \* sessions.json
    ops,       \* requests so far
    founded    \* history: somebody has registered

accounts == <<users, disk, ask, sessions, saved, ops, founded>>
----------------------------------------------------------------------------
Nobody == [u \in Users |-> None]
Admins(f) == {u \in Users : f[u] # None /\ f[u].role = "admin"}
Idle == [pc |-> "idle", op |-> "none", who |-> None, by |-> None, seen |-> None]

Init ==
    /\ users = None /\ disk = Absent
    /\ ask = [r \in Requests |-> Idle]
    /\ sessions = {} /\ saved = {}
    /\ ops = 0 /\ founded = FALSE

At(r, pc) == ask[r].pc = pc
End(r) == ask' = [ask EXCEPT ![r] = Idle]
Goto(r, pc) == ask' = [ask EXCEPT ![r].pc = pc]
Holding(r, pc, f) == ask' = [ask EXCEPT ![r].pc = pc, ![r].seen = f]

AdminOps == {"activate", "promote", "demote", "delete"}
OwnOps == {"import"}
OpenOps == {"register", "login"}

\* requireAuth takes the user's name from the session alone; requireAdmin
\* looks the user up before the operation looks for itself.
Submit(r, op, u, by) ==
    /\ At(r, "idle") /\ ops < MaxOps
    /\ CASE op \in AdminOps -> by \in sessions
         [] op \in OwnOps -> by \in sessions /\ u = by
         [] OTHER -> u = by
    /\ ask' = [ask EXCEPT ![r] = [pc |-> IF op \in AdminOps THEN "admit" ELSE "look",
                                  op |-> op, who |-> u, by |-> by, seen |-> None]]
    /\ ops' = ops + 1
    /\ UNCHANGED <<users, disk, sessions, saved, founded>>

Logout(u) ==
    /\ u \in sessions
    /\ sessions' = sessions \ {u}
    /\ UNCHANGED <<users, disk, ask, saved, ops, founded>>
----------------------------------------------------------------------------
(***************************************************************************)
(* What a request makes of the users f it sees.                            *)
(***************************************************************************)
SeededChange(op, u, f) ==
    CASE op = "activate" -> [f EXCEPT ![u].status = "active"]
      [] op = "promote" -> [f EXCEPT ![u].role = "admin"]
      [] op = "demote" -> [f EXCEPT ![u].role = "member"]
      [] op = "delete" /\ Admins(f) # {u} -> [f EXCEPT ![u] = None]
      [] OTHER -> f

\* activateUser, setUserRole and deleteUser; the last admin stays one.
Change(op, u, f) ==
    CASE op = "activate" -> [f EXCEPT ![u].status = "active"]
      [] op = "promote" -> [f EXCEPT ![u].role = "admin"]
      [] op = "demote" /\ Admins(f) # {u} -> [f EXCEPT ![u].role = "member"]
      [] op = "delete" /\ Admins(f) # {u} -> [f EXCEPT ![u] = None]
      [] OTHER -> f

\* setPersonalRepo writes the users it saw, changed or not.
Decide(r, f) ==
    LET u == ask[r].who  op == ask[r].op IN
    CASE op = "register" /\ f[u] = None -> Holding(r, "hash", f)
      [] op = "login" /\ f[u] # None -> Holding(r, "verify", f)
      [] op = "import" /\ f[u] # None -> Holding(r, "write", f)
      [] op \in AdminOps /\ f[u] # None /\ Change(op, u, f) # f -> Holding(r, "write", Change(op, u, f))
      [] OTHER -> End(r)

\* readUsersFile without a cache: an absent file is an empty one at once, a
\* present one is read and only then becomes the cache.
NoFile(r) ==
    /\ ask[r].pc \in {"admit", "look"} /\ users = None /\ disk = Absent
    /\ users' = Nobody
    /\ UNCHANGED <<disk, ask, sessions, saved, ops, founded>>

ReadFile(r) ==
    /\ ask[r].pc \in {"admit", "look"} /\ users = None /\ disk # Absent
    /\ IF disk \in {Empty, Torn} THEN End(r) ELSE Holding(r, "read", disk)
    /\ UNCHANGED <<users, disk, sessions, saved, ops, founded>>

Loaded(r) ==
    /\ At(r, "read")
    /\ users' = ask[r].seen
    /\ Goto(r, IF ask[r].op \in AdminOps THEN "admit" ELSE "look")
    /\ UNCHANGED <<disk, sessions, saved, ops, founded>>

\* requireAdmin, and the route's own refusal of deleting oneself.
Admit(r) ==
    /\ At(r, "admit") /\ users # None
    /\ IF ask[r].by \in Admins(users) /\ ~(ask[r].op = "delete" /\ ask[r].who = ask[r].by)
       THEN Goto(r, "look") ELSE End(r)
    /\ UNCHANGED <<users, disk, sessions, saved, ops, founded>>

Look(r) ==
    /\ At(r, "look") /\ users # None
    /\ Decide(r, users)
    /\ UNCHANGED <<users, disk, sessions, saved, ops, founded>>

\* createUser, after the hash: who saw nobody is the first.
Hashed(r) ==
    LET f == ask[r].seen
        new == IF f = Nobody THEN [role |-> "admin", status |-> "active"]
               ELSE [role |-> "member", status |-> "pending"]
    IN
    /\ At(r, "hash")
    /\ Holding(r, "write", [f EXCEPT ![ask[r].who] = new])
    /\ UNCHANGED <<users, disk, sessions, saved, ops, founded>>

\* login, after the comparison.
Verified(r) ==
    /\ At(r, "verify")
    /\ sessions' = IF ask[r].seen[ask[r].who].status = "active"
                   THEN sessions \union {ask[r].who} ELSE sessions
    /\ End(r)
    /\ UNCHANGED <<users, disk, saved, ops, founded>>
----------------------------------------------------------------------------
(***************************************************************************)
(* writeUsersFile: truncate, fill, and only then the cache.                *)
(***************************************************************************)
Truncate(r) ==
    /\ At(r, "write")
    /\ disk' = Empty
    /\ Goto(r, "fill")
    /\ UNCHANGED <<users, sessions, saved, ops, founded>>

\* A write over what another left since our truncation may keep its end.
Fill(r, mixed) ==
    /\ At(r, "fill")
    /\ mixed => disk # Empty
    /\ disk' = IF mixed THEN Torn ELSE ask[r].seen
    /\ Goto(r, "publish")
    /\ UNCHANGED <<users, sessions, saved, ops, founded>>

\* The cache follows; a deletion then ends the user's sessions, and the
\* first registration goes on to log its user in.
Publish(r) ==
    LET f == ask[r].seen  u == ask[r].who IN
    /\ At(r, "publish")
    /\ users' = f /\ founded' = TRUE
    /\ sessions' = IF ask[r].op = "delete" THEN sessions \ {u} ELSE sessions
    /\ IF ask[r].op = "register" /\ f[u].status = "active" THEN Goto(r, "welcome") ELSE End(r)
    /\ UNCHANGED <<disk, saved, ops>>

\* The route provisions personal/ before it opens the session.
Welcome(r) ==
    /\ At(r, "welcome")
    /\ sessions' = sessions \union {ask[r].who}
    /\ End(r)
    /\ UNCHANGED <<users, disk, saved, ops, founded>>

\* saveSessions follows every change; nobody waits for it.
Save ==
    /\ saved # sessions
    /\ saved' = sessions
    /\ UNCHANGED <<users, disk, ask, sessions, ops, founded>>

\* The server is killed, perhaps while it saved the sessions, and started again.
Restart ==
    /\ users # None
    /\ users' = None
    /\ ask' = [r \in Requests |-> Idle]
    /\ sessions' \in {saved, {}}
    /\ saved' = sessions'
    /\ UNCHANGED <<disk, ops, founded>>

Next ==
    \/ \E r \in Requests, u, by \in Users, op \in AdminOps \union OwnOps \union OpenOps : Submit(r, op, u, by)
    \/ \E u \in Users : Logout(u)
    \/ \E r \in Requests :
          \/ NoFile(r) \/ ReadFile(r) \/ Loaded(r) \/ Admit(r) \/ Look(r) \/ Hashed(r) \/ Verified(r)
          \/ Truncate(r) \/ Publish(r) \/ Welcome(r)
          \/ \E mixed \in BOOLEAN : Fill(r, mixed)
    \/ Save \/ Restart

Spec == Init /\ [][Next]_accounts
----------------------------------------------------------------------------
\* However requests overlap, and whatever users a request had seen when it
\* wrote them back: from the first registration on, the users the server
\* knows and those it would find after a restart include an admin.
AlwaysAnAdmin ==
    founded => \A f \in {users, disk} \ {None, Absent, Empty, Torn} : Admins(f) # {}

\* auth.ts:9-10: the first account is active "so the system isn't
\* unreachable".  Fails: an admin may promote a pending user and then be
\* demoted, since the last-admin rule counts pending admins.
AnAdminCanLogIn ==
    founded => \A f \in {users, disk} \ {None, Absent, Empty, Torn} :
                  \E u \in Admins(f) : f[u].status = "active"

\* auth.ts:199: sessions are dropped "so the deletion is immediate".  Fails:
\* a login that compared the password meanwhile opens a session afterwards,
\* and of two first registrations the later removes the earlier.
OnlyUsersAreLoggedIn ==
    \A u \in sessions : users # None /\ users[u] = None
                          => \E r \in Requests : ask[r].who = u /\ ask[r].pc \in {"fill", "publish"}

\* A file that nobody is writing can be read.  Fails after a kill during a
\* write, and after two writes at a time.
FileIsReadable == disk \in {Empty, Torn} => \E r \in Requests : At(r, "fill")
=============================================================================
