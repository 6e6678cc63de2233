-------------------------- MODULE Services_proofs --------------------------
(***************************************************************************)
(* Theorems about the services beside the loops.  A behaviour of Services  *)
(* is one of one of them, so each invariant is kept by the steps of its    *)
(* own service and untouched by the others.                                *)
(***************************************************************************)
EXTENDS Services, SequenceTheorems, FiniteSetTheorems, WellFoundedInduction, TLAPS

(***************************************************************************)
(* The accounts.  What a request saw may be stale when it is written back, *)
(* but whatever users are seen, and whatever is made of them, there is an  *)
(* admin among them, unless nobody had registered yet.                     *)
(***************************************************************************)
Profiles == [Users -> Account \union {None}]
Governed(f) == f \in Profiles /\ A!Admins(f) # {}

AskSteps == {"idle", "admit", "look", "read", "hash", "verify", "write", "fill", "publish", "welcome"}
AskOps == A!AdminOps \union A!OwnOps \union A!OpenOps

AskType == [pc : AskSteps, op : AskOps \union {"none"}, who : Users \union {None}, by : Users \union {None},
            seen : Profiles \union {None}]

\* What request k has in its hands, while users.json is d.
AskOK(k, d) ==
    /\ k.pc # "idle" => k.who \in Users
    /\ k.pc \in {"read", "write", "fill", "publish"} => Governed(k.seen)
    /\ k.pc = "hash" => (k.seen = A!Nobody \/ Governed(k.seen)) /\ k.seen[k.who] = None
    /\ k.pc \in {"fill", "publish"} => d # Absent

UsersOK ==
    /\ users = None \/ Governed(users) \/ (users = A!Nobody /\ ~founded)
    /\ disk \in {Absent, Empty, Torn} \/ Governed(disk)
    /\ disk = Absent => ~founded
    /\ founded \in BOOLEAN

AccountsInv ==
    /\ UsersOK
    /\ ask \in [Calls -> AskType]
    /\ \A r \in Calls : AskOK(ask[r], disk)

LEMMA Named ==
    /\ None \notin {Absent, Empty, Torn} /\ Absent \notin {Empty, Torn} /\ Empty # Torn
    /\ None \notin Account /\ None \notin Calls
    /\ \A f \in Profiles : f \notin {None, Absent, Empty, Torn}
    /\ A!Nobody \in Profiles
  BY ServicesAssumption DEF Profiles, A!Nobody

LEMMA Governing ==
    ASSUME NEW g \in Profiles, NEW w \in Users, g[w] # None, g[w].role = "admin"
    PROVE  Governed(g)
  BY DEF Governed, A!Admins

\* The last admin stays: what a request makes of governed users is governed.
LEMMA ChangeGoverned ==
    ASSUME NEW f, Governed(f), NEW u \in Users, f[u] # None, NEW op
    PROVE  Governed(A!Change(op, u, f))
<1>1. f \in Profiles /\ f[u] \in Account
  BY DEF Governed, Profiles
<1>2. PICK v \in Users : f[v] # None /\ f[v].role = "admin"
  BY DEF Governed, A!Admins
<1>3. ASSUME NEW x \in Account
      PROVE  /\ [f EXCEPT ![u] = x] \in Profiles
             /\ [f EXCEPT ![u] = x][u] = x
             /\ \A w \in Users \ {u} : [f EXCEPT ![u] = x][w] = f[w]
  BY <1>1 DEF Profiles
<1>4. CASE op = "activate"
  <2> DEFINE x == [f[u] EXCEPT !.status = "active"]
  <2>1. x \in Account /\ x.role = f[u].role
    BY <1>1 DEF Account
  <2>2. A!Change(op, u, f) = [f EXCEPT ![u] = x]
    BY <1>4 DEF A!Change
  <2> HIDE DEF x
  <2> DEFINE g == [f EXCEPT ![u] = x]
  <2>3. g \in Profiles /\ g[u] = x /\ x # None /\ \A w \in Users \ {u} : g[w] = f[w]
    BY <1>3, <2>1, Named
  <2> HIDE DEF g
  <2>4. g[v] # None /\ g[v].role = "admin"
    BY <1>2, <2>1, <2>3
  <2> QED
    BY <2>2, <2>3, <2>4, Governing DEF g
<1>5. CASE op = "promote"
  <2> DEFINE x == [f[u] EXCEPT !.role = "admin"]
  <2>1. x \in Account /\ x.role = "admin"
    BY <1>1 DEF Account
  <2>2. A!Change(op, u, f) = [f EXCEPT ![u] = x]
    BY <1>5 DEF A!Change
  <2> HIDE DEF x
  <2> DEFINE g == [f EXCEPT ![u] = x]
  <2>3. g \in Profiles /\ g[u] = x /\ x # None /\ \A w \in Users \ {u} : g[w] = f[w]
    BY <1>3, <2>1, Named
  <2> HIDE DEF g
  <2>4. g[v] # None /\ g[v].role = "admin"
    BY <1>2, <2>1, <2>3
  <2> QED
    BY <2>2, <2>3, <2>4, Governing DEF g
<1>6. CASE op = "demote" /\ A!Admins(f) # {u}
  <2> DEFINE x == [f[u] EXCEPT !.role = "member"]
  <2>1. x \in Account
    BY <1>1 DEF Account
  <2>2. A!Change(op, u, f) = [f EXCEPT ![u] = x]
    BY <1>6 DEF A!Change
  <2> HIDE DEF x
  <2>3. PICK w \in Users \ {u} : f[w] # None /\ f[w].role = "admin"
    BY <1>2, <1>6 DEF A!Admins
  <2> DEFINE g == [f EXCEPT ![u] = x]
  <2>4. g \in Profiles /\ \A z \in Users \ {u} : g[z] = f[z]
    BY <1>3, <2>1
  <2> HIDE DEF g
  <2> QED
    BY <2>2, <2>3, <2>4, Governing DEF g
<1>7. CASE op = "delete" /\ A!Admins(f) # {u}
  <2>1. A!Change(op, u, f) = [f EXCEPT ![u] = None]
    BY <1>7 DEF A!Change
  <2>2. PICK w \in Users \ {u} : f[w] # None /\ f[w].role = "admin"
    BY <1>2, <1>7 DEF A!Admins
  <2> QED
    BY <1>1, <2>1, <2>2 DEF Governed, A!Admins, Profiles
<1>8. CASE ~(op = "activate" \/ op = "promote" \/ (op = "demote" /\ A!Admins(f) # {u})
              \/ (op = "delete" /\ A!Admins(f) # {u}))
  <2>1. A!Change(op, u, f) = f
    BY <1>8 DEF A!Change
  <2> QED
    BY <2>1
<1> QED
  BY <1>4, <1>5, <1>6, <1>7, <1>8

\* The first to register is an admin; a later one leaves the admins alone.
LEMMA RegisterGoverned ==
    ASSUME NEW f, f = A!Nobody \/ Governed(f), NEW u \in Users, f[u] = None, NEW x \in Account,
           f = A!Nobody => x.role = "admin"
    PROVE  Governed([f EXCEPT ![u] = x])
<1>1. f \in Profiles
  BY Named DEF Governed
<1>2. [f EXCEPT ![u] = x] \in Profiles /\ [f EXCEPT ![u] = x][u] = x
      /\ \A w \in Users \ {u} : [f EXCEPT ![u] = x][w] = f[w]
  BY <1>1 DEF Profiles
<1>3. CASE f = A!Nobody
  BY <1>2, <1>3, Named DEF Governed, A!Admins
<1>4. CASE Governed(f)
  <2>1. PICK v \in Users : f[v] # None /\ f[v].role = "admin"
    BY <1>4 DEF Governed, A!Admins
  <2> QED
    BY <1>2, <2>1 DEF Governed, A!Admins
<1> QED
  BY <1>3, <1>4

\* Only request r changes, to be at pc with the users f in its hands.
Holds(r, p, f) ==
    /\ ask' \in [Calls -> AskType]
    /\ \A q \in Calls : q # r => ask'[q] = ask[q]
    /\ ask'[r].pc = p /\ ask'[r].op = ask[r].op /\ ask'[r].who = ask[r].who /\ ask'[r].seen = f

LEMMA IdleAsk == A!Idle \in AskType /\ \A d : AskOK(A!Idle, d)
<1> DEFINE k == A!Idle
<1>1. /\ k = [pc |-> "idle", op |-> "none", who |-> None, by |-> None, seen |-> None]
  BY DEF A!Idle
<1>2. k.pc = "idle"
  BY <1>1
<1>3. k \in AskType
  <2>1. "idle" \in AskSteps
    BY DEF AskSteps
  <2> QED
    BY <1>1, <2>1 DEF AskType
<1>4. ASSUME NEW d PROVE AskOK(k, d)
  BY <1>2 DEF AskOK
<1> QED
  BY <1>3, <1>4

LEMMA Asking ==
    ASSUME ask \in [Calls -> AskType], NEW r \in Calls
    PROVE  /\ A!End(r) => /\ ask' \in [Calls -> AskType]
                          /\ ask'[r] = A!Idle /\ \A q \in Calls : q # r => ask'[q] = ask[q]
           /\ \A p \in AskSteps : A!Goto(r, p) => Holds(r, p, ask[r].seen)
           /\ \A p \in AskSteps, f \in Profiles : A!Holding(r, p, f) => Holds(r, p, f)
<1>1. A!Idle \in AskType
  BY IdleAsk
<1>2. ASSUME A!End(r)
      PROVE  /\ ask' \in [Calls -> AskType]
             /\ ask'[r] = A!Idle /\ \A q \in Calls : q # r => ask'[q] = ask[q]
  BY <1>1, <1>2 DEF A!End
<1>3. ASSUME NEW p \in AskSteps, A!Goto(r, p) PROVE Holds(r, p, ask[r].seen)
  BY <1>3 DEF A!Goto, Holds, AskType
<1>4. ASSUME NEW p \in AskSteps, NEW f \in Profiles, A!Holding(r, p, f) PROVE Holds(r, p, f)
  BY <1>4 DEF A!Holding, Holds, AskType
<1> QED
  BY <1>2, <1>3, <1>4


\* One request moves; users.json, once there, remains.
LEMMA Moved ==
    ASSUME AccountsInv, UsersOK', NEW r \in Calls, ask' \in [Calls -> AskType],
           \A q \in Calls : q # r => ask'[q] = ask[q],
           AskOK(ask'[r], disk'), disk # Absent => disk' # Absent
    PROVE  AccountsInv'
<1>1. ASSUME NEW q \in Calls PROVE AskOK(ask'[q], disk')
  <2>1. CASE q = r
    BY <2>1
  <2>2. CASE q # r
    BY <2>2 DEF AccountsInv, AskOK
  <2> QED
    BY <2>1, <2>2
<1> QED
  BY <1>1 DEF AccountsInv

LEMMA Ended ==
    ASSUME AccountsInv, UsersOK', NEW r \in Calls, A!End(r), disk # Absent => disk' # Absent
    PROVE  AccountsInv'
<1>1. /\ ask' \in [Calls -> AskType]
      /\ ask'[r] = A!Idle /\ \A q \in Calls : q # r => ask'[q] = ask[q]
  BY Asking DEF AccountsInv
<1>2. AskOK(ask'[r], disk')
  BY <1>1, IdleAsk
<1> QED
  BY <1>1, <1>2, Moved

\* Request r moves to p with the users f in its hands.
LEMMA MovedTo ==
    ASSUME AccountsInv, UsersOK', NEW r \in Calls, NEW p, NEW f, Holds(r, p, f),
           ask[r].pc # "idle",
           p \in {"read", "write", "fill", "publish"} => Governed(f),
           p = "hash" => (f = A!Nobody \/ Governed(f)) /\ f[ask[r].who] = None,
           p \in {"fill", "publish"} => disk' # Absent,
           disk # Absent => disk' # Absent
    PROVE  AccountsInv'
<1>1. ask[r].who \in Users
  BY DEF AccountsInv, AskOK
<1>2. AskOK(ask'[r], disk')
  BY <1>1 DEF Holds, AskOK
<1> QED
  BY <1>2, Moved DEF Holds

LEMMA AccountsStart == A!Init => AccountsInv
<1> SUFFICES ASSUME A!Init PROVE AccountsInv
  OBVIOUS
<1>1. UsersOK
  BY DEF A!Init, UsersOK
<1>2. ask \in [Calls -> AskType] /\ \A r \in Calls : AskOK(ask[r], disk)
  BY IdleAsk DEF A!Init
<1> QED
  BY <1>1, <1>2 DEF AccountsInv

\* A request decides on the users it looks at.
LEMMA Deciding ==
    ASSUME AccountsInv, UsersOK', NEW r \in Calls, ask[r].pc = "look", users # None,
           A!Decide(r, users), UNCHANGED disk
    PROVE  AccountsInv'
<1> DEFINE f == users  u == ask[r].who  op == ask[r].op
<1>1. u \in Users /\ (f = A!Nobody \/ Governed(f)) /\ f \in Profiles /\ ask \in [Calls -> AskType]
  BY Named DEF AccountsInv, UsersOK, AskOK, Governed
<1>2. f[u] # None => Governed(f)
  BY <1>1 DEF A!Nobody
<1>3. {"hash", "verify", "write"} \subseteq AskSteps
  BY DEF AskSteps
<1>4. CASE A!Holding(r, "hash", f) /\ f[u] = None
  BY <1>1, <1>3, <1>4, Asking, MovedTo
<1>5. CASE A!Holding(r, "verify", f)
  BY <1>1, <1>3, <1>5, Asking, MovedTo
<1>6. CASE A!Holding(r, "write", f) /\ f[u] # None
  BY <1>1, <1>2, <1>3, <1>6, Asking, MovedTo
<1>7. CASE A!Holding(r, "write", A!Change(op, u, f)) /\ f[u] # None
  <2>1. Governed(A!Change(op, u, f))
    BY <1>1, <1>2, <1>7, ChangeGoverned
  <2>2. A!Change(op, u, f) \in Profiles
    BY <2>1 DEF Governed
  <2> HIDE DEF f, u, op
  <2>3. Holds(r, "write", A!Change(op, u, f))
    BY <1>1, <1>3, <1>7, <2>2, Asking
  <2> QED
    BY <2>1, <2>3, MovedTo
<1>8. CASE A!End(r)
  BY <1>8, Ended
<1> QED
  BY <1>4, <1>5, <1>6, <1>7, <1>8 DEF A!Decide

LEMMA AccountsKept == AccountsInv /\ A!Next => AccountsInv'
<1> SUFFICES ASSUME AccountsInv, A!Next PROVE AccountsInv'
  OBVIOUS
<1> USE Named
<1>1. ask \in [Calls -> AskType] /\ UsersOK /\ \A r \in Calls : AskOK(ask[r], disk)
  BY DEF AccountsInv
<1>2. ASSUME UNCHANGED <<users, disk, founded>>
      PROVE  UsersOK' /\ (disk # Absent => disk' # Absent)
  BY <1>1, <1>2 DEF UsersOK
<1>3. ASSUME UNCHANGED <<users, disk, ask, founded>> PROVE AccountsInv'
  BY <1>3 DEF AccountsInv, UsersOK, AskOK
<1>4. ASSUME NEW r \in Calls, NEW u \in Users, NEW by \in Users,
             NEW op \in A!AdminOps \union A!OwnOps \union A!OpenOps, A!Submit(r, op, u, by)
      PROVE  AccountsInv'
  <2> DEFINE p == IF op \in A!AdminOps THEN "admit" ELSE "look"
             k == [pc |-> p, op |-> op, who |-> u, by |-> by, seen |-> None]
  <2>1. ask' = [ask EXCEPT ![r] = k] /\ UNCHANGED <<users, disk, founded>>
    BY <1>4 DEF A!Submit
  <2>2. p \in AskSteps /\ p \in {"admit", "look"}
    BY DEF AskSteps
  <2> HIDE DEF p
  <2>3. k \in AskType /\ k.pc = p /\ k.who = u
    BY <2>2 DEF AskType, AskOps
  <2> HIDE DEF k
  <2>4. ask' \in [Calls -> AskType] /\ ask'[r] = k /\ \A q \in Calls : q # r => ask'[q] = ask[q]
    BY <1>1, <2>1, <2>3
  <2>5. AskOK(k, disk')
    BY <2>2, <2>3 DEF AskOK
  <2> QED
    BY <1>2, <2>1, <2>4, <2>5, Moved
<1>5. ASSUME NEW u \in Users, A!Logout(u) PROVE AccountsInv'
  BY <1>3, <1>5 DEF A!Logout
<1>6. ASSUME NEW r \in Calls PROVE A!NoFile(r) => AccountsInv'
  <2> SUFFICES ASSUME A!NoFile(r) PROVE AccountsInv'
    OBVIOUS
  <2>1. users' = A!Nobody /\ disk = Absent /\ UNCHANGED <<disk, ask, founded>>
    BY DEF A!NoFile
  <2>2. UsersOK'
    BY <1>1, <2>1 DEF UsersOK
  <2> QED
    BY <1>1, <2>1, <2>2 DEF AccountsInv, AskOK
<1>7. ASSUME NEW r \in Calls PROVE A!ReadFile(r) => AccountsInv'
  <2> SUFFICES ASSUME A!ReadFile(r) PROVE AccountsInv'
    OBVIOUS
  <2>1. ask[r].pc \in {"admit", "look"} /\ disk # Absent /\ UNCHANGED <<users, disk, founded>>
    BY DEF A!ReadFile
  <2>2. CASE A!End(r)
    BY <1>2, <2>1, <2>2, Ended
  <2>3. CASE A!Holding(r, "read", disk) /\ disk \notin {Empty, Torn}
    <3>1. Governed(disk) /\ disk \in Profiles /\ "read" \in AskSteps
      BY <1>1, <2>1, <2>3 DEF UsersOK, Governed, AskSteps
    <3> QED
      BY <1>1, <1>2, <2>1, <2>3, <3>1, Asking, MovedTo
  <2> QED
    BY <2>2, <2>3 DEF A!ReadFile
<1>8. ASSUME NEW r \in Calls PROVE A!Loaded(r) => AccountsInv'
  <2> SUFFICES ASSUME A!Loaded(r) PROVE AccountsInv'
    OBVIOUS
  <2> DEFINE p == IF ask[r].op \in A!AdminOps THEN "admit" ELSE "look"
  <2>1. users' = ask[r].seen /\ A!Goto(r, p) /\ ask[r].pc = "read" /\ UNCHANGED <<disk, founded>>
    BY DEF A!Loaded, A!At
  <2>2. p \in {"admit", "look"} /\ p \in AskSteps
    BY DEF AskSteps
  <2> HIDE DEF p
  <2>3. Governed(ask[r].seen)
    BY <1>1, <2>1 DEF AskOK
  <2>4. UsersOK'
    BY <1>1, <2>1, <2>3 DEF UsersOK
  <2>5. Holds(r, p, ask[r].seen)
    BY <1>1, <2>1, <2>2, Asking
  <2> QED
    BY <2>1, <2>2, <2>4, <2>5, MovedTo
<1>9. ASSUME NEW r \in Calls PROVE A!Admit(r) => AccountsInv'
  <2> SUFFICES ASSUME A!Admit(r) PROVE AccountsInv'
    OBVIOUS
  <2>1. ask[r].pc = "admit" /\ UNCHANGED <<users, disk, founded>>
    BY DEF A!Admit, A!At
  <2>2. CASE A!End(r)
    BY <1>2, <2>1, <2>2, Ended
  <2>3. CASE A!Goto(r, "look")
    <3>1. Holds(r, "look", ask[r].seen)
      BY <1>1, <2>3, Asking DEF AskSteps
    <3> QED
      BY <1>2, <2>1, <3>1, MovedTo
  <2> QED
    BY <2>2, <2>3 DEF A!Admit
<1>10. ASSUME NEW r \in Calls PROVE A!Look(r) => AccountsInv'
  BY <1>2, Deciding DEF A!Look, A!At
<1>11. ASSUME NEW r \in Calls PROVE A!Hashed(r) => AccountsInv'
  <2> SUFFICES ASSUME A!Hashed(r) PROVE AccountsInv'
    OBVIOUS
  <2> DEFINE f == ask[r].seen
             new == IF f = A!Nobody THEN [role |-> "admin", status |-> "active"]
                    ELSE [role |-> "member", status |-> "pending"]
             g == [f EXCEPT ![ask[r].who] = new]
  <2>1. ask[r].pc = "hash" /\ A!Holding(r, "write", g) /\ UNCHANGED <<users, disk, founded>>
    BY DEF A!Hashed, A!At
  <2>2. ask[r].who \in Users /\ (f = A!Nobody \/ Governed(f)) /\ f[ask[r].who] = None
    BY <1>1, <2>1 DEF AskOK
  <2>3. new \in Account /\ (f = A!Nobody => new.role = "admin")
    BY DEF Account
  <2> HIDE DEF f, new
  <2>4. Governed(g)
    BY <2>2, <2>3, RegisterGoverned
  <2>5. g \in Profiles /\ "write" \in AskSteps
    BY <2>4 DEF Governed, AskSteps
  <2> HIDE DEF g
  <2>6. Holds(r, "write", g)
    BY <1>1, <2>1, <2>5, Asking
  <2> QED
    BY <1>2, <2>1, <2>4, <2>6, MovedTo
<1>12. ASSUME NEW r \in Calls PROVE A!Verified(r) => AccountsInv'
  BY <1>2, Ended DEF A!Verified
<1>13. ASSUME NEW r \in Calls PROVE A!Truncate(r) => AccountsInv'
  <2> SUFFICES ASSUME A!Truncate(r) PROVE AccountsInv'
    OBVIOUS
  <2>1. ask[r].pc = "write" /\ disk' = Empty /\ A!Goto(r, "fill") /\ UNCHANGED <<users, founded>>
    BY DEF A!Truncate, A!At
  <2>2. UsersOK' /\ Governed(ask[r].seen)
    BY <1>1, <2>1 DEF UsersOK, AskOK
  <2>3. Holds(r, "fill", ask[r].seen)
    BY <1>1, <2>1, Asking DEF AskSteps
  <2> QED
    BY <2>1, <2>2, <2>3, MovedTo
<1>14. ASSUME NEW r \in Calls, NEW mixed \in BOOLEAN PROVE A!Fill(r, mixed) => AccountsInv'
  <2> SUFFICES ASSUME A!Fill(r, mixed) PROVE AccountsInv'
    OBVIOUS
  <2>1. ask[r].pc = "fill" /\ disk' = (IF mixed THEN Torn ELSE ask[r].seen)
        /\ A!Goto(r, "publish") /\ UNCHANGED <<users, founded>>
    BY DEF A!Fill, A!At
  <2>2. Governed(ask[r].seen)
    BY <1>1, <2>1 DEF AskOK
  <2>3. disk' # Absent
    BY <2>1, <2>2 DEF Governed
  <2>4. UsersOK'
    BY <1>1, <2>1, <2>2, <2>3 DEF UsersOK
  <2>5. Holds(r, "publish", ask[r].seen)
    BY <1>1, <2>1, Asking DEF AskSteps
  <2> QED
    BY <2>1, <2>2, <2>3, <2>4, <2>5, MovedTo
<1>15. ASSUME NEW r \in Calls PROVE A!Publish(r) => AccountsInv'
  <2> SUFFICES ASSUME A!Publish(r) PROVE AccountsInv'
    OBVIOUS
  <2>1. ask[r].pc = "publish" /\ users' = ask[r].seen /\ founded' = TRUE /\ UNCHANGED disk
    BY DEF A!Publish, A!At
  <2>2. Governed(ask[r].seen) /\ disk # Absent
    BY <1>1, <2>1 DEF AskOK
  <2>3. UsersOK'
    BY <1>1, <2>1, <2>2 DEF UsersOK
  <2>4. CASE A!End(r)
    BY <2>1, <2>3, <2>4, Ended
  <2>5. CASE A!Goto(r, "welcome")
    <3>1. Holds(r, "welcome", ask[r].seen)
      BY <1>1, <2>5, Asking DEF AskSteps
    <3> QED
      BY <2>1, <2>3, <3>1, MovedTo
  <2> QED
    BY <2>4, <2>5 DEF A!Publish
<1>16. ASSUME NEW r \in Calls PROVE A!Welcome(r) => AccountsInv'
  BY <1>2, Ended DEF A!Welcome
<1>17. CASE A!Save
  BY <1>3, <1>17 DEF A!Save
<1>18. CASE A!Restart
  <2>1. users' = None /\ ask' = [r \in Calls |-> A!Idle] /\ UNCHANGED <<disk, founded>>
    BY <1>18 DEF A!Restart
  <2>2. UsersOK'
    BY <1>1, <2>1 DEF UsersOK
  <2>3. ask' \in [Calls -> AskType] /\ \A r \in Calls : AskOK(ask'[r], disk')
    BY <2>1, IdleAsk
  <2> QED
    BY <2>2, <2>3 DEF AccountsInv
<1> QED
  BY <1>4, <1>5, <1>6, <1>7, <1>8, <1>9, <1>10, <1>11, <1>12, <1>13, <1>14, <1>15, <1>16, <1>17,
     <1>18 DEF A!Next

\* auth.ts: however requests overlap, and whatever users a request had seen
\* when it wrote them back, there is an admin among the users the server knows
\* and among those it would find after a restart, once somebody registered.
THEOREM AdminRemains == ServicesSpec => []AlwaysAnAdmin
<1>1. ServicesInit => AccountsInv
  BY AccountsStart DEF ServicesInit
<1>2. AccountsInv /\ [ServicesNext]_<<focus, vars, accounts, tokens, chat>> => AccountsInv'
  <2> SUFFICES ASSUME AccountsInv, [ServicesNext]_<<focus, vars, accounts, tokens, chat>>
               PROVE  AccountsInv'
    OBVIOUS
  <2>1. CASE A!Next
    BY <2>1, AccountsKept
  <2>2. CASE UNCHANGED accounts
    BY <2>2 DEF AccountsInv, UsersOK, AskOK, accounts
  <2> QED
    BY <2>1, <2>2 DEF ServicesNext
<1>3. AccountsInv => AlwaysAnAdmin
  BY Named DEF AccountsInv, UsersOK, AlwaysAnAdmin, A!AlwaysAnAdmin, Governed
<1> QED
  BY <1>1, <1>2, <1>3, PTL DEF ServicesSpec

----------------------------------------------------------------------------
(***************************************************************************)
(* The API tokens.  While no read overlaps and no write is torn, one call  *)
(* at a time is beyond the queue to change the tokens; the cache never     *)
(* becomes another object until the server restarts, and the file is what  *)
(* that object was when somebody last finished a write.                    *)
(***************************************************************************)
TokenSteps == {"idle", "queued", "look", "reading", "act", "write", "fill"}
TokenOps == {"create", "revoke", "resolve", "list", "touch"}

RequestType == [pc : TokenSteps, op : TokenOps \union {"none"}, tok : {None} \union Texts,
                obj : {None} \union Calls, snap : {None} \union SUBSET Texts]

Readable == file \notin {Absent, Empty}

TokenTypes ==
    /\ cached \in {None} \union Calls
    /\ heap \in [Calls -> SUBSET Texts]
    /\ Readable => file \in SUBSET Texts
    /\ queue \in Seq(Calls)
    /\ request \in [Calls -> RequestType]
    /\ used \in SUBSET Texts /\ live \in SUBSET used /\ gone \in SUBSET used

\* Call k is beyond the queue and changes the tokens.
Changing(k) == T!Changes(k.op) /\ k.pc \notin {"idle", "queued"}

In(s, r) == \E i \in DOMAIN s : s[i] = r

\* Call r, standing at k, while s is the queue and u are the tokens in use:
\* whoever changes the tokens is the first.
LineAt(r, k, s, u) ==
    /\ k.pc = "idle" => k.op = "none"
    /\ k.pc # "idle" => k.op # "none" /\ k.tok \in u
    /\ k.pc = "queued" => T!Changes(k.op) /\ In(s, r)
    /\ k.pc \in {"write", "fill"} => T!Changes(k.op)
    /\ Changing(k) => s # <<>> /\ Head(s) = r

LineOK == \A r \in Calls : LineAt(r, request[r], queue, used)

\* Nobody else has to do with a token before its creation is answered.
FreshOK == \A r \in Calls :
    /\ request[r].op = "create" =>
          /\ request[r].tok \notin live \union gone
          /\ \A q \in Calls \ {r} : request[q].op # "none" => request[q].tok # request[r].tok
    /\ request[r].op = "revoke" => request[r].tok \notin live

\* The object a call has in its hands is the cache c; h are the objects, f
\* is the file.
ObjectAt(r, k, c, h, f) ==
    /\ k.pc = "reading" => c = None /\ f \notin {Absent, Empty} /\ h[r] = f
    /\ k.pc \in {"act", "write", "fill"} => c # None /\ k.obj = c
    /\ k.pc \in {"write", "fill"} =>
          /\ k.op = "create" => k.tok \in h[c]
          /\ k.op = "revoke" => k.tok \notin h[c]
    /\ k.pc = "fill" => k.snap = h[c]

ObjectOK ==
    /\ \A r \in Calls : ObjectAt(r, request[r], cached, heap, file)
    /\ \A r, q \in Calls : request[r].pc = "reading" /\ request[q].pc = "reading" => r = q

\* What the file and the cache may be, while l are good and g are gone.
Good(S, l, g) == l \subseteq S /\ g \intersect S = {}

FileOK ==
    /\ file = Absent => live = {} /\ gone = {}
    /\ file = Empty => \E r \in Calls : request[r].pc = "fill"
    /\ Readable => Good(file, live, gone)
    /\ cached # None => Good(heap[cached], live, gone)

TokensInv == TokenTypes /\ LineOK /\ FreshOK /\ ObjectOK /\ FileOK

\* What the named tokens, files and calls are not.
LEMMA TokenNames ==
    /\ None \notin Calls /\ Absent # Empty /\ None \notin {Absent, Empty}
    /\ \A S \in SUBSET Texts : S # Absent /\ S # Empty
  BY ServicesAssumption

LEMMA InQueue ==
    ASSUME NEW s \in Seq(Calls), NEW r \in Calls
    PROVE  /\ Append(s, r) \in Seq(Calls) /\ In(Append(s, r), r)
           /\ \A q : In(s, q) => In(Append(s, r), q)
           /\ s # <<>> => Append(s, r) # <<>> /\ Head(Append(s, r)) = Head(s)
           /\ s # <<>> => Tail(s) \in Seq(Calls)
           /\ s # <<>> => \A q : q # Head(s) /\ In(s, q) => In(Tail(s), q)
<1>1. /\ Append(s, r) \in Seq(Calls) /\ Len(Append(s, r)) = Len(s) + 1
      /\ Append(s, r)[Len(s) + 1] = r
      /\ \A i \in 1..Len(s) : Append(s, r)[i] = s[i]
      /\ DOMAIN s = 1..Len(s) /\ DOMAIN Append(s, r) = 1..(Len(s) + 1) /\ Len(s) \in Nat
  OBVIOUS
<1>2. In(Append(s, r), r) /\ \A q : In(s, q) => In(Append(s, r), q)
  BY <1>1 DEF In
<1>3. ASSUME s # <<>> PROVE Append(s, r) # <<>> /\ Head(Append(s, r)) = Head(s)
  BY <1>1, <1>3
<1>4. ASSUME s # <<>> PROVE Tail(s) \in Seq(Calls)
  BY <1>4
<1>5. ASSUME s # <<>>, NEW q, q # Head(s), In(s, q) PROVE In(Tail(s), q)
  <2>1. PICK i \in 1..Len(s) : s[i] = q
    BY <1>1, <1>5 DEF In
  <2>2. i # 1 /\ i \in Nat /\ i >= 1
    BY <1>5, <2>1
  <2>3. i - 1 \in 1..Len(Tail(s)) /\ Tail(s)[i - 1] = s[i] /\ DOMAIN Tail(s) = 1..Len(Tail(s))
    BY <1>1, <1>4, <1>5, <2>1, <2>2
  <2> QED
    BY <2>1, <2>3 DEF In
<1> QED
  BY <1>1, <1>2, <1>3, <1>4, <1>5

\* Nobody's row changes but r's.
Only(r) ==
    /\ request' \in [Calls -> RequestType]
    /\ \A q \in Calls \ {r} : request'[q] = request[q]

\* Call r moves to step p with the same token in mind.
OnTo(r, p) ==
    /\ Only(r) /\ request'[r].pc = p
    /\ request'[r].op = request[r].op /\ request'[r].tok = request[r].tok

LEMMA IdleRequest ==
    /\ T!Idle \in RequestType /\ T!Idle.pc = "idle" /\ T!Idle.op = "none"
    /\ \A r, s, u : LineAt(r, T!Idle, s, u)
    /\ \A r, c, h, f : ObjectAt(r, T!Idle, c, h, f)
<1> DEFINE k == T!Idle
<1>1. k = [pc |-> "idle", op |-> "none", tok |-> None, obj |-> None, snap |-> None]
  BY DEF T!Idle
<1>2. "idle" \in TokenSteps
  BY DEF TokenSteps
<1>3. k.pc = "idle" /\ k.op = "none"
  BY <1>1
<1>4. k \in RequestType
  BY <1>1, <1>2 DEF RequestType
<1> HIDE DEF k
<1>5. \A r, s, u : LineAt(r, k, s, u)
  BY <1>3 DEF LineAt, Changing, T!Changes
<1>6. \A r, c, h, f : ObjectAt(r, k, c, h, f)
  BY <1>3 DEF ObjectAt
<1> QED
  BY <1>3, <1>4, <1>5, <1>6 DEF k

LEMMA Going ==
    ASSUME TokenTypes, NEW r \in Calls, NEW p \in TokenSteps, T!Goto(r, p)
    PROVE  /\ OnTo(r, p)
           /\ request'[r].obj = request[r].obj /\ request'[r].snap = request[r].snap
  BY DEF TokenTypes, T!Goto, OnTo, Only, RequestType

\* At most one call changes the tokens.
LEMMA OneChanges ==
    ASSUME LineOK, NEW r \in Calls, NEW q \in Calls, Changing(request[r]), Changing(request[q])
    PROVE  r = q
  BY DEF LineOK, LineAt

\* What r stands at may change, and r may queue up.
LEMMA LineFrame ==
    ASSUME TokensInv, NEW r \in Calls, Only(r), used \subseteq used',
           queue' = queue \/ queue' = Append(queue, r),
           LineAt(r, request'[r], queue', used')
    PROVE  LineOK'
<1>1. queue \in Seq(Calls)
  BY DEF TokensInv, TokenTypes
<1>2. ASSUME NEW q \in Calls PROVE LineAt(q, request'[q], queue', used')
  <2>1. CASE q = r
    BY <2>1
  <2>2. CASE q # r
    <3>1. request'[q] = request[q] /\ LineAt(q, request[q], queue, used)
      BY <2>2 DEF Only, TokensInv, LineOK
    <3>2. In(queue, q) => In(queue', q)
      BY <1>1, InQueue
    <3>3. queue # <<>> => queue' # <<>> /\ Head(queue') = Head(queue)
      BY <1>1, InQueue
    <3> QED
      BY <3>1, <3>2, <3>3 DEF LineAt
  <2> QED
    BY <2>1, <2>2
<1> QED
  BY <1>2 DEF LineOK

LEMMA FreshFrame ==
    ASSUME TokensInv, NEW r \in Calls, Only(r), UNCHANGED <<live, gone>>,
           \/ request'[r].op = "none"
           \/ /\ request'[r].tok = request[r].tok /\ request[r].op # "none"
              /\ request'[r].op \in {request[r].op, "touch"}
    PROVE  FreshOK'
<1>1. FreshOK
  BY DEF TokensInv
<1>2. \A q \in Calls : request'[q].op # "none" =>
         request[q].op # "none" /\ request'[q].tok = request[q].tok
  BY DEF Only
<1>3. \A q \in Calls : request'[q].op \in {"create", "revoke"} => request[q].op = request'[q].op
  BY DEF Only
<1> QED
  BY <1>1, <1>2, <1>3 DEF FreshOK

LEMMA ObjectFrame ==
    ASSUME TokensInv, NEW r \in Calls, Only(r), UNCHANGED <<cached, heap, file>>,
           ObjectAt(r, request'[r], cached, heap, file), request'[r].pc # "reading"
    PROVE  ObjectOK'
<1>1. ASSUME NEW q \in Calls PROVE ObjectAt(q, request'[q], cached', heap', file')
  <2>1. CASE q = r
    BY <2>1
  <2>2. CASE q # r
    BY <2>2 DEF Only, TokensInv, ObjectOK
  <2> QED
    BY <2>1, <2>2
<1>2. ASSUME NEW p \in Calls, NEW q \in Calls, request'[p].pc = "reading", request'[q].pc = "reading"
      PROVE  p = q
  BY <1>2 DEF Only, TokensInv, ObjectOK
<1> QED
  BY <1>1, <1>2 DEF ObjectOK

LEMMA FileFrame ==
    ASSUME TokensInv, NEW r \in Calls, Only(r), UNCHANGED <<cached, heap, file, live, gone>>,
           request[r].pc = "fill" => request'[r].pc = "fill"
    PROVE  FileOK'
<1>1. FileOK
  BY DEF TokensInv
<1>2. file' = Empty => \E q \in Calls : request'[q].pc = "fill"
  BY <1>1 DEF FileOK, Only
<1> QED
  BY <1>1, <1>2 DEF FileOK, Readable

\* The one in front leaves; who waits, waits on.
LEMMA Leaving ==
    ASSUME TokensInv, NEW r \in Calls, request[r].pc \notin {"idle", "queued"}, T!Leave(r),
           used' = used
    PROVE  /\ Only(r) /\ request'[r] = T!Idle
           /\ queue' \in Seq(Calls) /\ LineOK'
<1>1. /\ queue \in Seq(Calls) /\ request \in [Calls -> RequestType] /\ LineOK
      /\ LineAt(r, request[r], queue, used)
  BY DEF TokensInv, TokenTypes, LineOK
<1>2. Only(r) /\ request'[r] = T!Idle
  BY <1>1, IdleRequest DEF T!Leave, Only
<1>3. CASE Changing(request[r])
  <2>1. queue # <<>> /\ Head(queue) = r /\ queue' = Tail(queue)
    BY <1>1, <1>3 DEF LineAt, Changing, T!Leave
  <2>2. ASSUME NEW q \in Calls PROVE LineAt(q, request'[q], queue', used')
    <3>1. CASE q = r
      BY <1>2, <3>1, IdleRequest
    <3>2. CASE q # r
      <4>1. request'[q] = request[q] /\ LineAt(q, request[q], queue, used)
        BY <1>1, <1>2, <3>2 DEF Only, LineOK
      <4>2. ~Changing(request[q])
        BY <1>1, <1>3, <3>2, OneChanges
      <4>3. In(queue, q) => In(queue', q)
        BY <1>1, <2>1, <3>2, InQueue
      <4> QED
        BY <4>1, <4>2, <4>3 DEF LineAt
    <3> QED
      BY <3>1, <3>2
  <2> QED
    BY <1>1, <1>2, <2>1, <2>2, InQueue DEF LineOK
<1>4. CASE ~Changing(request[r])
  <2>1. queue' = queue
    BY <1>4 DEF Changing, T!Leave
  <2>2. LineAt(r, request'[r], queue', used')
    BY <1>2, IdleRequest
  <2> QED
    BY <1>1, <1>2, <2>1, <2>2, LineFrame
<1> QED
  BY <1>3, <1>4


\* The facts every step starts from.
LEMMA Standing ==
    ASSUME TokensInv, NEW r \in Calls
    PROVE  /\ request \in [Calls -> RequestType] /\ request[r] \in RequestType
           /\ LineAt(r, request[r], queue, used)
           /\ ObjectAt(r, request[r], cached, heap, file)
           /\ queue \in Seq(Calls) /\ heap \in [Calls -> SUBSET Texts]
  BY DEF TokensInv, TokenTypes, LineOK, ObjectOK

LEMMA AskKeeps ==
    ASSUME TokensInv, NEW r \in Calls, NEW op \in {"create", "revoke", "resolve", "list"},
           NEW t \in Texts, T!Ask(r, op, t)
    PROVE  TokensInv'
<1> DEFINE p == IF T!Changes(op) THEN "queued" ELSE "look"
           k == [T!Idle EXCEPT !.pc = p, !.op = op, !.tok = t]
<1>1. /\ request[r].pc = "idle"
      /\ op = "create" <=> t \notin used
      /\ \A q \in Calls : request[q].op = "create" => request[q].tok # t
      /\ request' = [request EXCEPT ![r] = k]
      /\ queue' = (IF T!Changes(op) THEN Append(queue, r) ELSE queue)
      /\ used' = used \union {t}
      /\ live' = (IF op = "revoke" THEN live \ {t} ELSE live)
      /\ UNCHANGED <<cached, heap, file, gone>>
  BY DEF T!Ask, T!At
<1>2. p \in TokenSteps /\ p \in {"queued", "look"} /\ (p = "queued" <=> T!Changes(op))
  BY DEF TokenSteps
<1> HIDE DEF p
<1>3. k \in RequestType /\ k.pc = p /\ k.op = op /\ k.tok = t
  BY <1>2, IdleRequest DEF RequestType, TokenOps
<1> HIDE DEF k
<1>4. Only(r) /\ request'[r] = k
  BY <1>1, <1>3, Standing DEF Only
<1>5. TokenTypes'
  <2>1. queue' \in Seq(Calls)
    BY <1>1, Standing, InQueue
  <2> QED
    BY <1>1, <1>4, <2>1 DEF TokensInv, TokenTypes, Only, Readable
<1>6. LineOK'
  <2>1. LineAt(r, k, queue', used')
    <3>1. T!Changes(op) => In(queue', r)
      BY <1>1, Standing, InQueue
    <3> QED
      BY <1>1, <1>2, <1>3, <3>1 DEF LineAt, Changing
  <2> QED
    BY <1>1, <1>4, <2>1, LineFrame
<1>7. FreshOK'
  <2>1. /\ FreshOK /\ live \subseteq used /\ gone \subseteq used
        /\ live' \subseteq live /\ gone' = gone
    BY <1>1 DEF TokensInv, TokenTypes
  <2>2. \A q \in Calls : request[q].op # "none" => request[q].tok \in used
    BY DEF TokensInv, LineOK, LineAt
  <2>3. ASSUME NEW q \in Calls, request'[q].op = "create"
        PROVE  /\ request'[q].tok \notin live' \union gone'
               /\ \A s \in Calls \ {q} : request'[s].op # "none" => request'[s].tok # request'[q].tok
    <3>1. CASE q = r
      <4>1. op = "create" /\ t \notin used /\ request'[q].tok = t
        BY <1>1, <1>3, <1>4, <2>3, <3>1
      <4> QED
        BY <1>4, <2>1, <2>2, <3>1, <4>1 DEF Only
    <3>2. CASE q # r
      <4>1. request'[q] = request[q] /\ request[q].tok # t
        BY <1>1, <1>4, <2>3, <3>2 DEF Only
      <4> QED
        BY <1>3, <1>4, <2>1, <2>3, <3>2, <4>1 DEF FreshOK, Only
    <3> QED
      BY <3>1, <3>2
  <2>4. ASSUME NEW q \in Calls, request'[q].op = "revoke" PROVE request'[q].tok \notin live'
    BY <1>1, <1>3, <1>4, <2>1, <2>4 DEF FreshOK, Only
  <2> QED
    BY <2>3, <2>4 DEF FreshOK
<1>8. ObjectOK'
  <2>1. ObjectAt(r, k, cached, heap, file)
    BY <1>2, <1>3 DEF ObjectAt
  <2> QED
    BY <1>1, <1>2, <1>3, <1>4, <2>1, ObjectFrame
<1>9. FileOK'
  <2>1. FileOK /\ live' \subseteq live
    BY <1>1 DEF TokensInv
  <2>2. file' = Empty => \E q \in Calls : request'[q].pc = "fill"
    BY <1>1, <1>4, <2>1 DEF FileOK, Only
  <2> QED
    BY <1>1, <2>1, <2>2 DEF FileOK, Good, Readable
<1> QED
  BY <1>5, <1>6, <1>7, <1>8, <1>9 DEF TokensInv

LEMMA StartKeeps ==
    ASSUME TokensInv, NEW r \in Calls, T!Start(r)
    PROVE  TokensInv'
<1>1. /\ request[r].pc = "queued" /\ Head(queue) = r /\ T!Goto(r, "look")
      /\ UNCHANGED <<cached, heap, file, queue, used, live, gone>>
  BY DEF T!Start, T!At
<1>2. OnTo(r, "look")
  BY <1>1, Going DEF TokensInv, TokenSteps
<1>3. queue # <<>>
  <2>1. In(queue, r)
    BY <1>1, Standing DEF LineAt
  <2> QED
    BY <2>1 DEF In
<1>4. LineAt(r, request'[r], queue, used) /\ ObjectAt(r, request'[r], cached, heap, file)
  BY <1>1, <1>2, <1>3, Standing DEF OnTo, LineAt, ObjectAt, Changing
<1>5. TokenTypes'
  BY <1>1, <1>2 DEF TokensInv, TokenTypes, OnTo, Only, Readable
<1>6. request[r].op # "none"
  BY <1>1, Standing DEF LineAt
<1> QED
  BY <1>1, <1>2, <1>4, <1>5, <1>6, LineFrame, FreshFrame, ObjectFrame, FileFrame
     DEF TokensInv, OnTo

LEMMA NoFileKeeps ==
    ASSUME TokensInv, NEW r \in Calls, T!NoFile(r)
    PROVE  TokensInv'
<1>1. /\ request[r].pc = "look" /\ cached = None /\ file = Absent
      /\ heap' = [heap EXCEPT ![r] = {}] /\ cached' = r
      /\ UNCHANGED <<file, queue, request, used, live, gone>>
  BY DEF T!NoFile, T!At
<1>2. heap' \in [Calls -> SUBSET Texts] /\ heap'[r] = {}
  BY <1>1, Standing
<1>3. TokenTypes'
  BY <1>1, <1>2 DEF TokensInv, TokenTypes, Readable
<1>4. LineOK' /\ FreshOK'
  BY <1>1 DEF TokensInv, LineOK, FreshOK
<1>5. ObjectOK'
  <2>1. \A q \in Calls : request[q].pc \notin {"reading", "act", "write", "fill"}
    BY <1>1 DEF TokensInv, ObjectOK, ObjectAt
  <2> QED
    BY <1>1, <2>1 DEF ObjectOK, ObjectAt
<1>6. FileOK'
  <2>1. FileOK
    BY DEF TokensInv
  <2>2. live = {} /\ gone = {} /\ cached' # None
    BY <1>1, <2>1, TokenNames DEF FileOK
  <2> QED
    BY <1>1, <1>2, <2>1, <2>2, TokenNames DEF FileOK, Good, Readable
<1> QED
  BY <1>3, <1>4, <1>5, <1>6 DEF TokensInv

\* Without a cache nobody fills the file, so a file that is there is whole.
LEMMA ReadKeeps ==
    ASSUME TokensInv, ~SlowReads, NEW r \in Calls, T!Read(r)
    PROVE  TokensInv'
<1>1. /\ request[r].pc = "look" /\ cached = None /\ file # Absent
      /\ \A q \in Calls : request[q].pc # "reading"
      /\ heap' = [heap EXCEPT ![r] = IF file = Empty THEN {} ELSE file]
      /\ T!Goto(r, "reading")
      /\ UNCHANGED <<cached, file, queue, used, live, gone>>
  BY DEF T!Read, T!At, T!Free, T!Reading
<1>2. OnTo(r, "reading")
  BY <1>1, Going DEF TokensInv, TokenSteps
<1>3. \A q \in Calls : request[q].pc \notin {"act", "write", "fill"}
  BY <1>1 DEF TokensInv, ObjectOK, ObjectAt
<1>4. file # Empty /\ file \in SUBSET Texts
  <2>1. file # Empty
    BY <1>3 DEF TokensInv, FileOK
  <2> QED
    BY <1>1, <2>1 DEF TokensInv, TokenTypes, Readable
<1>5. heap' \in [Calls -> SUBSET Texts] /\ heap'[r] = file
  BY <1>1, <1>4, Standing
<1>6. TokenTypes'
  BY <1>1, <1>2, <1>5 DEF TokensInv, TokenTypes, OnTo, Only, Readable
<1>7. LineAt(r, request'[r], queue, used) /\ request[r].op # "none"
  BY <1>1, <1>2, Standing DEF OnTo, LineAt, Changing
<1>8. LineOK' /\ FreshOK'
  BY <1>1, <1>2, <1>7, LineFrame, FreshFrame DEF OnTo
<1>9. ObjectOK'
  <2>1. \A q \in Calls \ {r} : request'[q].pc \notin {"reading", "act", "write", "fill"}
    BY <1>1, <1>2, <1>3 DEF OnTo, Only
  <2>2. ASSUME NEW q \in Calls PROVE ObjectAt(q, request'[q], cached', heap', file')
    BY <1>1, <1>2, <1>4, <1>5, <2>1 DEF OnTo, ObjectAt
  <2>3. \A p, q \in Calls : request'[p].pc = "reading" /\ request'[q].pc = "reading" => p = q
    BY <2>1
  <2> QED
    BY <2>2, <2>3 DEF ObjectOK
<1>10. FileOK'
  BY <1>1, <1>4 DEF TokensInv, FileOK, Readable
<1> QED
  BY <1>6, <1>8, <1>9, <1>10 DEF TokensInv

\* A call takes the object o in its hands.
LEMMA Taking ==
    ASSUME request \in [Calls -> RequestType], NEW r \in Calls, NEW o \in Calls,
           request' = [request EXCEPT ![r].pc = "act", ![r].obj = o]
    PROVE  OnTo(r, "act") /\ request'[r].obj = o
<1> DEFINE k == [request[r] EXCEPT !.pc = "act", !.obj = o]
<1>1. request[r] \in RequestType /\ "act" \in TokenSteps
  BY DEF TokenSteps
<1>2. k \in RequestType /\ k.pc = "act" /\ k.obj = o /\ k.op = request[r].op /\ k.tok = request[r].tok
  BY <1>1 DEF RequestType
<1>3. request' = [request EXCEPT ![r] = k]
  OBVIOUS
<1> HIDE DEF k
<1>4. request'[r] = k /\ \A q \in Calls \ {r} : request'[q] = request[q]
  BY <1>3
<1>5. request' \in [Calls -> RequestType]
  BY <1>2, <1>3
<1> QED
  BY <1>2, <1>4, <1>5 DEF OnTo, Only

LEMMA ParsedKeeps ==
    ASSUME TokensInv, NEW r \in Calls, T!Parsed(r)
    PROVE  TokensInv'
<1>1. /\ request[r].pc = "reading" /\ cached' = r
      /\ request' = [request EXCEPT ![r].pc = "act", ![r].obj = r]
      /\ UNCHANGED <<heap, file, queue, used, live, gone>>
  BY DEF T!Parsed, T!At
<1>2. OnTo(r, "act") /\ request'[r].obj = r
  BY <1>1, Standing, Taking
<1>3. /\ cached = None /\ Readable /\ heap[r] = file
      /\ \A q \in Calls : request[q].pc = "reading" => q = r
  BY <1>1 DEF TokensInv, ObjectOK, ObjectAt, Readable
<1>4. TokenTypes'
  BY <1>1, <1>2 DEF TokensInv, TokenTypes, OnTo, Only, Readable
<1>5. LineAt(r, request'[r], queue, used) /\ request[r].op # "none"
  BY <1>1, <1>2, Standing DEF OnTo, LineAt, Changing
<1>6. LineOK' /\ FreshOK'
  BY <1>1, <1>2, <1>5, LineFrame, FreshFrame DEF OnTo
<1>7. ObjectOK'
  <2>1. \A q \in Calls \ {r} : request'[q].pc \notin {"reading", "act", "write", "fill"}
    BY <1>2, <1>3 DEF OnTo, Only, TokensInv, ObjectOK, ObjectAt
  <2>2. ASSUME NEW q \in Calls PROVE ObjectAt(q, request'[q], cached', heap', file')
    BY <1>1, <1>2, <2>1, TokenNames DEF OnTo, ObjectAt
  <2> QED
    BY <1>2, <2>1, <2>2 DEF ObjectOK, OnTo
<1>8. FileOK'
  BY <1>1, <1>3 DEF TokensInv, FileOK, Readable
<1> QED
  BY <1>4, <1>6, <1>7, <1>8 DEF TokensInv

LEMMA CachedKeeps ==
    ASSUME TokensInv, NEW r \in Calls, T!Cached(r)
    PROVE  TokensInv'
<1>1. /\ request[r].pc = "look" /\ cached # None
      /\ request' = [request EXCEPT ![r].pc = "act", ![r].obj = cached]
      /\ UNCHANGED <<cached, heap, file, queue, used, live, gone>>
  BY DEF T!Cached, T!At
<1>2. cached \in Calls
  BY <1>1 DEF TokensInv, TokenTypes
<1>3. OnTo(r, "act") /\ request'[r].obj = cached
  BY <1>1, <1>2, Standing, Taking
<1>4. TokenTypes'
  BY <1>1, <1>3 DEF TokensInv, TokenTypes, OnTo, Only, Readable
<1>5. /\ LineAt(r, request'[r], queue, used) /\ request[r].op # "none"
      /\ ObjectAt(r, request'[r], cached, heap, file)
  BY <1>1, <1>3, Standing DEF OnTo, LineAt, ObjectAt, Changing
<1> QED
  BY <1>1, <1>3, <1>4, <1>5, LineFrame, FreshFrame, ObjectFrame, FileFrame
     DEF TokensInv, OnTo


\* A call that is done leaves everything else as it is.
LEMMA LeaveKeeps ==
    ASSUME TokensInv, NEW r \in Calls, request[r].pc \notin {"idle", "queued", "fill"}, T!Leave(r),
           UNCHANGED <<cached, heap, file, used, live, gone>>
    PROVE  TokensInv'
<1>1. Only(r) /\ request'[r] = T!Idle /\ queue' \in Seq(Calls) /\ LineOK'
  BY Leaving
<1>2. request'[r].op = "none" /\ request'[r].pc = "idle"
  BY <1>1, IdleRequest
<1>3. ObjectAt(r, request'[r], cached, heap, file)
  BY <1>1, IdleRequest
<1>4. TokenTypes'
  BY <1>1 DEF TokensInv, TokenTypes, Only, Readable
<1> QED
  BY <1>1, <1>2, <1>3, <1>4, FreshFrame, ObjectFrame, FileFrame DEF TokensInv

LEMMA AlterKeeps ==
    ASSUME TokensInv, NEW r \in Calls, T!Alter(r)
    PROVE  TokensInv'
<1> DEFINE o == request[r].obj  t == request[r].tok  op == request[r].op
           after == CASE op = "create" -> heap[o] \union {t}
                      [] op = "revoke" -> heap[o] \ {t}
                      [] OTHER -> heap[o]
<1>1. /\ request[r].pc = "act" /\ T!Changes(op)
      /\ heap' = [heap EXCEPT ![o] = after]
      /\ UNCHANGED <<cached, file, used, live, gone>>
  BY DEF T!Alter, T!At
<1>2. /\ op # "none" /\ t \in used /\ used \in SUBSET Texts
      /\ cached # None /\ o = cached /\ cached \in Calls
      /\ Changing(request[r]) /\ queue # <<>> /\ Head(queue) = r
  BY <1>1, Standing DEF LineAt, ObjectAt, Changing, TokensInv, TokenTypes
<1>3. CASE op # "create" /\ t \notin heap[o] /\ T!Leave(r)
  <2>1. heap' = heap
    <3>1. after = heap[o]
      BY <1>3
    <3> HIDE DEF after
    <3> QED
      BY <1>1, <1>2, <3>1, Standing
  <2> QED
    BY <1>1, <1>3, <2>1, LeaveKeeps
<1>4. CASE (op = "create" \/ t \in heap[o]) /\ T!Goto(r, "write") /\ UNCHANGED queue
  <2>1. OnTo(r, "write")
    BY <1>4, Going DEF TokensInv, TokenSteps
  <2>2. /\ after \in SUBSET Texts
        /\ op = "create" => after = heap[o] \union {t}
        /\ op = "revoke" => after = heap[o] \ {t}
        /\ op \notin {"create", "revoke"} => after = heap[o]
    BY <1>2, Standing
  <2> HIDE DEF after
  <2>3. heap' \in [Calls -> SUBSET Texts] /\ heap'[cached] = after
    BY <1>1, <1>2, <2>2, Standing
  <2>4. TokenTypes'
    BY <1>1, <1>4, <2>1, <2>3 DEF TokensInv, TokenTypes, OnTo, Only, Readable
  <2>5. LineAt(r, request'[r], queue, used)
    BY <1>1, <1>2, <2>1, Standing DEF OnTo, LineAt, Changing
  <2>6. LineOK' /\ FreshOK'
    BY <1>1, <1>2, <1>4, <2>1, <2>5, LineFrame, FreshFrame DEF OnTo
  <2>7. \A q \in Calls \ {r} : request'[q] = request[q] /\ request[q].pc \notin {"reading", "write", "fill"}
    <3>1. ASSUME NEW q \in Calls \ {r} PROVE request[q].pc \notin {"reading", "write", "fill"}
      <4>1. ~Changing(request[q])
        BY <1>2, OneChanges DEF TokensInv
      <4>2. LineAt(q, request[q], queue, used) /\ ObjectAt(q, request[q], cached, heap, file)
        BY Standing
      <4> QED
        BY <1>2, <4>1, <4>2 DEF LineAt, ObjectAt, Changing
    <3> QED
      BY <2>1, <3>1 DEF OnTo, Only
  <2>8. ObjectOK'
    <3>1. ASSUME NEW q \in Calls PROVE ObjectAt(q, request'[q], cached', heap', file')
      <4>1. CASE q = r
        <5>1. request'[r].obj = cached
          BY <1>2, <1>4, Going DEF TokensInv, TokenSteps
        <5> QED
          BY <1>1, <1>2, <2>1, <2>2, <2>3, <4>1, <5>1 DEF OnTo, ObjectAt
      <4>2. CASE q # r
        <5>1. ObjectAt(q, request[q], cached, heap, file)
          BY Standing
        <5> QED
          BY <1>1, <2>7, <4>2, <5>1 DEF ObjectAt
      <4> QED
        BY <4>1, <4>2
    <3>2. \A p, q \in Calls : request'[p].pc = "reading" /\ request'[q].pc = "reading" => p = q
      BY <2>1, <2>7 DEF OnTo
    <3> QED
      BY <3>1, <3>2 DEF ObjectOK
  <2>9. FileOK'
    <3>1. FileOK
      BY DEF TokensInv
    <3>2. file # Empty
      BY <1>1, <2>7, <3>1 DEF FileOK
    <3>3. (op = "create" => t \notin gone) /\ (op = "revoke" => t \notin live)
      BY DEF TokensInv, FreshOK
    <3>4. Good(after, live, gone)
      BY <1>2, <2>2, <3>1, <3>3 DEF FileOK, Good
    <3> QED
      BY <1>1, <2>3, <3>1, <3>2, <3>4 DEF FileOK, Readable
  <2> QED
    BY <2>4, <2>6, <2>8, <2>9 DEF TokensInv
<1> HIDE DEF after
<1> QED
  BY <1>3, <1>4 DEF T!Alter

LEMMA ResolveKeeps ==
    ASSUME TokensInv, NEW r \in Calls, T!Resolve(r)
    PROVE  TokensInv'
<1>1. /\ request[r].pc = "act" /\ ~T!Changes(request[r].op)
      /\ UNCHANGED <<cached, heap, file, used, live, gone>>
  BY DEF T!Resolve, T!At
<1>2. CASE T!Leave(r)
  BY <1>1, <1>2, LeaveKeeps
<1>3. CASE /\ request' = [request EXCEPT ![r].op = "touch", ![r].pc = "queued"]
           /\ queue' = Append(queue, r)
  <2> DEFINE k == [request[r] EXCEPT !.op = "touch", !.pc = "queued"]
  <2>0. request[r] \in RequestType /\ "queued" \in TokenSteps /\ "touch" \in TokenOps
    BY Standing DEF TokenSteps, TokenOps
  <2>1. k \in RequestType /\ k.pc = "queued" /\ k.op = "touch" /\ k.tok = request[r].tok
    BY <2>0 DEF RequestType
  <2>2. request' = [request EXCEPT ![r] = k]
    BY <1>3
  <2> HIDE DEF k
  <2>3. Only(r) /\ request'[r] = k
    BY <2>1, <2>2, Standing DEF Only
  <2>4. TokenTypes'
    BY <1>1, <1>3, <2>3, Standing, InQueue DEF TokensInv, TokenTypes, Only, Readable
  <2>5. request[r].op # "none" /\ request[r].tok \in used
    BY <1>1, Standing DEF LineAt
  <2>6. LineAt(r, k, queue', used) /\ ObjectAt(r, k, cached, heap, file)
    BY <1>3, <2>1, <2>5, Standing, InQueue DEF LineAt, ObjectAt, Changing, T!Changes
  <2>7. LineOK' /\ FreshOK'
    BY <1>1, <1>3, <2>1, <2>3, <2>5, <2>6, LineFrame, FreshFrame
  <2>8. ObjectOK' /\ FileOK'
    BY <1>1, <2>1, <2>3, <2>6, ObjectFrame, FileFrame
  <2> QED
    BY <2>4, <2>7, <2>8 DEF TokensInv
<1> QED
  BY <1>2, <1>3 DEF T!Resolve

LEMMA TruncateKeeps ==
    ASSUME TokensInv, ~SlowReads, NEW r \in Calls, T!Truncate(r)
    PROVE  TokensInv'
<1>1. /\ request[r].pc = "write" /\ file' = Empty
      /\ \A q \in Calls : request[q].pc # "reading"
      /\ request' = [request EXCEPT ![r].pc = "fill", ![r].snap = heap[request[r].obj]]
      /\ UNCHANGED <<cached, heap, queue, used, live, gone>>
  BY DEF T!Truncate, T!At, T!Free, T!Reading
<1>2. /\ cached \in Calls /\ cached # None /\ request[r].obj = cached
      /\ Changing(request[r]) /\ request[r].op # "none"
  BY <1>1, Standing DEF LineAt, ObjectAt, Changing, TokensInv, TokenTypes
<1> DEFINE k == [request[r] EXCEPT !.pc = "fill", !.snap = heap[cached]]
<1>3. /\ heap[cached] \in {None} \union SUBSET Texts /\ "fill" \in TokenSteps
      /\ request[r] \in RequestType
  BY <1>2, Standing DEF TokenSteps
<1>4. /\ k \in RequestType /\ k.pc = "fill" /\ k.snap = heap[cached]
      /\ k.op = request[r].op /\ k.tok = request[r].tok /\ k.obj = cached
  BY <1>2, <1>3 DEF RequestType
<1>5. request' = [request EXCEPT ![r] = k]
  BY <1>1, <1>2
<1> HIDE DEF k
<1>6. Only(r) /\ request'[r] = k
  BY <1>4, <1>5, Standing DEF Only
<1>7. TokenTypes'
  BY <1>1, <1>6, TokenNames DEF TokensInv, TokenTypes, Only, Readable
<1>8. LineAt(r, k, queue, used)
  BY <1>1, <1>2, <1>4, Standing DEF LineAt, Changing
<1>9. LineOK' /\ FreshOK'
  BY <1>1, <1>2, <1>4, <1>6, <1>8, LineFrame, FreshFrame
<1>10. ObjectOK'
  <2>1. ASSUME NEW q \in Calls PROVE ObjectAt(q, request'[q], cached', heap', file')
    <3>1. CASE q = r
      BY <1>1, <1>2, <1>4, <1>6, <3>1, Standing DEF ObjectAt
    <3>2. CASE q # r
      <4>1. ObjectAt(q, request[q], cached, heap, file) /\ request[q].pc # "reading"
            /\ request'[q] = request[q]
        BY <1>1, <1>6, <3>2, Standing DEF Only
      <4> QED
        BY <1>1, <4>1 DEF ObjectAt
    <3> QED
      BY <3>1, <3>2
  <2>2. \A q \in Calls : request'[q].pc # "reading"
    BY <1>1, <1>4, <1>6 DEF Only
  <2> QED
    BY <2>1, <2>2 DEF ObjectOK
<1>11. FileOK'
  BY <1>1, <1>4, <1>6, TokenNames DEF TokensInv, FileOK, Readable
<1> QED
  BY <1>7, <1>9, <1>10, <1>11 DEF TokensInv

\* What is written is what the cache is.
LEMMA FillKeeps ==
    ASSUME TokensInv, NEW r \in Calls, T!Fill(r)
    PROVE  TokensInv'
<1> DEFINE t == request[r].tok  op == request[r].op
<1>1. /\ request[r].pc = "fill" /\ file' = request[r].snap /\ cached' = request[r].obj
      /\ live' = (IF op = "create" THEN live \union {t} ELSE live)
      /\ gone' = (IF op = "revoke" THEN gone \union {t} ELSE gone)
      /\ T!Leave(r)
      /\ UNCHANGED <<heap, used>>
  BY DEF T!Fill, T!At
<1>2. /\ cached \in Calls /\ cached # None /\ cached' = cached /\ file' = heap[cached]
      /\ Changing(request[r]) /\ op # "none" /\ t \in used
      /\ op = "create" => t \in heap[cached]
      /\ op = "revoke" => t \notin heap[cached]
  BY <1>1, Standing DEF LineAt, ObjectAt, Changing, TokensInv, TokenTypes
<1>3. Only(r) /\ request'[r] = T!Idle /\ queue' \in Seq(Calls) /\ LineOK'
  BY <1>1, Leaving
<1>4. heap[cached] \in SUBSET Texts
  BY <1>2, Standing
<1>5. TokenTypes'
  BY <1>1, <1>2, <1>3, <1>4 DEF TokensInv, TokenTypes, Only, Readable
<1>6. FreshOK'
  <2>1. FreshOK /\ \A q \in Calls \ {r} : request'[q] = request[q]
    BY <1>3 DEF TokensInv, Only
  <2>2. request'[r].op = "none"
    BY <1>3, IdleRequest
  <2>3. ASSUME NEW q \in Calls, request'[q].op = "create"
        PROVE  /\ request'[q].tok \notin live' \union gone'
               /\ \A s \in Calls \ {q} : request'[s].op # "none" => request'[s].tok # request'[q].tok
    <3>1. q # r /\ request'[q] = request[q]
      BY <2>1, <2>2, <2>3
    <3>2. request[q].tok # t
      BY <1>2, <2>1, <2>3, <3>1 DEF FreshOK
    <3>3. request[q].tok \notin live' \union gone'
      BY <1>1, <2>1, <2>3, <3>1, <3>2 DEF FreshOK
    <3> QED
      BY <2>1, <2>2, <2>3, <3>1, <3>3 DEF FreshOK
  <2>4. ASSUME NEW q \in Calls, request'[q].op = "revoke" PROVE request'[q].tok \notin live'
    <3>1. q # r /\ request'[q] = request[q]
      BY <2>1, <2>2, <2>4
    <3>2. op = "create" => request[q].tok # t
      BY <2>1, <2>4, <3>1 DEF FreshOK
    <3> QED
      BY <1>1, <2>1, <2>4, <3>1, <3>2 DEF FreshOK
  <2> QED
    BY <2>3, <2>4 DEF FreshOK
<1>7. \A q \in Calls \ {r} : request'[q] = request[q] /\ request[q].pc \notin {"reading", "write", "fill"}
  <2>1. ASSUME NEW q \in Calls \ {r} PROVE request[q].pc \notin {"reading", "write", "fill"}
    <3>1. ~Changing(request[q])
      BY <1>2, OneChanges DEF TokensInv
    <3>2. LineAt(q, request[q], queue, used) /\ ObjectAt(q, request[q], cached, heap, file)
      BY Standing
    <3> QED
      BY <1>2, <3>1, <3>2 DEF LineAt, ObjectAt, Changing
  <2> QED
    BY <1>3, <2>1 DEF Only
<1>8. ObjectOK'
  <2>1. ASSUME NEW q \in Calls PROVE ObjectAt(q, request'[q], cached', heap', file')
    <3>1. CASE q = r
      BY <1>3, <3>1, IdleRequest
    <3>2. CASE q # r
      <4>1. ObjectAt(q, request[q], cached, heap, file)
        BY Standing
      <4> QED
        BY <1>1, <1>2, <1>7, <3>2, <4>1 DEF ObjectAt
    <3> QED
      BY <3>1, <3>2
  <2>2. \A q \in Calls : request'[q].pc # "reading"
    BY <1>3, <1>7, IdleRequest
  <2> QED
    BY <2>1, <2>2 DEF ObjectOK
<1>9. FileOK'
  <2>1. Good(heap[cached], live, gone)
    BY <1>2 DEF TokensInv, FileOK
  <2>2. Good(heap[cached], live', gone')
    BY <1>1, <1>2, <2>1 DEF Good
  <2>3. file' # Absent /\ file' # Empty
    BY <1>2, <1>4, TokenNames
  <2> QED
    BY <1>1, <1>2, <2>2, <2>3 DEF FileOK, Readable
<1> QED
  BY <1>3, <1>5, <1>6, <1>8, <1>9 DEF TokensInv

\* No write is torn, so the file is what the cache was.
LEMMA RestartKeeps ==
    ASSUME TokensInv, ~MayTear, T!Restart
    PROVE  TokensInv'
<1>1. /\ \A r \in Calls : request[r].pc # "fill"
      /\ cached' = None /\ request' = [r \in Calls |-> T!Idle] /\ queue' = <<>>
      /\ UNCHANGED <<heap, file, used, live, gone>>
  BY DEF T!Restart, T!At
<1>2. /\ request' \in [Calls -> RequestType]
      /\ \A r \in Calls : request'[r] = T!Idle /\ request'[r].op = "none" /\ request'[r].pc = "idle"
  BY <1>1, IdleRequest
<1>3. TokenTypes'
  BY <1>1, <1>2 DEF TokensInv, TokenTypes, Readable
<1>4. LineOK' /\ FreshOK' /\ ObjectOK'
  BY <1>2, IdleRequest DEF LineOK, FreshOK, ObjectOK
<1>5. FileOK'
  BY <1>1 DEF TokensInv, FileOK, Readable
<1> QED
  BY <1>3, <1>4, <1>5 DEF TokensInv

LEMMA TokensStart == T!Init => TokensInv
<1> SUFFICES ASSUME T!Init PROVE TokensInv
  OBVIOUS
<1>1. /\ cached = None /\ heap = [r \in Calls |-> {}] /\ file = Absent
      /\ queue = <<>> /\ request = [r \in Calls |-> T!Idle]
      /\ used = {} /\ live = {} /\ gone = {}
  BY DEF T!Init
<1>2. /\ request \in [Calls -> RequestType]
      /\ \A r \in Calls : request[r] = T!Idle /\ request[r].op = "none" /\ request[r].pc = "idle"
  BY <1>1, IdleRequest
<1>3. TokenTypes
  BY <1>1, <1>2 DEF TokenTypes, Readable
<1>4. LineOK /\ FreshOK /\ ObjectOK
  BY <1>2, IdleRequest DEF LineOK, FreshOK, ObjectOK
<1>5. FileOK
  BY <1>1, TokenNames DEF FileOK, Readable
<1> QED
  BY <1>3, <1>4, <1>5 DEF TokensInv

\* api-tokens.ts: whatever calls overlap, and over restarts, a token that was
\* handed out is good until somebody asks to revoke it, and none is good once
\* its revocation was answered, unless a slow read or a torn write interferes.
THEOREM TokensAreKept == ~SlowReads /\ ~MayTear => (ServicesSpec => []TokensKept)
<1> SUFFICES ASSUME ~SlowReads, ~MayTear PROVE ServicesSpec => []TokensKept
  OBVIOUS
<1>1. ServicesInit => TokensInv
  BY TokensStart DEF ServicesInit
<1>2. TokensInv /\ [ServicesNext]_<<focus, vars, accounts, tokens, chat>> => TokensInv'
  <2> SUFFICES ASSUME TokensInv, [ServicesNext]_<<focus, vars, accounts, tokens, chat>>
               PROVE  TokensInv'
    OBVIOUS
  <2>1. CASE T!Next
    BY <2>1, AskKeeps, StartKeeps, NoFileKeeps, ReadKeeps, ParsedKeeps, CachedKeeps, AlterKeeps,
       ResolveKeeps, TruncateKeeps, FillKeeps, RestartKeeps DEF T!Next
  <2>2. CASE UNCHANGED tokens
    BY <2>2 DEF TokensInv, TokenTypes, LineOK, FreshOK, ObjectOK, FileOK, Readable, tokens
  <2> QED
    BY <2>1, <2>2 DEF ServicesNext
<1>3. TokensInv => TokensKept
  <2> SUFFICES ASSUME TokensInv PROVE TokensKept
    OBVIOUS
  <2>1. FileOK /\ \A r \in Calls : request[r].pc = "fill" => cached # None
    BY DEF TokensInv, ObjectOK, ObjectAt
  <2>2. Good(T!View, live, gone)
    <3>1. CASE cached # None
      BY <2>1, <3>1 DEF FileOK, T!View
    <3>2. CASE cached = None /\ Readable
      BY <2>1, <3>2 DEF FileOK, T!View, Readable
    <3>3. CASE cached = None /\ file = Absent
      BY <2>1, <3>3 DEF FileOK, T!View, Good
    <3>4. CASE cached = None /\ file = Empty
      BY <2>1, <3>4 DEF FileOK
    <3> QED
      BY <3>1, <3>2, <3>3, <3>4 DEF Readable
  <2> QED
    BY <2>2 DEF Good, TokensKept, T!TokensKept
<1> QED
  BY <1>1, <1>2, <1>3, PTL DEF ServicesSpec

----------------------------------------------------------------------------
(***************************************************************************)
(* The chat.  Messages are only added, so what was true of an answer when  *)
(* it was made is true when it arrives; and an answer counts only while    *)
(* what it was asked for is what the tab shows.                            *)
(***************************************************************************)
Message == [conv : Convs, mine : BOOLEAN, parent : Nat \union {None}]
Row == [id : Nat, replies : Nat]

RootsIn(l, c) == {i \in DOMAIN l : l[i].conv = c /\ l[i].parent = None}
RepliesIn(l, i) == {j \in DOMAIN l : l[j].parent = i}

Once(s) == \A k, j \in DOMAIN s : s[k].id = s[j].id => k = j

\* What listMessages may answer for c while l are the messages.
Listing(s, c, l) == s \in Seq(Row) /\ Once(s) /\ \A k \in DOMAIN s : s[k].id \in RootsIn(l, c)

\* Fetch f while c and t are what the tab shows and l are the messages.
FetchOK(f, c, t, l) ==
    /\ f = [of |-> f.of, live |-> f.live, ans |-> f.ans]
    /\ f.live => f.of = IF f.of \in Convs THEN c ELSE t
    /\ f.ans # None => IF f.of \in Convs THEN Listing(f.ans[1], f.of, l)
                       ELSE f.ans[1] \subseteq RepliesIn(l, f.of)

\* The feed s of conversation c, fetched or still the one before.
FeedOK(s, c, fetched, l) ==
    /\ s \in Seq(Row) /\ \A k \in DOMAIN s : s[k].id \in DOMAIN l
    /\ fetched => Once(s) /\ \A k \in DOMAIN s : s[k].id \in RootsIn(l, c) \/ l[s[k].id].mine

PanelOK(p, t, l) ==
    p # None => p \subseteq DOMAIN l /\ \A i \in p : i \in RepliesIn(l, t) \/ l[i].mine

SendOK(m, l) ==
    /\ m = [pc |-> m.pc, conv |-> m.conv, parent |-> m.parent, id |-> m.id]
    /\ m.pc \in {"sent", "failed"} => m.conv \in Convs /\ m.parent \in Nat \union {None}
    /\ m.pc = "posted" => m.id \in DOMAIN l /\ l[m.id].mine

ChatInv ==
    /\ log \in Seq(Message)
    /\ wire \in Seq(Nat) /\ \A k \in DOMAIN wire : wire[k] \in DOMAIN log
    /\ conv \in Convs /\ root \in Nat \union {None} /\ loaded \in BOOLEAN
    /\ FeedOK(feed, conv, loaded, log)
    /\ \A f \in gets : FetchOK(f, conv, root, log)
    /\ PanelOK(panel, root, log)
    /\ SendOK(send, log)

LEMMA ChatNames ==
    /\ None \notin Convs /\ None \notin Nat /\ \A c \in Convs : c \notin Nat
  BY ServicesAssumption

\* The chat counts as everybody does.
LEMMA Counting == \A S : C!Cardinality(S) = Cardinality(S)
  BY Zenon DEF C!Cardinality, Cardinality

LEMMA Numbered ==
    ASSUME NEW l \in Seq(Message)
    PROVE  /\ DOMAIN l = 1..Len(l) /\ Len(l) \in Nat /\ DOMAIN l \subseteq Nat
           /\ \A c : IsFiniteSet(RootsIn(l, c)) /\ Cardinality(RootsIn(l, c)) \in Nat
           /\ \A i : IsFiniteSet(RepliesIn(l, i)) /\ Cardinality(RepliesIn(l, i)) \in Nat
<1>1. DOMAIN l = 1..Len(l) /\ Len(l) \in Nat
  OBVIOUS
<1>2. IsFiniteSet(DOMAIN l)
  BY <1>1, FS_Interval
<1>3. ASSUME NEW S \in SUBSET (DOMAIN l) PROVE IsFiniteSet(S) /\ Cardinality(S) \in Nat
  BY <1>2, FS_Subset, FS_CardinalityType
<1>4. \A c : RootsIn(l, c) \in SUBSET (DOMAIN l)
  BY DEF RootsIn
<1>5. \A i : RepliesIn(l, i) \in SUBSET (DOMAIN l)
  BY DEF RepliesIn
<1> QED
  BY <1>1, <1>3, <1>4, <1>5

\* Messages are only added.
Grows(l, m) == DOMAIN l \subseteq DOMAIN m /\ \A i \in DOMAIN l : m[i] = l[i]

LEMMA Grown ==
    ASSUME NEW l, NEW m, Grows(l, m)
    PROVE  /\ \A f, c, t : FetchOK(f, c, t, l) => FetchOK(f, c, t, m)
           /\ \A s, c, b : FeedOK(s, c, b, l) => FeedOK(s, c, b, m)
           /\ \A p, t : PanelOK(p, t, l) => PanelOK(p, t, m)
           /\ \A n : SendOK(n, l) => SendOK(n, m)
<1>1. (\A c : RootsIn(l, c) \subseteq RootsIn(m, c)) /\ \A i : RepliesIn(l, i) \subseteq RepliesIn(m, i)
  BY DEF Grows, RootsIn, RepliesIn
<1>2. ASSUME NEW f, NEW c, NEW t, FetchOK(f, c, t, l) PROVE FetchOK(f, c, t, m)
  <2>1. ASSUME f.ans # None, f.of \in Convs PROVE Listing(f.ans[1], f.of, m)
    <3>1. Listing(f.ans[1], f.of, l)
      BY <1>2, <2>1 DEF FetchOK
    <3> QED
      BY <1>1, <3>1 DEF Listing
  <2>2. ASSUME f.ans # None, f.of \notin Convs PROVE f.ans[1] \subseteq RepliesIn(m, f.of)
    <3>1. f.ans[1] \subseteq RepliesIn(l, f.of)
      BY <1>2, <2>2 DEF FetchOK
    <3> QED
      BY <1>1, <3>1
  <2> QED
    BY <1>2, <2>1, <2>2 DEF FetchOK
<1>3. ASSUME NEW s, NEW c, NEW b, FeedOK(s, c, b, l) PROVE FeedOK(s, c, b, m)
  <2>1. \A k \in DOMAIN s : s[k].id \in DOMAIN m /\ m[s[k].id] = l[s[k].id]
    BY <1>3 DEF FeedOK, Grows
  <2> QED
    BY <1>1, <1>3, <2>1 DEF FeedOK
<1>4. ASSUME NEW p, NEW t, PanelOK(p, t, l) PROVE PanelOK(p, t, m)
  BY <1>1, <1>4 DEF PanelOK, Grows
<1>5. ASSUME NEW n, SendOK(n, l) PROVE SendOK(n, m)
  BY <1>5 DEF SendOK, Grows
<1> QED
  BY <1>2, <1>3, <1>4, <1>5

\* What was stored joins the messages and may join the wire.
LEMMA Storing ==
    ASSUME ChatInv, NEW c \in Convs, NEW mine \in BOOLEAN, NEW parent \in Nat \union {None},
           C!Stored(c, mine, parent)
    PROVE  /\ log' \in Seq(Message) /\ Grows(log, log')
           /\ Len(log) + 1 \in DOMAIN log' /\ log'[Len(log) + 1].mine = mine
           /\ wire' \in Seq(Nat) /\ \A k \in DOMAIN wire' : wire'[k] \in DOMAIN log'
<1> DEFINE m == [conv |-> c, mine |-> mine, parent |-> parent]
<1>1. m \in Message /\ m.mine = mine
  BY DEF Message
<1>2. log' = Append(log, m) /\ wire' = (IF c \in deaf THEN wire ELSE Append(wire, Len(log) + 1))
  BY DEF C!Stored
<1> HIDE DEF m
<1>3. log \in Seq(Message) /\ wire \in Seq(Nat) /\ \A k \in DOMAIN wire : wire[k] \in DOMAIN log
  BY DEF ChatInv
<1>4. /\ log' \in Seq(Message) /\ DOMAIN log = 1..Len(log) /\ Len(log) \in Nat
      /\ DOMAIN log' = 1..(Len(log) + 1) /\ log'[Len(log) + 1] = m
      /\ \A i \in 1..Len(log) : log'[i] = log[i]
  BY <1>1, <1>2, <1>3
<1>5. Grows(log, log') /\ Len(log) + 1 \in DOMAIN log'
  BY <1>4 DEF Grows
<1>6. CASE wire' = wire
  BY <1>1, <1>3, <1>4, <1>5, <1>6 DEF Grows
<1>7. CASE wire' = Append(wire, Len(log) + 1)
  <2>1. /\ wire' \in Seq(Nat) /\ DOMAIN wire' = 1..(Len(wire) + 1) /\ Len(wire) \in Nat
        /\ DOMAIN wire = 1..Len(wire)
        /\ wire'[Len(wire) + 1] = Len(log) + 1 /\ \A k \in 1..Len(wire) : wire'[k] = wire[k]
    BY <1>3, <1>4, <1>7
  <2>2. ASSUME NEW k \in DOMAIN wire' PROVE wire'[k] \in DOMAIN log'
    <3>1. CASE k \in 1..Len(wire)
      BY <1>3, <1>5, <2>1, <3>1 DEF Grows
    <3>2. CASE k = Len(wire) + 1
      BY <1>5, <2>1, <3>2
    <3> QED
      BY <2>1, <3>1, <3>2
  <2> QED
    BY <1>1, <1>4, <1>5, <2>1, <2>2
<1> QED
  BY <1>2, <1>6, <1>7

\* What the server lists for c: its roots, each once.
LEMMA Listed ==
    ASSUME log \in Seq(Message), NEW c \in Convs, NEW s \in C!Listings(c)
    PROVE  Listing(s, c, log)
<1> DEFINE R == RootsIn(log, c)  n == Cardinality(R)
<1>1. C!RootsOf(c) = R /\ \A i : C!RepliesTo(i) = RepliesIn(log, i)
  BY DEF C!RootsOf, C!RepliesTo, C!Ids, RootsIn, RepliesIn
<1>2. n \in Nat /\ R \subseteq Nat /\ \A i : Cardinality(RepliesIn(log, i)) \in Nat
  BY Numbered DEF RootsIn
<1>3. PICK ids \in [1..n -> R] :
         /\ \A k, j \in DOMAIN ids : k < j => ids[k] < ids[j]
         /\ s = [k \in DOMAIN ids |-> C!Entry(ids[k])]
  <2>1. C!Listings(c) = {[k \in DOMAIN ids |-> C!Entry(ids[k])] : ids \in
           {t \in [1..n -> R] : \A k, j \in DOMAIN t : k < j => t[k] < t[j]}}
    BY <1>1, Counting DEF C!Listings
  <2> QED
    BY <2>1, Zenon
<1> HIDE DEF n, R
<1>4. ASSUME NEW i \in Nat PROVE C!Entry(i) \in Row /\ C!Entry(i).id = i
  <2>1. C!Entry(i) = [id |-> i, replies |-> Cardinality(RepliesIn(log, i))]
    BY <1>1, Counting DEF C!Entry
  <2> QED
    BY <1>2, <2>1 DEF Row
<1>5. DOMAIN s = 1..n /\ \A k \in 1..n : s[k] \in Row /\ s[k].id = ids[k] /\ ids[k] \in R /\ ids[k] \in Nat
  BY <1>2, <1>3, <1>4
<1>6. s \in Seq(Row)
  <2>1. s \in [1..n -> Row]
    BY <1>3, <1>5
  <2> QED
    BY <1>2, <2>1, SeqDef
<1>7. Once(s)
  <2> SUFFICES ASSUME NEW k \in 1..n, NEW j \in 1..n, ids[k] = ids[j] PROVE k = j
    BY <1>5 DEF Once
  <2>1. k < j => ids[k] < ids[j]
    BY <1>3
  <2>2. j < k => ids[j] < ids[k]
    BY <1>3
  <2>3. ids[k] \in Nat /\ ids[j] \in Nat /\ k \in Nat /\ j \in Nat
    BY <1>2, <1>5
  <2> QED
    BY <2>1, <2>2, <2>3
<1> QED
  BY <1>5, <1>6, <1>7 DEF Listing, R


\* A message that belongs here, or is one's own, is shown once.
LEMMA Showing ==
    ASSUME FeedOK(feed, conv, loaded, log), log \in Seq(Message), NEW i \in DOMAIN log,
           i \in RootsIn(log, conv) \/ log[i].mine
    PROVE  FeedOK(C!Shown(i), conv, loaded, log)
<1> DEFINE new == [id |-> i, replies |-> 0]
<1>1. i \in Nat
  BY Numbered
<1>2. new \in Row /\ new.id = i
  BY <1>1 DEF Row
<1> HIDE DEF new
<1>3. CASE \E k \in DOMAIN feed : feed[k].id = i
  BY <1>3 DEF C!Shown
<1>4. CASE \A k \in DOMAIN feed : feed[k].id # i
  <2>1. C!Shown(i) = Append(feed, new) /\ feed \in Seq(Row)
    BY <1>4 DEF C!Shown, new, FeedOK
  <2>2. /\ C!Shown(i) \in Seq(Row) /\ DOMAIN C!Shown(i) = 1..(Len(feed) + 1)
        /\ C!Shown(i)[Len(feed) + 1] = new /\ \A k \in 1..Len(feed) : C!Shown(i)[k] = feed[k]
        /\ DOMAIN feed = 1..Len(feed) /\ Len(feed) \in Nat
    BY <1>2, <2>1
  <2> DEFINE s == C!Shown(i)
  <2> HIDE DEF s
  <2>3. \A k \in DOMAIN s : (k \in DOMAIN feed /\ s[k] = feed[k]) \/ (k = Len(feed) + 1 /\ s[k].id = i)
    BY <1>2, <2>2 DEF s
  <2>4. \A k \in DOMAIN s : s[k].id \in DOMAIN log
    BY <2>3 DEF FeedOK
  <2>5. ASSUME loaded
        PROVE  Once(s) /\ \A k \in DOMAIN s : s[k].id \in RootsIn(log, conv) \/ log[s[k].id].mine
    BY <1>4, <2>3, <2>5 DEF FeedOK, Once
  <2> QED
    BY <2>2, <2>4, <2>5 DEF FeedOK, s
<1> QED
  BY <1>3, <1>4

LEMMA CountingUp ==
    ASSUME FeedOK(feed, conv, loaded, log), NEW i
    PROVE  FeedOK(C!Counted(i), conv, loaded, log)
<1> DEFINE s == C!Counted(i)
<1>1. feed \in Seq(Row) /\ DOMAIN feed = 1..Len(feed) /\ Len(feed) \in Nat
  BY DEF FeedOK
<1>2. /\ DOMAIN s = DOMAIN feed
      /\ \A k \in DOMAIN feed :
            s[k] = IF feed[k].id = i THEN [feed[k] EXCEPT !.replies = @ + 1] ELSE feed[k]
      /\ s = [k \in DOMAIN feed |-> s[k]]
  BY DEF C!Counted
<1> HIDE DEF s
<1>3. ASSUME NEW x \in Row
      PROVE  [x EXCEPT !.replies = @ + 1] \in Row /\ [x EXCEPT !.replies = @ + 1].id = x.id
  BY DEF Row
<1>4. \A k \in DOMAIN feed : feed[k] \in Row
  BY <1>1
<1>5. \A k \in DOMAIN feed : s[k] \in Row /\ s[k].id = feed[k].id
  BY <1>2, <1>3, <1>4
<1>6. s \in Seq(Row)
  <2>1. s \in [1..Len(feed) -> Row]
    BY <1>1, <1>2, <1>5
  <2> QED
    BY <1>1, <2>1, SeqDef
<1>7. FeedOK(s, conv, loaded, log)
  BY <1>2, <1>5, <1>6 DEF FeedOK, Once
<1> QED
  BY <1>7 DEF s

LEMMA Cancelling ==
    ASSUME NEW which, \A f \in gets : f = [of |-> f.of, live |-> f.live, ans |-> f.ans],
           NEW g \in C!Cancelled(which)
    PROVE  /\ g = [of |-> g.of, live |-> g.live, ans |-> g.ans]
           /\ \E f \in gets : /\ g.of = f.of /\ g.ans = f.ans
                              /\ g.live => f.live /\ f \notin which
<1>1. PICK f \in gets : g = [f EXCEPT !.live = @ /\ f \notin which]
  BY DEF C!Cancelled
<1>2. f = [of |-> f.of, live |-> f.live, ans |-> f.ans]
  OBVIOUS
<1>3. g = [of |-> f.of, live |-> (f.live /\ f \notin which), ans |-> f.ans]
  BY <1>1, <1>2
<1>4. g.of = f.of /\ g.ans = f.ans /\ (g.live <=> (f.live /\ f \notin which))
  BY <1>3
<1>5. g = [of |-> g.of, live |-> g.live, ans |-> g.ans]
  BY <1>3
<1> QED
  BY <1>4, <1>5

LEMMA ChatStart == C!Init => ChatInv
<1> SUFFICES ASSUME C!Init PROVE ChatInv
  OBVIOUS
<1>1. /\ log = <<>> /\ wire = <<>> /\ conv \in Convs /\ loaded = FALSE /\ feed = <<>>
      /\ root = None /\ panel = None /\ gets = {C!Feed(conv)} /\ send = C!NotSending
  BY DEF C!Init
<1>2. FetchOK(C!Feed(conv), conv, root, log)
  BY <1>1 DEF FetchOK, C!Feed
<1>3. SendOK(send, log)
  BY <1>1 DEF SendOK, C!NotSending
<1>4. FeedOK(feed, conv, loaded, log) /\ PanelOK(panel, root, log)
  BY <1>1 DEF FeedOK, PanelOK
<1>5. \A f \in gets : FetchOK(f, conv, root, log)
  BY <1>1, <1>2
<1>6. log \in Seq(Message) /\ wire \in Seq(Nat) /\ DOMAIN wire = {}
  BY <1>1
<1>7. conv \in Convs /\ root \in Nat \union {None} /\ loaded \in BOOLEAN
  BY <1>1
<1> QED
  BY <1>3, <1>4, <1>5, <1>6, <1>7 DEF ChatInv

LEMMA OthersPostKeeps ==
    ASSUME ChatInv, NEW c \in Convs, NEW parent \in C!Ids \union {None}, C!OthersPost(c, parent)
    PROVE  ChatInv'
<1>1. /\ C!Stored(c, FALSE, parent)
      /\ UNCHANGED <<conv, loaded, feed, root, panel, gets, send>>
  BY DEF C!OthersPost
<1>2. parent \in Nat \union {None}
  BY Numbered DEF C!Ids, ChatInv
<1>3. /\ log' \in Seq(Message) /\ Grows(log, log')
      /\ wire' \in Seq(Nat) /\ \A k \in DOMAIN wire' : wire'[k] \in DOMAIN log'
  BY <1>1, <1>2, Storing
<1> QED
  BY <1>1, <1>3, Grown DEF ChatInv

LEMMA PostKeeps ==
    ASSUME ChatInv, C!Post
    PROVE  ChatInv'
<1>1. /\ send.pc = "sent" /\ C!Stored(send.conv, TRUE, send.parent)
      /\ send' = [send EXCEPT !.pc = "posted", !.id = Len(log) + 1]
      /\ UNCHANGED <<conv, loaded, feed, root, panel, gets>>
  BY DEF C!Post, C!Sending
<1>2. /\ send.conv \in Convs /\ send.parent \in Nat \union {None}
      /\ send = [pc |-> send.pc, conv |-> send.conv, parent |-> send.parent, id |-> send.id]
  BY <1>1 DEF ChatInv, SendOK
<1>3. /\ log' \in Seq(Message) /\ Grows(log, log')
      /\ Len(log) + 1 \in DOMAIN log' /\ log'[Len(log) + 1].mine = TRUE
      /\ wire' \in Seq(Nat) /\ \A k \in DOMAIN wire' : wire'[k] \in DOMAIN log'
  BY <1>1, <1>2, Storing
<1>4. SendOK(send', log')
  <2>1. send' = [pc |-> "posted", conv |-> send.conv, parent |-> send.parent, id |-> Len(log) + 1]
    BY <1>1, <1>2
  <2> QED
    BY <1>3, <2>1 DEF SendOK
<1> QED
  BY <1>1, <1>3, <1>4, Grown DEF ChatInv

LEMMA AnswerKeeps ==
    ASSUME ChatInv, NEW f \in gets, C!Answer(f)
    PROVE  ChatInv'
<1>1. PICK a \in (IF C!IsFeed(f) THEN C!Listings(f.of) ELSE {C!RepliesTo(f.of)}) :
         gets' = (gets \ {f}) \union {[f EXCEPT !.ans = <<a>>]}
  BY DEF C!Answer
<1>2. UNCHANGED <<log, wire, conv, loaded, feed, root, panel, send>>
  BY DEF C!Answer, C!server
<1>3. FetchOK(f, conv, root, log) /\ f = [of |-> f.of, live |-> f.live, ans |-> f.ans]
  BY DEF ChatInv, FetchOK
<1> DEFINE g == [f EXCEPT !.ans = <<a>>]
<1>4. g = [of |-> f.of, live |-> f.live, ans |-> <<a>>]
  BY <1>3
<1> HIDE DEF g
<1>5. g.of = f.of /\ g.live = f.live /\ g.ans[1] = a /\ g = [of |-> g.of, live |-> g.live, ans |-> g.ans]
  BY <1>4
<1>6. IF f.of \in Convs THEN Listing(a, f.of, log) ELSE a \subseteq RepliesIn(log, f.of)
  <2>1. CASE f.of \in Convs
    BY <1>1, <2>1, Listed DEF C!IsFeed, ChatInv
  <2>2. CASE f.of \notin Convs
    BY <1>1, <2>2 DEF C!IsFeed, C!RepliesTo, C!Ids, RepliesIn
  <2> QED
    BY <2>1, <2>2
<1>7. FetchOK(g, conv, root, log)
  BY <1>3, <1>5, <1>6 DEF FetchOK
<1>8. \A h \in gets' : FetchOK(h, conv, root, log)
  BY <1>1, <1>7 DEF ChatInv, g
<1> QED
  BY <1>2, <1>8 DEF ChatInv

LEMMA SwitchKeeps ==
    ASSUME ChatInv, NEW c \in Convs, C!Switch(c)
    PROVE  ChatInv'
<1>1. /\ conv' = c /\ loaded' = FALSE /\ root' = None /\ panel' = None
      /\ gets' = C!Cancelled(gets) \union {C!Feed(c)}
      /\ UNCHANGED <<log, wire, feed, send>>
  BY DEF C!Switch, C!server
<1>2. ASSUME NEW g \in C!Cancelled(gets) PROVE FetchOK(g, c, None, log)
  <2>1. PICK f \in gets : g.of = f.of /\ g.ans = f.ans /\ ~g.live /\ FetchOK(f, conv, root, log)
    BY Cancelling DEF ChatInv, FetchOK
  <2>2. g = [of |-> g.of, live |-> g.live, ans |-> g.ans]
    BY Cancelling DEF ChatInv, FetchOK
  <2> QED
    BY <2>1, <2>2 DEF FetchOK
<1>3. FetchOK(C!Feed(c), c, None, log)
  BY DEF FetchOK, C!Feed
<1> QED
  BY <1>1, <1>2, <1>3 DEF ChatInv, FeedOK, PanelOK

LEMMA OpenThreadKeeps ==
    ASSUME ChatInv, NEW i \in C!Ids, C!OpenThread(i)
    PROVE  ChatInv'
<1> DEFINE threads == {f \in gets : ~C!IsFeed(f)}
<1>1. /\ root' = i /\ panel' = None
      /\ gets' = C!Cancelled(threads) \union {C!Thread(i)}
      /\ UNCHANGED <<log, wire, conv, loaded, feed, send>>
  BY DEF C!OpenThread, C!server
<1>2. i \in Nat /\ i \notin Convs
  BY Numbered, ChatNames DEF C!Ids, ChatInv
<1>3. ASSUME NEW g \in C!Cancelled(threads) PROVE FetchOK(g, conv, i, log)
  <2>1. PICK f \in gets : /\ g.of = f.of /\ g.ans = f.ans
                          /\ g.live => f.live /\ f \notin threads
                          /\ FetchOK(f, conv, root, log)
    BY Cancelling DEF ChatInv, FetchOK
  <2>2. g = [of |-> g.of, live |-> g.live, ans |-> g.ans]
    BY Cancelling DEF ChatInv, FetchOK
  <2>3. g.live => f.of \in Convs
    BY <2>1 DEF C!IsFeed
  <2> QED
    BY <2>1, <2>2, <2>3 DEF FetchOK
<1>4. FetchOK(C!Thread(i), conv, i, log)
  BY <1>2 DEF FetchOK, C!Thread
<1> HIDE DEF threads
<1> QED
  BY <1>1, <1>2, <1>3, <1>4 DEF ChatInv, PanelOK

LEMMA ArriveKeeps ==
    ASSUME ChatInv, NEW f \in gets, C!Arrive(f)
    PROVE  ChatInv'
<1>1. /\ f.ans # None /\ gets' = gets \ {f}
      /\ UNCHANGED <<log, wire, conv, root, send>>
  BY DEF C!Arrive
<1>2. FetchOK(f, conv, root, log)
  BY DEF ChatInv
<1>3. CASE UNCHANGED <<loaded, feed, panel>>
  BY <1>1, <1>3 DEF ChatInv
<1>4. CASE f.live /\ ~C!IsFeed(f) /\ panel' = f.ans[1] /\ UNCHANGED <<loaded, feed>>
  <2>1. f.ans[1] \subseteq RepliesIn(log, root)
    BY <1>1, <1>2, <1>4 DEF FetchOK, C!IsFeed
  <2>2. PanelOK(panel', root, log)
    BY <1>4, <2>1 DEF PanelOK, RepliesIn
  <2> QED
    BY <1>1, <1>4, <2>2 DEF ChatInv
<1>5. CASE f.live /\ C!IsFeed(f) /\ feed' = f.ans[1] /\ loaded' = TRUE /\ UNCHANGED panel
  <2>1. Listing(f.ans[1], conv, log)
    BY <1>1, <1>2, <1>5 DEF FetchOK, C!IsFeed
  <2>2. FeedOK(feed', conv, loaded', log)
    BY <1>5, <2>1 DEF FeedOK, Listing, RootsIn
  <2> QED
    BY <1>1, <1>5, <2>2 DEF ChatInv
<1> QED
  BY <1>3, <1>4, <1>5 DEF C!Arrive

LEMMA HearKeeps ==
    ASSUME ChatInv, C!Hear
    PROVE  ChatInv'
<1> DEFINE i == Head(wire)  m == log[i]
<1>1. /\ wire # <<>> /\ wire' = Tail(wire)
      /\ UNCHANGED <<log, conv, loaded, root, gets, send>>
  BY DEF C!Hear
<1>2. wire \in Seq(Nat) /\ log \in Seq(Message) /\ \A k \in DOMAIN wire : wire[k] \in DOMAIN log
  BY DEF ChatInv
<1>3. i \in DOMAIN log
  <2>1. 1 \in DOMAIN wire /\ i = wire[1]
    BY <1>1, <1>2
  <2> QED
    BY <1>2, <2>1
<1>4. wire' \in Seq(Nat) /\ \A k \in DOMAIN wire' : wire'[k] \in DOMAIN log
  <2>1. /\ wire' \in Seq(Nat) /\ Len(wire') = Len(wire) - 1 /\ Len(wire) \in Nat
        /\ DOMAIN wire' = 1..Len(wire') /\ DOMAIN wire = 1..Len(wire)
        /\ \A k \in 1..Len(wire') : wire'[k] = wire[k + 1]
    BY <1>1, <1>2
  <2>2. ASSUME NEW k \in DOMAIN wire' PROVE wire'[k] \in DOMAIN log
    <3>1. k + 1 \in DOMAIN wire /\ wire'[k] = wire[k + 1]
      BY <2>1
    <3> QED
      BY <1>2, <3>1
  <2> QED
    BY <2>1, <2>2
<1>5. FeedOK(feed, conv, loaded, log) /\ PanelOK(panel, root, log)
  BY DEF ChatInv
<1>6. CASE m.conv # conv
  <2>1. UNCHANGED <<feed, panel>>
    BY <1>6 DEF C!Hear
  <2> QED
    BY <1>1, <1>4, <2>1 DEF ChatInv
<1>7. CASE m.conv = conv
  <2>1. /\ feed' = (IF m.parent = None THEN C!Shown(i) ELSE C!Counted(m.parent))
        /\ panel' = IF m.parent # None /\ m.parent = root /\ panel # None
                    THEN panel \union {i} ELSE panel
    BY <1>7 DEF C!Hear
  <2>2. FeedOK(feed', conv, loaded, log)
    <3>1. CASE m.parent = None
      <4>1. i \in RootsIn(log, conv)
        BY <1>3, <1>7, <3>1 DEF RootsIn
      <4> QED
        BY <1>2, <1>3, <1>5, <2>1, <3>1, <4>1, Showing
    <3>2. CASE m.parent # None
      BY <1>5, <2>1, <3>2, CountingUp
    <3> QED
      BY <3>1, <3>2
  <2>3. PanelOK(panel', root, log)
    <3>1. CASE panel' = panel
      BY <1>5, <3>1
    <3>2. CASE m.parent = root /\ panel # None /\ panel' = panel \union {i}
      <4>1. i \in RepliesIn(log, root)
        BY <1>3, <3>2 DEF RepliesIn
      <4> HIDE DEF i, m
      <4> QED
        BY <1>3, <1>5, <3>2, <4>1 DEF PanelOK
    <3> QED
      BY <2>1, <3>1, <3>2
  <2> QED
    BY <1>1, <1>4, <2>2, <2>3 DEF ChatInv
<1> QED
  BY <1>6, <1>7

LEMMA ConfirmKeeps ==
    ASSUME ChatInv, C!Confirm
    PROVE  ChatInv'
<1>1. /\ send.pc = "posted" /\ send' = C!NotSending
      /\ UNCHANGED <<log, wire, conv, loaded, root, gets>>
  BY DEF C!Confirm, C!Sending, C!server
<1>2. send.id \in DOMAIN log /\ log[send.id].mine /\ log \in Seq(Message)
  BY <1>1 DEF ChatInv, SendOK
<1>3. FeedOK(feed, conv, loaded, log) /\ PanelOK(panel, root, log)
  BY DEF ChatInv
<1>4. SendOK(send', log)
  BY <1>1 DEF SendOK, C!NotSending
<1>5. CASE feed' = C!Shown(send.id) /\ UNCHANGED panel
  <2>1. FeedOK(C!Shown(send.id), conv, loaded, log)
    BY <1>2, <1>3, Showing
  <2> QED
    BY <1>1, <1>4, <1>5, <2>1 DEF ChatInv
<1>6. CASE panel' = (IF panel = None THEN None ELSE panel \union {send.id}) /\ UNCHANGED feed
  <2>1. PanelOK(panel', root, log)
    BY <1>2, <1>3, <1>6 DEF PanelOK
  <2> QED
    BY <1>1, <1>4, <1>6, <2>1 DEF ChatInv
<1> QED
  BY <1>5, <1>6 DEF C!Confirm

\* The tab's own sends but for Post and Confirm.
LEMMA SendKeeps ==
    ASSUME ChatInv, SendOK(send', log),
           UNCHANGED <<log, wire, conv, loaded, feed, root, panel, gets>>
    PROVE  ChatInv'
  BY DEF ChatInv

LEMMA ChatKept == ChatInv /\ C!Next => ChatInv'
<1> SUFFICES ASSUME ChatInv, C!Next PROVE ChatInv'
  OBVIOUS
<1>1. /\ conv \in Convs /\ root \in Nat \union {None}
      /\ send = [pc |-> send.pc, conv |-> send.conv, parent |-> send.parent, id |-> send.id]
      /\ send.pc \in {"sent", "failed"} => send.conv \in Convs /\ send.parent \in Nat \union {None}
  BY DEF ChatInv, SendOK
<1>2. ASSUME NEW c \in Convs, C!Subscribe(c) PROVE ChatInv'
  BY <1>2 DEF C!Subscribe, ChatInv
<1>3. ASSUME NEW parent \in {root, None}, C!Submit(parent) PROVE ChatInv'
  <2>1. send' = [pc |-> "sent", conv |-> conv, parent |-> parent, id |-> None]
    BY <1>3 DEF C!Submit
  <2>2. SendOK(send', log)
    BY <1>1, <2>1 DEF SendOK
  <2> QED
    BY <1>3, <2>2, SendKeeps DEF C!Submit, C!server
<1>4. CASE C!PostFails
  <2>1. send.pc = "sent" /\ send' = [send EXCEPT !.pc = "failed"]
    BY <1>4 DEF C!PostFails, C!Sending
  <2>2. send' = [pc |-> "failed", conv |-> send.conv, parent |-> send.parent, id |-> send.id]
    BY <1>1, <2>1
  <2>3. SendOK(send', log)
    BY <1>1, <2>1, <2>2 DEF SendOK
  <2> QED
    BY <1>4, <2>3, SendKeeps DEF C!PostFails, C!server
<1>5. CASE C!Retry
  <2>1. send.pc = "failed" /\ send' = [send EXCEPT !.pc = "sent"]
    BY <1>5 DEF C!Retry, C!Sending
  <2>2. send' = [pc |-> "sent", conv |-> send.conv, parent |-> send.parent, id |-> send.id]
    BY <1>1, <2>1
  <2>3. SendOK(send', log)
    BY <1>1, <2>1, <2>2 DEF SendOK
  <2> QED
    BY <1>5, <2>3, SendKeeps DEF C!Retry, C!server
<1>6. CASE C!Discard
  <2>1. SendOK(send', log)
    BY <1>6 DEF C!Discard, C!NotSending, SendOK
  <2> QED
    BY <1>6, <2>1, SendKeeps DEF C!Discard, C!server
<1> QED
  BY <1>2, <1>3, <1>4, <1>5, <1>6, OthersPostKeeps, SwitchKeeps, AnswerKeeps, ArriveKeeps,
     OpenThreadKeeps, HearKeeps, PostKeeps, ConfirmKeeps DEF C!Next

\* ChatPage.tsx: however answers, frames and switches overlap, a feed that
\* was loaded shows each root once and nothing of another conversation, and
\* a thread no reply to another root, but what one sent oneself.
THEOREM StrangersStayOut == ServicesSpec => []NoStrangers
<1>1. ServicesInit => ChatInv
  BY ChatStart DEF ServicesInit
<1>2. ChatInv /\ [ServicesNext]_<<focus, vars, accounts, tokens, chat>> => ChatInv'
  <2> SUFFICES ASSUME ChatInv, [ServicesNext]_<<focus, vars, accounts, tokens, chat>>
               PROVE  ChatInv'
    OBVIOUS
  <2>1. CASE C!Next
    BY <2>1, ChatKept
  <2>2. CASE UNCHANGED chat
    BY <2>2 DEF ChatInv, chat
  <2> QED
    BY <2>1, <2>2 DEF ServicesNext
<1>3. ChatInv => NoStrangers
  <2> SUFFICES ASSUME ChatInv PROVE C!NoStrangers
    BY DEF NoStrangers
  <2>1. FeedOK(feed, conv, loaded, log) /\ PanelOK(panel, root, log)
    BY DEF ChatInv
  <2>2. C!RootsOf(conv) = RootsIn(log, conv) /\ C!RepliesTo(root) = RepliesIn(log, root)
    BY DEF C!RootsOf, C!RepliesTo, C!Ids, RootsIn, RepliesIn
  <2> QED
    BY <2>1, <2>2 DEF C!NoStrangers, FeedOK, PanelOK, Once
<1> QED
  BY <1>1, <1>2, <1>3, PTL DEF ServicesSpec

-----------------------------------------------------------------------------
(***************************************************************************)
(* The kanban board: types, which hold whatever the requests do.           *)
(***************************************************************************)
Column == Seq(CardType)
Boards == [Columns -> Column \union {None}]

CardKinds == {"toggle", "delete", "move", "archive", "patch", "edit", "link"}
Kinds == CardKinds \union {"add", "reorder", "newcol", "dropcol", "rename"}
OpType == [kind : Kinds, col : Columns, to : Columns, cid : Texts \union {None}, text : Texts \union {None},
           at : Nat, done : BOOLEAN, order : Seq(Texts)]

OpOK(op) ==
    /\ op \in OpType
    /\ op.cid # None <=> op.kind \in CardKinds
    /\ op.kind \in {"add", "patch", "edit"} => op.text # None
    /\ op.kind \notin {"move", "archive", "rename"} => op.to = op.col
    /\ op.kind = "archive" => op.to = Archived
    /\ op.kind = "rename" => op.to # op.col

CallSteps == {"idle", "create", "column", "read", "write", "target", "insert"}
CallType == [pc : CallSteps, op : OpType \union {None}, body : Column \union {None}, i : Nat]

\* What a request has read, and where its card is in it.
CallOK(k) ==
    /\ k.pc # "idle" => OpOK(k.op)
    /\ k.pc = "create" => k.op.kind \in {"newcol", "archive"}
    /\ k.pc = "column" => k.op.kind \in {"dropcol", "rename"}
    /\ k.pc \in {"read", "write"} => k.op.kind \in CardKinds \union {"add", "reorder"}
    /\ k.pc \in {"target", "insert"} => k.op.kind \in {"move", "archive"}
    /\ k.pc = "write" /\ k.op.kind \in CardKinds =>
           k.body # None /\ k.i \in 1..Len(k.body) /\ k.body[k.i].text = k.op.cid
    /\ k.pc = "write" /\ k.op.kind \notin CardKinds =>
           k.i = 0 /\ (k.body # None \/ k.op.kind = "add")
    /\ k.pc = "target" => k.body # None /\ k.i \in 1..Len(k.body)
    /\ k.pc = "insert" => k.body # None

BoardTypes ==
    /\ files \in Boards
    /\ call \in [Calls -> CallType] /\ \A c \in Calls : CallOK(call[c])
    /\ next \in Nat \ {0}
    /\ view \in Boards /\ told \in Nat /\ fetches \in Seq(Boards)

\* While no request touches what another touches, what it read is what there is.
Apart ==
    \A c, d \in Calls :
        c # d /\ call[c].pc # "idle" /\ call[d].pc # "idle" =>
            Touches(call[c].op) \intersect Touches(call[d].op) = {}

Fresh == \A c \in Calls : call[c].pc = "write" => call[c].body = files[call[c].op.col]

\* The last board a tab has asked for is what there is, unless it will be told
\* of more, or a move is half done.
Latest == IF fetches = <<>> THEN view ELSE fetches[Len(fetches)]

TabInv ==
    told = 0 /\ (\A c \in Calls : call[c].pc \notin {"target", "insert"}) => Shown(Latest) = Shown(files)

\* The cards of a column, and the card a move has in its hands.
Of(body) == IF body = None THEN {} ELSE {body[i] : i \in 1..Len(body)}
Apiece(body) == \A i, j \in 1..Len(body) : body[i].id = body[j].id => i = j

Carried(c) ==
    CASE call[c].pc = "target" -> {call[c].body[call[c].i]}
      [] call[c].pc = "insert" -> Of(call[c].body) \ Of(files[call[c].op.to])
      [] OTHER -> {}

\* What the columns f and the hands h hold is each in one place and as it was
\* last made to be, and nothing that was added is missing.
Known(x, nx, cd) == x \in CardType /\ x.id < nx /\ cd[x.id] = x

Settled(f, h, nx, cd, al) ==
    /\ \A k \in Columns : \A x \in f[k] : Known(x, nx, cd)
    /\ \A c \in Calls : \A x \in h[c] : Known(x, nx, cd)
    /\ \A k, m \in Columns : k # m => f[k] \intersect f[m] = {}
    /\ \A k \in Columns, c \in Calls : f[k] \intersect h[c] = {}
    /\ \A c, d \in Calls : c # d => h[c] \intersect h[d] = {}
    /\ \A n \in al : \/ \E k \in Columns : \E x \in f[k] : x.id = n
                    \/ \E c \in Calls : \E x \in h[c] : x.id = n

Cols == [k \in Columns |-> Of(files[k])]
Hands == [c \in Calls |-> Carried(c)]
CardsSettled == Settled(Cols, Hands, next, card, alive)

\* No file has a card twice, and what a move is about to write is its target
\* with one card more.
Pieces ==
    /\ \A k \in Columns : files[k] # None => Apiece(files[k])
    /\ \A c \in Calls : call[c].pc = "insert" =>
           Apiece(call[c].body) /\ Of(files[call[c].op.to]) \subseteq Of(call[c].body)

\* What a request counts on that it asked for with care.
Prepared ==
    \A c \in Calls :
        /\ call[c].pc = "create" => files[call[c].op.to] = None
        /\ call[c].pc = "column" /\ call[c].op.kind = "rename" => files[call[c].op.to] = None
        /\ call[c].pc \in {"read", "write"} /\ call[c].op.kind = "edit" =>
               ~HasLink(files[call[c].op.col], call[c].op.cid)

CardsInv ==
    /\ card \in [Cards -> CardType \union {None}]
    /\ CardsSettled /\ Pieces /\ Prepared

-----------------------------------------------------------------------------
(***************************************************************************)
(* What the operations make of a column.                                   *)
(***************************************************************************)
LEMMA NoneIsNothing ==
    /\ None \notin Texts /\ None \notin Column /\ Loop # None /\ MaxCards \in Nat /\ Archived \in Columns
    /\ \A s \in Column : s # None
    /\ \A x \in CardType : x.id \in Cards /\ x.text \in Texts
  BY KanbanAssumption DEF Column, CardType, Cards

LEMMA OfColumn ==
    ASSUME NEW s \in Column
    PROVE  Of(s) = {s[i] : i \in 1..Len(s)} /\ Len(s) \in Nat /\ \A i \in 1..Len(s) : s[i] \in CardType
  BY NoneIsNothing DEF Of, Column

\* t is s with x put at place j.
PutAt(t, s, x, j) ==
    /\ t \in Column /\ s \in Column /\ j \in 1..Len(t) /\ Len(t) = Len(s) + 1 /\ t[j] = x
    /\ \A i \in 1..Len(s) : t[IF i < j THEN i ELSE i + 1] = s[i]

LEMMA PutsCard ==
    ASSUME NEW t, NEW s, NEW x, NEW j, PutAt(t, s, x, j)
    PROVE  /\ Of(t) = Of(s) \union {x}
           /\ Apiece(t) => Apiece(s) /\ \A y \in Of(s) : y.id # x.id
           /\ Apiece(s) /\ (\A y \in Of(s) : y.id # x.id) => Apiece(t)
<1> DEFINE up(i) == IF i < j THEN i ELSE i + 1
           down(i) == IF i < j THEN i ELSE i - 1
<1>1. /\ t \in Column /\ s \in Column /\ Len(s) \in Nat /\ Len(t) = Len(s) + 1
      /\ j \in 1..Len(t) /\ t[j] = x
  BY OfColumn DEF PutAt
<1>2. \A i \in 1..Len(s) : up(i) \in 1..Len(t) /\ up(i) # j /\ t[up(i)] = s[i]
  BY <1>1 DEF PutAt
<1>3. \A i \in 1..Len(t) : i # j => down(i) \in 1..Len(s) /\ up(down(i)) = i
  BY <1>1
<1>4. \A i, k \in 1..Len(s) : up(i) = up(k) => i = k
  BY <1>1
<1>5. \A i, k \in 1..Len(t) : i # j /\ k # j /\ down(i) = down(k) => i = k
  BY <1>1
<1> HIDE DEF up, down
<1>6. \A i \in 1..Len(t) : i # j => down(i) \in 1..Len(s) /\ t[i] = s[down(i)]
  BY <1>2, <1>3
<1>7. Of(s) = {s[i] : i \in 1..Len(s)} /\ Of(t) = {t[i] : i \in 1..Len(t)}
  BY <1>1, OfColumn
<1>8. Of(t) \subseteq Of(s) \union {x}
  <2> SUFFICES ASSUME NEW i \in 1..Len(t) PROVE t[i] \in Of(s) \union {x}
    BY <1>7
  <2> QED
    BY <1>1, <1>6, <1>7
<1>9. Of(s) \subseteq Of(t) /\ x \in Of(t)
  BY <1>1, <1>2, <1>7
<1>10. ASSUME Apiece(t) PROVE Apiece(s) /\ \A y \in Of(s) : y.id # x.id
  <2>1. ASSUME NEW i \in 1..Len(s), NEW k \in 1..Len(s), s[i].id = s[k].id PROVE i = k
    <3>1. up(i) \in 1..Len(t) /\ up(k) \in 1..Len(t) /\ t[up(i)].id = t[up(k)].id
      BY <1>2, <2>1
    <3> QED
      BY <1>4, <1>10, <3>1 DEF Apiece
  <2>2. ASSUME NEW i \in 1..Len(s) PROVE s[i].id # x.id
    <3>1. up(i) \in 1..Len(t) /\ up(i) # j /\ t[up(i)] = s[i]
      BY <1>2
    <3> QED
      BY <1>1, <1>10, <3>1 DEF Apiece
  <2> QED
    BY <1>7, <2>1, <2>2 DEF Apiece
<1>11. ASSUME Apiece(s), \A y \in Of(s) : y.id # x.id PROVE Apiece(t)
  <2> SUFFICES ASSUME NEW i \in 1..Len(t), NEW k \in 1..Len(t), t[i].id = t[k].id PROVE i = k
    BY DEF Apiece
  <2>1. \A m \in 1..Len(t) : m # j => t[m] \in Of(s)
    BY <1>6, <1>7
  <2>2. i = j <=> k = j
    BY <1>1, <1>11, <2>1
  <2>3. CASE i # j /\ k # j
    <3>1. down(i) \in 1..Len(s) /\ down(k) \in 1..Len(s) /\ s[down(i)].id = s[down(k)].id
      BY <1>6, <2>3
    <3> QED
      BY <1>5, <1>11, <2>3, <3>1 DEF Apiece
  <2> QED
    BY <2>2, <2>3
<1> QED
  BY <1>8, <1>9, <1>10, <1>11

LEMMA Appending ==
    ASSUME NEW s \in Column, NEW x \in CardType
    PROVE  Append(s, x) \in Column /\ PutAt(Append(s, x), s, x, Len(s) + 1)
<1>1. /\ Append(s, x) \in Column /\ Len(Append(s, x)) = Len(s) + 1 /\ Append(s, x)[Len(s) + 1] = x
      /\ Len(s) \in Nat
      /\ \A i \in 1..Len(s) : Append(s, x)[i] = s[i]
  BY AppendProperties DEF Column
<1> QED
  BY <1>1 DEF PutAt

LEMMA Ending ==
    ASSUME NEW s \in Column, NEW k \in 1..Len(s) + 1
    PROVE  /\ SubSeq(s, k, Len(s)) \in Column /\ Len(SubSeq(s, k, Len(s))) = Len(s) - (k - 1)
           /\ \A i \in 1..Len(s) - (k - 1) : SubSeq(s, k, Len(s))[i] = s[(k - 1) + i]
<1>1. k \in Nat /\ k - 1 <= Len(s) /\ Len(s) \in Nat
  BY OfColumn
<1>2. SubSeq(s, k, Len(s)) \in Column
  BY <1>1 DEF Column
<1>3. Len(SubSeq(s, k, Len(s))) = Len(s) - (k - 1)
  BY <1>1 DEF Column
<1>4. ASSUME NEW i \in 1..Len(s) - (k - 1) PROVE SubSeq(s, k, Len(s))[i] = s[(k - 1) + i]
  BY <1>1 DEF Column
<1> QED
  BY <1>2, <1>3, <1>4

LEMMA Beginning ==
    ASSUME NEW s \in Column, NEW k \in 1..Len(s)
    PROVE  /\ SubSeq(s, 1, k - 1) \in Column /\ Len(SubSeq(s, 1, k - 1)) = k - 1
           /\ \A i \in 1..k - 1 : SubSeq(s, 1, k - 1)[i] = s[i]
<1>1. k - 1 \in Nat /\ k - 1 <= Len(s) /\ Len(s) \in Nat
  BY OfColumn
<1>2. SubSeq(s, 1, k - 1) \in Column
  BY <1>1 DEF Column
<1>3. Len(SubSeq(s, 1, k - 1)) = k - 1
  BY <1>1 DEF Column
<1>4. ASSUME NEW i \in 1..k - 1 PROVE SubSeq(s, 1, k - 1)[i] = s[i]
  BY <1>1 DEF Column
<1> QED
  BY <1>2, <1>3, <1>4

LEMMA Joined ==
    ASSUME NEW a \in Column, NEW b \in Column
    PROVE  /\ a \o b \in Column /\ Len(a \o b) = Len(a) + Len(b) /\ Len(a) \in Nat /\ Len(b) \in Nat
           /\ \A i \in 1..Len(a) + Len(b) : (a \o b)[i] = IF i <= Len(a) THEN a[i] ELSE b[i - Len(a)]
  BY DEF Column

LEMMA Inserting ==
    ASSUME NEW s \in Column, NEW x \in CardType, NEW k \in 1..Len(s)
    PROVE  InsertAt(s, k, x) \in Column /\ PutAt(InsertAt(s, k, x), s, x, k)
<1> DEFINE a == SubSeq(s, 1, k - 1)
           b == SubSeq(s, k, Len(s))
           m == a \o <<x>>
<1>1. k - 1 \in Nat /\ Len(s) \in Nat /\ k <= Len(s) /\ (k - 1) + 1 = k
  BY OfColumn
<1>2. a \in Column /\ Len(a) = k - 1 /\ \A i \in 1..k - 1 : a[i] = s[i]
  BY Beginning
<1>3. b \in Column /\ Len(b) = Len(s) - (k - 1) /\ \A i \in 1..Len(s) - (k - 1) : b[i] = s[(k - 1) + i]
  <2>1. k \in 1..Len(s) + 1
    BY <1>1
  <2> QED
    BY <2>1, Ending
<1>4. <<x>> \in Column /\ Len(<<x>>) = 1 /\ <<x>>[1] = x
  BY DEF Column
<1>5. InsertAt(s, k, x) = m \o b
  BY DEF InsertAt
<1> HIDE DEF a, b
<1>6. m \in Column /\ Len(m) = k /\ m[k] = x /\ \A i \in 1..k - 1 : m[i] = s[i]
  <2>1. /\ m \in Column /\ Len(m) = Len(a) + 1
        /\ \A i \in 1..Len(a) + 1 : m[i] = IF i <= Len(a) THEN a[i] ELSE <<x>>[i - Len(a)]
    BY <1>2, <1>4, Joined
  <2> HIDE DEF m
  <2>2. Len(m) = k /\ \A i \in 1..k : m[i] = IF i <= k - 1 THEN a[i] ELSE <<x>>[i - (k - 1)]
    BY <1>1, <1>2, <2>1
  <2> QED
    BY <1>1, <1>2, <1>4, <2>1, <2>2
<1> HIDE DEF m
<1>7. /\ m \o b \in Column /\ Len(m \o b) = Len(s) + 1
      /\ \A i \in 1..Len(s) + 1 : (m \o b)[i] = IF i <= k THEN m[i] ELSE b[i - k]
  <2>1. /\ m \o b \in Column /\ Len(m \o b) = Len(m) + Len(b)
        /\ \A i \in 1..Len(m) + Len(b) : (m \o b)[i] = IF i <= Len(m) THEN m[i] ELSE b[i - Len(m)]
    BY <1>3, <1>6, Joined
  <2>2. Len(m) = k /\ Len(m) + Len(b) = Len(s) + 1
    BY <1>1, <1>3, <1>6
  <2> QED
    BY <2>1, <2>2
<1>8. ASSUME NEW i \in 1..Len(s) PROVE (m \o b)[IF i < k THEN i ELSE i + 1] = s[i]
  <2>1. CASE i < k
    BY <1>1, <1>6, <1>7, <2>1
  <2>2. CASE ~(i < k)
    <3>1. (m \o b)[i + 1] = b[(i + 1) - k]
      BY <1>1, <1>7, <2>2
    <3>2. (i + 1) - k \in 1..Len(s) - (k - 1) /\ (k - 1) + ((i + 1) - k) = i
      BY <1>1, <2>2
    <3> QED
      BY <1>3, <2>2, <3>1, <3>2
  <2> QED
    BY <2>1, <2>2
<1>9. k \in 1..Len(m \o b) /\ (m \o b)[k] = x
  BY <1>1, <1>6, <1>7
<1> QED
  BY <1>5, <1>7, <1>8, <1>9 DEF PutAt

LEMMA Removing ==
    ASSUME NEW s \in Column, NEW k \in 1..Len(s)
    PROVE  RemoveAt(s, k) \in Column /\ PutAt(s, RemoveAt(s, k), s[k], k)
<1> DEFINE a == SubSeq(s, 1, k - 1)
           b == SubSeq(s, k + 1, Len(s))
<1>1. k - 1 \in Nat /\ k \in Nat /\ Len(s) \in Nat /\ k <= Len(s)
  BY OfColumn
<1>2. a \in Column /\ Len(a) = k - 1 /\ \A i \in 1..k - 1 : a[i] = s[i]
  BY Beginning
<1>3. b \in Column /\ Len(b) = Len(s) - k /\ \A i \in 1..Len(s) - k : b[i] = s[k + i]
  <2>1. k + 1 \in 1..Len(s) + 1 /\ (k + 1) - 1 = k
    BY <1>1
  <2>2. /\ b \in Column /\ Len(b) = Len(s) - ((k + 1) - 1)
        /\ \A i \in 1..Len(s) - ((k + 1) - 1) : b[i] = s[((k + 1) - 1) + i]
    BY <2>1, Ending
  <2> HIDE DEF b
  <2> QED
    BY <2>1, <2>2
<1>4. RemoveAt(s, k) = a \o b
  BY DEF RemoveAt
<1> HIDE DEF a, b
<1>5. /\ a \o b \in Column /\ Len(a \o b) = Len(s) - 1
      /\ \A i \in 1..Len(s) - 1 : (a \o b)[i] = IF i <= k - 1 THEN a[i] ELSE b[i - (k - 1)]
  <2>1. /\ a \o b \in Column /\ Len(a \o b) = Len(a) + Len(b)
        /\ \A i \in 1..Len(a) + Len(b) : (a \o b)[i] = IF i <= Len(a) THEN a[i] ELSE b[i - Len(a)]
    BY <1>2, <1>3, Joined
  <2>2. Len(a) = k - 1 /\ Len(a) + Len(b) = Len(s) - 1
    BY <1>1, <1>2, <1>3
  <2> QED
    BY <2>1, <2>2
<1>6. ASSUME NEW i \in 1..Len(s) - 1 PROVE s[IF i < k THEN i ELSE i + 1] = (a \o b)[i]
  <2>1. CASE i < k
    BY <1>1, <1>2, <1>5, <2>1
  <2>2. CASE ~(i < k)
    <3>1. (a \o b)[i] = b[i - (k - 1)]
      BY <1>1, <1>5, <2>2
    <3>2. i - (k - 1) \in 1..Len(s) - k /\ k + (i - (k - 1)) = i + 1
      BY <1>1, <2>2
    <3> QED
      BY <1>3, <2>2, <3>1, <3>2
  <2> QED
    BY <2>1, <2>2
<1>7. Len(s) = Len(a \o b) + 1 /\ 1..Len(a \o b) = 1..Len(s) - 1
  BY <1>1, <1>5
<1> QED
  BY <1>4, <1>5, <1>6, <1>7 DEF PutAt

\* A moved card is put into its new column.
LEMMA Moving ==
    ASSUME NEW s \in Column, NEW x \in CardType, NEW at
    PROVE  Inserted(s, x, at) \in Column /\ \E j : PutAt(Inserted(s, x, at), s, x, j)
<1>1. CASE at \in 1..Len(s)
  BY <1>1, Inserting DEF Inserted
<1>2. CASE at \notin 1..Len(s)
  BY <1>2, Appending DEF Inserted
<1> QED
  BY <1>1, <1>2

\* The card that was written over keeps its place.
LEMMA Replacing ==
    ASSUME NEW s \in Column, NEW k \in 1..Len(s), NEW y \in CardType, y.id = s[k].id
    PROVE  /\ [s EXCEPT ![k] = y] \in Column /\ Len([s EXCEPT ![k] = y]) = Len(s)
           /\ Apiece(s) => /\ Apiece([s EXCEPT ![k] = y])
                           /\ Of([s EXCEPT ![k] = y]) = (Of(s) \ {s[k]}) \union {y}
<1> DEFINE t == [s EXCEPT ![k] = y]
<1>1. t \in Column /\ Len(t) = Len(s) /\ \A i \in 1..Len(s) : t[i] = IF i = k THEN y ELSE s[i]
  BY DEF Column
<1> HIDE DEF t
<1>2. \A i \in 1..Len(s) : t[i].id = s[i].id
  BY <1>1
<1>3. Of(t) = {t[i] : i \in 1..Len(t)} /\ Of(s) = {s[i] : i \in 1..Len(s)}
  BY <1>1, OfColumn
<1>4. ASSUME Apiece(s) PROVE Apiece(t) /\ Of(t) = (Of(s) \ {s[k]}) \union {y}
  <2>1. Apiece(t)
    BY <1>1, <1>2, <1>4 DEF Apiece
  <2>2. \A i \in 1..Len(s) : i # k => s[i] # s[k]
    BY <1>4 DEF Apiece
  <2>3. Of(t) \subseteq (Of(s) \ {s[k]}) \union {y}
    BY <1>1, <1>3, <2>2
  <2>4. (Of(s) \ {s[k]}) \union {y} \subseteq Of(t)
    BY <1>1, <1>3
  <2> QED
    BY <2>1, <2>3, <2>4
<1> QED
  BY <1>1, <1>4 DEF t

\* To reorder is to permute.
LEMMA Reordering ==
    ASSUME NEW s \in Column, NEW order, NEW t \in Reorderings(s, order)
    PROVE  t \in Column /\ (Apiece(s) => Apiece(t)) /\ Of(t) = Of(s)
<1>1. PICK q \in Bijection(1..Len(s), 1..Len(s)) : t = [i \in 1..Len(s) |-> s[q[i]]]
  BY DEF Reorderings
<1>2. /\ q \in [1..Len(s) -> 1..Len(s)]
      /\ \A i, j \in 1..Len(s) : q[i] = q[j] => i = j
      /\ \A n \in 1..Len(s) : \E i \in 1..Len(s) : q[i] = n
  BY DEF Bijection, Injection, Surjection, IsInjective
<1>3. Len(s) \in Nat /\ \A i \in 1..Len(s) : s[i] \in CardType
  BY OfColumn
<1>4. t \in Column /\ Len(t) = Len(s)
  BY <1>1, <1>2, <1>3 DEF Column
<1>5. Of(t) = {t[i] : i \in 1..Len(s)} /\ Of(s) = {s[i] : i \in 1..Len(s)}
  BY <1>4, OfColumn
<1>6. \A i \in 1..Len(s) : t[i] = s[q[i]]
  BY <1>1
<1>7. Of(t) = Of(s)
  <2>1. ASSUME NEW i \in 1..Len(s) PROVE t[i] \in Of(s)
    BY <1>2, <1>5, <1>6
  <2>2. ASSUME NEW n \in 1..Len(s) PROVE s[n] \in Of(t)
    <3>1. PICK i \in 1..Len(s) : q[i] = n
      BY <1>2
    <3>2. t[i] = s[n]
      BY <1>6, <3>1
    <3> QED
      BY <1>5, <3>2
  <2> QED
    BY <1>5, <2>1, <2>2
<1>8. ASSUME Apiece(s) PROVE Apiece(t)
  <2> SUFFICES ASSUME NEW i \in 1..Len(s), NEW j \in 1..Len(s), t[i].id = t[j].id PROVE i = j
    BY <1>4 DEF Apiece
  <2>1. q[i] \in 1..Len(s) /\ q[j] \in 1..Len(s)
    BY <1>2
  <2>2. s[q[i]].id = s[q[j]].id
    BY <1>6
  <2>3. q[i] = q[j]
    BY <1>8, <2>1, <2>2 DEF Apiece
  <2> QED
    BY <1>2, <2>3
<1> QED
  BY <1>4, <1>7, <1>8

-----------------------------------------------------------------------------
(***************************************************************************)
(* What the steps of a request do to it, and that they keep the types.     *)
(***************************************************************************)
LEMMA OrderIsSeq == \A o \in Orders : o \in Seq(Texts)
<1> SUFFICES ASSUME NEW o \in Orders PROVE o \in Seq(Texts)
  OBVIOUS
<1>1. PICK n \in 1..2 : o \in [1..n -> Texts]
  BY Zenon DEF Orders
<1> QED
  BY <1>1

LEMMA OpFacts ==
    ASSUME NEW op \in OpsOf
    PROVE  OpOK(op)
<1> USE NoneIsNothing DEF OpOK, OpType, Kinds, CardKinds
<1>0. << >> \in Seq(Texts)
  OBVIOUS
<1>1. ASSUME NEW k \in Columns, NEW t \in Texts, op = [Op("add", k) EXCEPT !.text = t] PROVE OpOK(op)
  BY <1>0, <1>1 DEF Op, On
<1>2. ASSUME NEW kind \in {"toggle", "delete", "link"}, NEW k \in Columns, NEW t \in Texts, op = On(kind, k, t)
      PROVE  OpOK(op)
  BY <1>0, <1>2 DEF Op, On
<1>3. ASSUME NEW k \in Columns, NEW t \in Texts, NEW d \in Columns, NEW at \in {0, 1},
             op = MoveOp(k, t, d, at)
      PROVE  OpOK(op)
  <2>1. at \in Nat
    OBVIOUS
  <2>2. /\ op.kind = "move" /\ op.col = k /\ op.to = d /\ op.cid = t /\ op.text = None /\ op.at = at
        /\ op.done = FALSE /\ op.order = << >>
        /\ op = [kind |-> "move", col |-> k, to |-> d, cid |-> t, text |-> None, at |-> at, done |-> FALSE,
                 order |-> << >>]
    BY <1>3 DEF Op, On, MoveOp
  <2> QED
    BY <1>0, <2>1, <2>2
<1>4. ASSUME NEW k \in Columns, NEW t \in Texts, op = [On("archive", k, t) EXCEPT !.to = Archived]
      PROVE  OpOK(op)
  BY <1>0, <1>4 DEF Op, On
<1>5. ASSUME NEW k \in Columns, NEW t \in Texts, NEW u \in Texts, op = [On("patch", k, t) EXCEPT !.text = u]
      PROVE  OpOK(op)
  BY <1>0, <1>5 DEF Op, On
<1>6. ASSUME NEW k \in Columns, NEW t \in Texts, NEW u \in Texts, NEW d \in BOOLEAN,
             op = EditOp(k, t, u, d)
      PROVE  OpOK(op)
  BY <1>0, <1>6 DEF Op, On, EditOp
<1>7. ASSUME NEW k \in Columns, NEW o \in Orders, op = [Op("reorder", k) EXCEPT !.order = o] PROVE OpOK(op)
  BY <1>0, <1>7, OrderIsSeq DEF Op
<1>8. ASSUME NEW kind \in {"newcol", "dropcol"}, NEW k \in Columns, op = Op(kind, k) PROVE OpOK(op)
  BY <1>0, <1>8 DEF Op, On
<1>9. ASSUME NEW k \in Columns, NEW d \in Columns, k # d, op = [Op("rename", k) EXCEPT !.to = d]
      PROVE  OpOK(op)
  BY <1>0, <1>9 DEF Op, On
<1>10. CASE op \in {[Op("add", k) EXCEPT !.text = t] : k \in Columns, t \in Texts}
  BY <1>1, <1>10
<1>11. CASE op \in {On(kind, k, t) : kind \in {"toggle", "delete", "link"}, k \in Columns, t \in Texts}
  BY <1>2, <1>11
<1>12. CASE op \in {MoveOp(k, t, d, at) :
                    k \in Columns, t \in Texts, d \in Columns, at \in {0, 1}}
  <2>1. PICK k \in Columns, t \in Texts, d \in Columns, at \in {0, 1} :
               op = MoveOp(k, t, d, at)
    BY <1>12
  <2> QED
    BY <1>3, <2>1
<1>13. CASE op \in {[On("archive", k, t) EXCEPT !.to = Archived] : k \in Columns \ {Archived}, t \in Texts}
  BY <1>4, <1>13
<1>14. CASE op \in {[On("patch", k, t) EXCEPT !.text = u] : k \in Columns, t \in Texts, u \in Texts}
  BY <1>5, <1>14
<1>15. CASE op \in {EditOp(k, t, u, d) :
                    k \in Columns, t \in Texts, u \in Texts, d \in BOOLEAN}
  <2>1. PICK k \in Columns, t \in Texts, u \in Texts, d \in BOOLEAN :
               op = EditOp(k, t, u, d)
    BY <1>15
  <2> QED
    BY <1>6, <2>1
<1>16. CASE op \in {[Op("reorder", k) EXCEPT !.order = o] : k \in Columns, o \in Orders}
  BY <1>7, <1>16
<1>17. CASE op \in {Op(kind, k) : kind \in {"newcol", "dropcol"}, k \in Columns}
  BY <1>8, <1>17
<1>18. CASE op \in {[Op("rename", p[1]) EXCEPT !.to = p[2]] : p \in {q \in Columns \X Columns : q[1] # q[2]}}
  BY <1>9, <1>18
<1> QED
  BY <1>10, <1>11, <1>12, <1>13, <1>14, <1>15, <1>16, <1>17, <1>18 DEF OpsOf

\* Every set of numbers has a least one.
LEMMA Least ==
    ASSUME NEW S, S \subseteq Nat, S # {}
    PROVE  \E n \in S : \A m \in S : n <= m
<1>1. IsWellFoundedOn(OpToRel(<, Nat), Nat)
  BY NatLessThanWellFounded
<1>2. PICK n \in S : \A m \in S : <<m, n>> \notin OpToRel(<, Nat)
  BY <1>1, WFMin
<1>3. \A m \in S : m < n => <<m, n>> \in OpToRel(<, Nat)
  BY DEF OpToRel
<1>4. \A m \in S : ~(m < n)
  BY <1>2, <1>3
<1> QED
  BY <1>4

LEMMA Finding ==
    ASSUME NEW s \in Column, NEW t, Find(s, t) # 0
    PROVE  Find(s, t) \in 1..Len(s) /\ s[Find(s, t)].text = t
<1> DEFINE at == {i \in 1..Len(s) : s[i].text = t}
<1>1. Find(s, t) = CHOOSE i \in at : \A j \in at : i <= j
  BY DEF Find
<1>2. at \subseteq Nat /\ at # {}
  BY DEF Find
<1> HIDE DEF at
<1>3. \E i \in at : \A j \in at : i <= j
  BY <1>2, Least
<1>4. Find(s, t) \in at
  BY <1>1, <1>3
<1> QED
  BY <1>4 DEF at

\* The other requests stay, and this one goes on as r.
Becomes(c, r) ==
    /\ call' \in [Calls -> CallType] /\ (\A d \in Calls : CallOK(call'[d]))
    /\ call'[c] = r /\ \A d \in Calls : d # c => call'[d] = call[d]

LEMMA Becoming ==
    ASSUME BoardTypes, NEW c \in Calls, NEW r \in CallType, CallOK(r), call' = [call EXCEPT ![c] = r]
    PROVE  Becomes(c, r)
  BY DEF Becomes, BoardTypes

LEMMA IdleIsCall == Idle \in CallType /\ CallOK(Idle) /\ Idle.pc = "idle"
  BY DEF Idle, CallType, CallSteps, CallOK

LEMMA DoneBecomes ==
    ASSUME BoardTypes, NEW c \in Calls, Done(c)
    PROVE  Becomes(c, Idle)
  BY IdleIsCall, Becoming DEF Done

LEMMA RequestBecomes ==
    ASSUME BoardTypes, NEW c \in Calls, NEW op \in OpsOf, Request(c, op)
    PROVE  /\ Becomes(c, call'[c]) /\ OpOK(op)
           /\ call'[c].op = op /\ call'[c].body = None /\ call'[c].i = 0
           /\ call'[c].pc \in {"create", "column", "read"}
           /\ call'[c].pc = "create" <=> op.kind \in {"newcol", "archive"}
           /\ call'[c].pc = "column" <=> op.kind \in {"dropcol", "rename"}
<1> DEFINE p == IF op.kind \in {"newcol", "archive"} THEN "create"
                ELSE IF op.kind \in {"dropcol", "rename"} THEN "column" ELSE "read"
           r == [Idle EXCEPT !.op = op, !.pc = p]
<1>1. call' = [call EXCEPT ![c] = r]
  BY DEF Request
<1>2. OpOK(op)
  BY OpFacts
<1>3. op \in OpType /\ op.kind \in Kinds
  BY <1>2 DEF OpOK, OpType
<1>4. /\ p \in {"create", "column", "read"}
      /\ p = "create" <=> op.kind \in {"newcol", "archive"}
      /\ p = "column" <=> op.kind \in {"dropcol", "rename"}
  OBVIOUS
<1> HIDE DEF p
<1>5. r \in CallType /\ r.pc = p /\ r.op = op /\ r.body = None /\ r.i = 0
  BY <1>3, <1>4 DEF CallType, CallSteps, Idle
<1> HIDE DEF r
<1>6. CallOK(r)
  BY <1>2, <1>3, <1>4, <1>5 DEF CallOK, Kinds, CardKinds
<1>7. Becomes(c, r)
  BY <1>1, <1>5, <1>6, Becoming
<1>8. call'[c] = r
  BY <1>7 DEF Becomes
<1> QED
  BY <1>2, <1>4, <1>5, <1>7, <1>8

LEMMA OpOf ==
    ASSUME BoardTypes, NEW c \in Calls, call[c].pc # "idle"
    PROVE  /\ call[c] \in CallType /\ CallOK(call[c]) /\ OpOK(call[c].op)
           /\ call[c].op.col \in Columns /\ call[c].op.to \in Columns /\ call[c].op.kind \in Kinds
           /\ files[call[c].op.col] \in Column \union {None} /\ files[call[c].op.to] \in Column \union {None}
<1>1. call[c] \in CallType /\ CallOK(call[c])
  BY DEF BoardTypes
<1>2. OpOK(call[c].op)
  BY <1>1 DEF CallOK
<1> QED
  BY <1>1, <1>2 DEF OpOK, OpType, BoardTypes, Boards

-----------------------------------------------------------------------------
(***************************************************************************)
(* What the operations make of a column, and of the card they are for.     *)
(***************************************************************************)
\* Request c is about to write its column.
Writes(c) == BoardTypes /\ c \in Calls /\ call[c].pc = "write"

LEMMA WriteOf ==
    ASSUME NEW c, Writes(c)
    PROVE  /\ call[c] \in CallType /\ OpOK(call[c].op) /\ call[c].op \in OpType
           /\ call[c].op.kind \in CardKinds \union {"add", "reorder"}
           /\ call[c].op.kind \in CardKinds =>
                  /\ call[c].body \in Column /\ call[c].i \in 1..Len(call[c].body) /\ call[c].i # 0
                  /\ call[c].body[call[c].i].text = call[c].op.cid
           /\ call[c].op.kind \notin CardKinds => call[c].i = 0
           /\ call[c].op.kind = "reorder" => call[c].body \in Column
           /\ call[c].body \in Column \union {None}
<1>1. call[c] \in CallType /\ CallOK(call[c])
  BY DEF Writes, BoardTypes
<1>2. /\ OpOK(call[c].op) /\ call[c].body \in Column \union {None}
      /\ call[c].op.kind \in CardKinds \union {"add", "reorder"}
      /\ call[c].op.kind \in CardKinds =>
             /\ call[c].body # None /\ call[c].i \in 1..Len(call[c].body)
             /\ call[c].body[call[c].i].text = call[c].op.cid
      /\ call[c].op.kind \notin CardKinds =>
             call[c].i = 0 /\ (call[c].body # None \/ call[c].op.kind = "add")
  BY <1>1 DEF CallOK, CallType, Writes
<1>3. call[c].body \in Column => Len(call[c].body) \in Nat
  BY OfColumn
<1> QED
  BY <1>1, <1>2, <1>3 DEF OpOK, CardKinds

LEMMA SameCard ==
    ASSUME NEW x \in CardType, NEW y \in CardType,
           x.id = y.id, x.text = y.text, x.done = y.done, x.loop = y.loop
    PROVE  x = y
  BY DEF CardType

\* A new card goes to the end of its column.
LEMMA Adding ==
    ASSUME NEW c, Writes(c), call[c].op.kind = "add", next <= MaxCards,
           NEW t \in Results(call[c].op, call[c].body, call[c].i)
    PROVE  LET body == IF call[c].body = None THEN << >> ELSE call[c].body
               x == Card(next, call[c].op.text)
           IN  /\ body \in Column /\ x \in CardType /\ x.id = next
               /\ t \in Column /\ \E j : PutAt(t, body, x, j)
<1> DEFINE body == IF call[c].body = None THEN << >> ELSE call[c].body
           x == Card(next, call[c].op.text)
<1>1. call[c].op.text \in Texts
  BY WriteOf DEF OpOK, OpType
<1>2. next \in 1..MaxCards
  BY NoneIsNothing DEF Writes, BoardTypes
<1>3. x \in CardType /\ x.id = next
  BY <1>1, <1>2 DEF Card, CardType
<1>4. body \in Column
  BY WriteOf DEF Column
<1>5. t = Append(body, x)
  BY DEF Results, Result, Added
<1> HIDE DEF body, x
<1>6. t \in Column /\ PutAt(t, body, x, Len(body) + 1)
  BY <1>3, <1>4, <1>5, Appending
<1> QED
  BY <1>3, <1>4, <1>6 DEF body, x

\* What is done to a card where it is.
Rewritten(op, body, i, t, y) ==
    /\ y.id = body[i].id /\ t = [body EXCEPT ![i] = y]
    /\ op.kind = "link" => [y EXCEPT !.loop = None] = [body[i] EXCEPT !.loop = None]
    /\ (op.kind # "edit" \/ body[i].loop = None) => y = Meant(op, y.id, body[i])

LEMMA Rewriting ==
    ASSUME NEW c, Writes(c), call[c].op.kind \in {"toggle", "patch", "edit", "link"},
           NEW t \in Results(call[c].op, call[c].body, call[c].i)
    PROVE  \E y \in CardType : Rewritten(call[c].op, call[c].body, call[c].i, t, y)
<1> DEFINE op == call[c].op
           body == call[c].body
           i == call[c].i
           x == body[i]
<1>1. /\ body \in Column /\ i \in 1..Len(body) /\ op \in OpType
      /\ op.kind \in {"patch", "edit"} => op.text \in Texts
  BY WriteOf DEF CardKinds, OpOK, OpType
<1>2. x \in CardType
  BY <1>1, OfColumn
<1>3. t = Result(op, body, i)
  BY DEF Results
<1>4. op.done \in BOOLEAN
  BY <1>1 DEF OpType
<1> HIDE DEF op, body, i, x
<1>5. CASE op.kind = "toggle"
  <2> DEFINE y == [x EXCEPT !.done = ~@]
  <2>1. t = [body EXCEPT ![i] = y]
    BY <1>3, <1>5 DEF Result, Toggled, x
  <2>2. y \in CardType /\ y.id = x.id
    BY <1>2 DEF CardType
  <2>3. y = Meant(op, y.id, x)
    BY <1>5 DEF Meant
  <2> HIDE DEF y
  <2> QED
    BY <1>5, <2>1, <2>2, <2>3 DEF Rewritten, op, body, i, x
<1>6. CASE op.kind = "patch"
  <2> DEFINE y == [x EXCEPT !.text = op.text]
  <2>1. t = [body EXCEPT ![i] = y]
    BY <1>3, <1>6 DEF Result, Patched, x
  <2>2. y \in CardType /\ y.id = x.id
    BY <1>1, <1>2, <1>6 DEF CardType
  <2>3. y = Meant(op, y.id, x)
    BY <1>6 DEF Meant
  <2> HIDE DEF y
  <2> QED
    BY <1>6, <2>1, <2>2, <2>3 DEF Rewritten, op, body, i, x
<1>7. CASE op.kind = "edit"
  <2> DEFINE y == [Card(x.id, op.text) EXCEPT !.done = op.done]
  <2>1. t = [body EXCEPT ![i] = y]
    BY <1>3, <1>7 DEF Result, Edited, x
  <2>2. y \in CardType /\ y.id = x.id
    BY <1>1, <1>2, <1>4, <1>7 DEF CardType, Card
  <2>3. x.loop = None => y = Meant(op, y.id, x)
    <3> DEFINE z == [x EXCEPT !.text = op.text, !.done = op.done]
    <3>1. /\ z \in CardType /\ z.id = x.id /\ z.text = op.text /\ z.done = op.done /\ z.loop = x.loop
      BY <1>1, <1>2, <1>4, <1>7 DEF CardType
    <3>2. /\ y.id = x.id /\ y.text = op.text /\ y.done = op.done /\ y.loop = None
      BY DEF Card
    <3>3. Meant(op, y.id, x) = z
      BY <1>7 DEF Meant
    <3> HIDE DEF y, z
    <3> QED
      BY <2>2, <3>1, <3>2, <3>3, SameCard
  <2> HIDE DEF y
  <2> QED
    BY <1>7, <2>1, <2>2, <2>3 DEF Rewritten, op, body, i, x
<1>8. CASE op.kind = "link"
  <2> DEFINE y == [x EXCEPT !.loop = IF @ = None THEN Loop ELSE @]
  <2>1. t = [body EXCEPT ![i] = y]
    BY <1>3, <1>8 DEF Result, Linked, x
  <2>2. y \in CardType /\ y.id = x.id
    BY <1>2 DEF CardType
  <2>3. y = Meant(op, y.id, x)
    BY <1>8 DEF Meant
  <2>4. [y EXCEPT !.loop = None] = [x EXCEPT !.loop = None]
    BY <1>2 DEF CardType
  <2> HIDE DEF y
  <2> QED
    BY <1>8, <2>1, <2>2, <2>3, <2>4 DEF Rewritten, op, body, i, x
<1> QED
  BY <1>5, <1>6, <1>7, <1>8 DEF op

LEMMA Taken ==
    ASSUME NEW c, Writes(c), call[c].op.kind \in {"delete", "move", "archive"},
           NEW t \in Results(call[c].op, call[c].body, call[c].i)
    PROVE  t \in Column /\ PutAt(call[c].body, t, call[c].body[call[c].i], call[c].i)
<1>1. call[c].body \in Column /\ call[c].i \in 1..Len(call[c].body)
  BY WriteOf DEF CardKinds
<1>2. t = RemoveAt(call[c].body, call[c].i)
  BY DEF Results, Result, Deleted
<1> QED
  BY <1>1, <1>2, Removing

LEMMA ResultTyped ==
    ASSUME NEW c, Writes(c), call[c].op.kind = "add" => next <= MaxCards,
           NEW t \in Results(call[c].op, call[c].body, call[c].i)
    PROVE  t \in Column
<1>1. CASE call[c].op.kind = "add"
  BY <1>1, Adding
<1>2. CASE call[c].op.kind \in {"toggle", "patch", "edit", "link"}
  <2>1. PICK y \in CardType : Rewritten(call[c].op, call[c].body, call[c].i, t, y)
    BY <1>2, Rewriting
  <2>2. call[c].body \in Column /\ call[c].i \in 1..Len(call[c].body)
    BY <1>2, WriteOf DEF CardKinds
  <2> QED
    BY <2>1, <2>2, Replacing DEF Rewritten
<1>3. CASE call[c].op.kind \in {"delete", "move", "archive"}
  BY <1>3, Taken
<1>4. CASE call[c].op.kind = "reorder"
  BY <1>4, WriteOf, Reordering DEF Results
<1> QED
  BY <1>1, <1>2, <1>3, <1>4, WriteOf DEF CardKinds

LEMMA GoesTo ==
    ASSUME BoardTypes, NEW c \in Calls, NEW p \in CallSteps, CallOK([call[c] EXCEPT !.pc = p]),
           call' = [call EXCEPT ![c].pc = p]
    PROVE  /\ Becomes(c, call'[c])
           /\ call'[c].pc = p /\ call'[c].op = call[c].op
           /\ call'[c].body = call[c].body /\ call'[c].i = call[c].i
<1> DEFINE r == [call[c] EXCEPT !.pc = p]
<1>1. call[c] \in CallType
  BY DEF BoardTypes
<1>2. r \in CallType /\ r.pc = p /\ r.op = call[c].op /\ r.body = call[c].body /\ r.i = call[c].i
  BY <1>1 DEF CallType
<1>3. CallOK(r) /\ call' = [call EXCEPT ![c] = r]
  OBVIOUS
<1> HIDE DEF r
<1>4. Becomes(c, r)
  BY <1>2, <1>3, Becoming
<1>5. call'[c] = r
  BY <1>4 DEF Becomes
<1> QED
  BY <1>2, <1>4, <1>5

LEMMA IsCallStep ==
    /\ "idle" \in CallSteps /\ "create" \in CallSteps /\ "column" \in CallSteps /\ "read" \in CallSteps
    /\ "write" \in CallSteps /\ "target" \in CallSteps /\ "insert" \in CallSteps
  BY DEF CallSteps

LEMMA CreateBecomes ==
    ASSUME BoardTypes, NEW c \in Calls, CreateColumn(c)
    PROVE  /\ Becomes(c, call'[c])
           /\ \/ call'[c] = Idle
              \/ call[c].op.kind = "archive" /\ call'[c].pc = "read" /\ call'[c].op = call[c].op
<1>1. call[c].pc = "create" /\ call[c] \in CallType /\ CallOK(call[c])
  BY DEF CreateColumn, BoardTypes
<1>2. CASE call[c].op.kind = "archive"
  <2>1. call' = [call EXCEPT ![c].pc = "read"]
    BY <1>2 DEF CreateColumn
  <2>2. CallOK([call[c] EXCEPT !.pc = "read"])
    BY <1>1, <1>2 DEF CallOK, CallType, CardKinds
  <2> QED
    BY <1>2, <2>1, <2>2, GoesTo, IsCallStep
<1>3. CASE call[c].op.kind # "archive"
  <2>1. Becomes(c, Idle)
    BY <1>3, DoneBecomes DEF CreateColumn
  <2> QED
    BY <2>1 DEF Becomes
<1> QED
  BY <1>2, <1>3

LEMMA ReadBecomes ==
    ASSUME BoardTypes, NEW c \in Calls, Read(c)
    PROVE  /\ Becomes(c, call'[c])
           /\ \/ call'[c] = Idle
              \/ /\ call'[c].pc = "write" /\ call'[c].op = call[c].op
                 /\ call'[c].body = files[call[c].op.col]
<1> DEFINE op == call[c].op
           body == files[op.col]
           i == IF body = None \/ op.cid = None THEN 0 ELSE Find(body, op.cid)
           found == IF op.cid = None THEN body # None \/ op.kind = "add" ELSE i # 0
           r == [call[c] EXCEPT !.pc = "write", !.body = body, !.i = i]
<1>1. /\ call[c].pc = "read" /\ call[c] \in CallType /\ CallOK(call[c]) /\ OpOK(op)
      /\ body \in Column \union {None}
  BY OpOf DEF Read
<1>2. CASE ~found
  <2>1. Becomes(c, Idle)
    BY <1>2, DoneBecomes DEF Read
  <2> QED
    BY <2>1 DEF Becomes
<1>3. CASE found
  <2>1. call' = [call EXCEPT ![c] = r]
    BY <1>3 DEF Read
  <2>2. op.cid # None => body \in Column /\ i \in 1..Len(body) /\ body[i].text = op.cid
    BY <1>1, <1>3, Finding
  <2>3. op.cid = None => i = 0 /\ (body # None \/ op.kind = "add")
    BY <1>3
  <2>4. i \in Nat
    BY <2>2, <2>3
  <2>5. op.kind \in CardKinds \union {"add", "reorder"} /\ (op.cid # None <=> op.kind \in CardKinds)
    BY <1>1 DEF CallOK, OpOK
  <2> HIDE DEF body, i, found
  <2>6. r \in CallType /\ r.pc = "write" /\ r.op = op /\ r.body = body /\ r.i = i
    BY <1>1, <2>4, IsCallStep DEF CallType
  <2> HIDE DEF r, op
  <2>7. CallOK(r)
    BY <1>1, <2>2, <2>3, <2>5, <2>6, NoneIsNothing DEF CallOK
  <2>8. Becomes(c, r)
    BY <2>1, <2>6, <2>7, Becoming
  <2>9. call'[c] = r
    BY <2>8 DEF Becomes
  <2> QED
    BY <2>6, <2>8, <2>9 DEF body, op
<1> QED
  BY <1>2, <1>3

LEMMA WriteBecomes ==
    ASSUME BoardTypes, NEW c \in Calls, Write(c)
    PROVE  /\ Becomes(c, call'[c]) /\ Writes(c)
           /\ IF call[c].op.kind \in {"move", "archive"}
              THEN /\ call'[c].pc = "target" /\ call'[c].op = call[c].op
                   /\ call'[c].body = call[c].body /\ call'[c].i = call[c].i
              ELSE call'[c] = Idle
<1>1. Writes(c)
  BY DEF Writes, Write
<1>2. CASE call[c].op.kind \in {"move", "archive"}
  <2>1. call' = [call EXCEPT ![c].pc = "target"]
    BY <1>2 DEF Write
  <2>2. CallOK([call[c] EXCEPT !.pc = "target"])
    BY <1>1, <1>2, WriteOf, NoneIsNothing DEF CallOK, CallType, CardKinds
  <2> QED
    BY <1>1, <1>2, <2>1, <2>2, GoesTo, IsCallStep
<1>3. CASE call[c].op.kind \notin {"move", "archive"}
  <2>1. Becomes(c, Idle)
    BY <1>3, DoneBecomes DEF Write
  <2> QED
    BY <1>1, <1>3, <2>1 DEF Becomes
<1> QED
  BY <1>2, <1>3

\* A move that has taken its card out of the one file and has it in its hands.
LEMMA TargetOf ==
    ASSUME BoardTypes, NEW c \in Calls, call[c].pc = "target"
    PROVE  /\ call[c].body \in Column /\ call[c].i \in 1..Len(call[c].body)
           /\ call[c].body[call[c].i] \in CardType
           /\ call[c].op.to \in Columns /\ call[c].op.kind \in {"move", "archive"}
           /\ files[call[c].op.to] \in Column \union {None}
<1>1. call[c] \in CallType /\ CallOK(call[c])
  BY DEF BoardTypes
<1>2. call[c].body \in Column /\ call[c].i \in 1..Len(call[c].body) /\ call[c].op.kind \in {"move", "archive"}
  BY <1>1 DEF CallOK, CallType
<1> QED
  BY <1>2, OfColumn, OpOf

LEMMA ReadTargetBecomes ==
    ASSUME BoardTypes, NEW c \in Calls, ReadTarget(c)
    PROVE  LET x == call[c].body[call[c].i]  to == files[call[c].op.to] IN
           /\ Becomes(c, call'[c]) /\ call[c].pc = "target"
           /\ call'[c].pc = "insert" /\ call'[c].op = call[c].op
           /\ call'[c].body \in Column
           /\ \E j : PutAt(call'[c].body, IF to = None THEN << >> ELSE to, x, j)
<1> DEFINE x == call[c].body[call[c].i]
           to == files[call[c].op.to]
           b == IF to = None THEN <<x>> ELSE Inserted(to, x, call[c].op.at)
           r == [call[c] EXCEPT !.pc = "insert", !.body = b]
<1>1. /\ call[c].pc = "target" /\ x \in CardType /\ to \in Column \union {None}
      /\ call[c].op.kind \in {"move", "archive"}
      /\ call[c] \in CallType /\ CallOK(call[c])
  BY TargetOf DEF ReadTarget, BoardTypes
<1>2. b \in Column /\ \E j : PutAt(b, IF to = None THEN << >> ELSE to, x, j)
  <2>1. CASE to = None
    <3>1. << >> \in Column /\ <<x>> = Append(<< >>, x)
      BY DEF Column
    <3> QED
      BY <1>1, <2>1, <3>1, Appending
  <2>2. CASE to # None
    BY <1>1, <2>2, Moving
  <2> QED
    BY <2>1, <2>2
<1>3. call' = [call EXCEPT ![c] = r]
  BY DEF ReadTarget
<1> HIDE DEF b
<1>4. /\ r \in CallType /\ r.pc = "insert" /\ r.op = call[c].op /\ r.body = b
  BY <1>1, <1>2, IsCallStep DEF CallType
<1> HIDE DEF r
<1>5. CallOK(r)
  BY <1>1, <1>2, <1>4, NoneIsNothing DEF CallOK
<1>6. Becomes(c, r)
  BY <1>3, <1>4, <1>5, Becoming
<1>7. call'[c] = r
  BY <1>6 DEF Becomes
<1> QED
  BY <1>1, <1>2, <1>4, <1>6, <1>7

\* What every step of a request does to it.
LEMMA ServeBecomes ==
    ASSUME BoardTypes, NEW c \in Calls, Serve(c)
    PROVE  Becomes(c, call'[c]) /\ call[c].pc # "idle" /\ (call'[c] = Idle \/ call'[c].op = call[c].op)
<1>1. CASE CreateColumn(c)
  BY <1>1, CreateBecomes DEF CreateColumn
<1>2. CASE ChangeColumn(c)
  BY <1>2, DoneBecomes DEF ChangeColumn, Becomes
<1>3. CASE Read(c)
  BY <1>3, ReadBecomes DEF Read
<1>4. CASE Write(c)
  BY <1>4, WriteBecomes DEF Write
<1>5. CASE ReadTarget(c)
  BY <1>5, ReadTargetBecomes DEF ReadTarget
<1>6. CASE WriteTarget(c)
  BY <1>6, DoneBecomes DEF WriteTarget, Becomes
<1> QED
  BY <1>1, <1>2, <1>3, <1>4, <1>5, <1>6 DEF Serve

\* A step of a request leaves the columns alone that it does not touch.
LEMMA ServeTouches ==
    ASSUME BoardTypes, NEW c \in Calls, Serve(c)
    PROVE  /\ files' \in Boards
           /\ \A k \in Columns : k \notin Touches(call[c].op) => files'[k] = files[k]
<1>0. /\ files \in Boards /\ call[c].pc # "idle" /\ call[c].op.col \in Columns /\ call[c].op.to \in Columns
      /\ files[call[c].op.col] \in Column \union {None}
  BY ServeBecomes, OpOf DEF BoardTypes
<1> USE DEF Touches, Boards
<1>1. CASE CreateColumn(c)
  <2>1. << >> \in Column /\ files' = [files EXCEPT ![call[c].op.to] = << >>]
    BY <1>1 DEF CreateColumn, Column
  <2> QED
    BY <1>0, <2>1
<1>2. CASE ChangeColumn(c)
  <2> DEFINE k == call[c].op.col
             d == call[c].op.to
  <2>1. \/ files' = files
        \/ files' = [files EXCEPT ![d] = files[k], ![k] = None]
        \/ files' = [files EXCEPT ![k] = None]
    BY <1>2 DEF ChangeColumn
  <2> QED
    BY <1>0, <2>1
<1>3. CASE Read(c) \/ ReadTarget(c)
  BY <1>0, <1>3 DEF Read, ReadTarget, board
<1>4. CASE Write(c)
  <2>1. PICK t \in Results(call[c].op, call[c].body, call[c].i) :
               files' = [files EXCEPT ![call[c].op.col] = t]
    BY <1>4 DEF Write
  <2>2. t \in Column
    BY <1>4, ResultTyped, WriteBecomes DEF Write
  <2> QED
    BY <1>0, <2>1, <2>2
<1>5. CASE WriteTarget(c)
  <2>1. call[c].body \in Column /\ files' = [files EXCEPT ![call[c].op.to] = call[c].body]
    BY <1>5 DEF WriteTarget, BoardTypes, CallOK, CallType
  <2> QED
    BY <1>0, <2>1
<1> QED
  BY <1>1, <1>2, <1>3, <1>4, <1>5 DEF Serve

LEMMA BoardTypesInit == Init => BoardTypes
<1> SUFFICES ASSUME Init PROVE BoardTypes
  OBVIOUS
<1>1. << >> \in Column /\ Blank \in Boards
  BY DEF Blank, Boards, Column
<1>2. files \in Boards
  BY <1>1 DEF Init, Boards
<1>3. << >> \in Seq(Boards)
  OBVIOUS
<1> QED
  BY <1>1, <1>2, <1>3, IdleIsCall DEF Init, BoardTypes

LEMMA BoardTypesStep == BoardTypes /\ [Next]_vars => BoardTypes'
<1> SUFFICES ASSUME BoardTypes, [Next]_vars PROVE BoardTypes'
  OBVIOUS
<1>0. /\ files \in Boards /\ call \in [Calls -> CallType] /\ \A c \in Calls : CallOK(call[c])
      /\ next \in Nat \ {0} /\ view \in Boards /\ told \in Nat /\ fetches \in Seq(Boards)
  BY DEF BoardTypes
<1>1. ASSUME NEW c \in Calls, Serve(c) PROVE BoardTypes'
  <2>1. Becomes(c, call'[c]) /\ files' \in Boards
    BY <1>1, ServeBecomes, ServeTouches
  <2>2. next' \in Nat \ {0} /\ told' \in Nat
    <3>1. CASE CreateColumn(c) \/ WriteTarget(c)
      BY <1>0, <3>1 DEF CreateColumn, WriteTarget, Notify
    <3>2. CASE ChangeColumn(c)
      BY <1>0, <3>2 DEF ChangeColumn, Notify
    <3>3. CASE Read(c) \/ ReadTarget(c)
      BY <1>0, <3>3 DEF Read, ReadTarget, board, tab
    <3>4. CASE Write(c)
      <4>1. next' \in {next, next + 1} /\ told' \in {told, told + 1}
        BY <3>4 DEF Write, Notify
      <4> QED
        BY <1>0, <4>1
    <3> QED
      BY <1>1, <3>1, <3>2, <3>3, <3>4 DEF Serve
  <2>3. view' = view /\ fetches' = fetches
    BY <1>1 DEF Serve, CreateColumn, ChangeColumn, Read, Write, ReadTarget, WriteTarget, tab
  <2> QED
    BY <1>0, <2>1, <2>2, <2>3 DEF BoardTypes, Becomes
<1>2. ASSUME NEW c \in Calls, NEW op \in OpsOf, Request(c, op) PROVE BoardTypes'
  BY <1>0, <1>2, RequestBecomes DEF Request, board, tab, BoardTypes, Becomes
<1>3. CASE Crash
  <2>1. call' = [c \in Calls |-> Idle]
    BY <1>3 DEF Crash
  <2>2. call' \in [Calls -> CallType] /\ \A c \in Calls : CallOK(call'[c])
    BY <2>1, IdleIsCall
  <2> QED
    BY <1>0, <1>3, <2>2 DEF Crash, board, BoardTypes
<1>4. CASE Hear
  <2>1. Append(fetches, files) \in Seq(Boards)
    BY <1>0
  <2> QED
    BY <1>0, <1>4, <2>1 DEF Hear, board, BoardTypes
<1>5. ASSUME NEW n \in 1..Len(fetches), Show(n) PROVE BoardTypes'
  <2>1. fetches[n] \in Boards
    BY <1>0
  <2>2. RemoveAt(fetches, n) \in Seq(Boards)
    BY <1>0 DEF RemoveAt
  <2> QED
    BY <1>0, <1>5, <2>1, <2>2 DEF Show, board, BoardTypes
<1>6. CASE UNCHANGED vars
  BY <1>0, <1>6 DEF vars, board, tab, BoardTypes
<1> QED
  BY <1>1, <1>2, <1>3, <1>4, <1>5, <1>6 DEF Next

-----------------------------------------------------------------------------
(***************************************************************************)
(* While requests keep apart, what they have read is what there is.        *)
(***************************************************************************)
\* The others count on columns this one does not touch.
LEMMA OthersColumns ==
    ASSUME BoardTypes, Apart, NEW c \in Calls, Serve(c), NEW d \in Calls, d # c, call[d].pc # "idle"
    PROVE  files'[call[d].op.col] = files[call[d].op.col] /\ files'[call[d].op.to] = files[call[d].op.to]
<1>1. call[c].pc # "idle" /\ call[d].op.col \in Columns /\ call[d].op.to \in Columns
  BY ServeBecomes, OpOf
<1>2. call[d].op.col \notin Touches(call[c].op) /\ call[d].op.to \notin Touches(call[c].op)
  BY <1>1 DEF Apart, Touches
<1> QED
  BY <1>1, <1>2, ServeTouches

LEMMA ApartStep ==
    ASSUME BoardTypes, Apart, "overlap" \notin Hazards, [Next]_vars
    PROVE  Apart'
<1>1. ASSUME NEW c \in Calls, Serve(c) PROVE Apart'
  <2>1. Becomes(c, call'[c]) /\ call[c].pc # "idle" /\ (call'[c] = Idle \/ call'[c].op = call[c].op)
    BY <1>1, ServeBecomes
  <2>2. ASSUME NEW d \in Calls, call'[d].pc # "idle" PROVE call[d].pc # "idle" /\ call'[d].op = call[d].op
    BY <2>1, <2>2, IdleIsCall DEF Becomes
  <2> QED
    BY <2>2 DEF Apart
<1>2. ASSUME NEW c \in Calls, NEW op \in OpsOf, Request(c, op) PROVE Apart'
  <2>1. Becomes(c, call'[c]) /\ call'[c].op = op
    BY <1>2, RequestBecomes
  <2>2. ASSUME NEW d \in Calls, d # c, call[d].pc # "idle"
        PROVE  Touches(call[d].op) \intersect Touches(op) = {}
    BY <1>2, <2>2 DEF Request, Careful, InUse
  <2> QED
    BY <2>1, <2>2 DEF Apart, Becomes
<1>3. CASE Crash
  <2>1. \A c \in Calls : call'[c].pc = "idle"
    BY <1>3, IdleIsCall DEF Crash
  <2> QED
    BY <2>1 DEF Apart
<1>4. CASE Hear \/ (\E n \in 1..Len(fetches) : Show(n)) \/ UNCHANGED vars
  BY <1>4 DEF Hear, Show, vars, Apart
<1> QED
  BY <1>1, <1>2, <1>3, <1>4 DEF Next

LEMMA FreshStep ==
    ASSUME BoardTypes, Apart, Fresh, "overlap" \notin Hazards, [Next]_vars
    PROVE  Fresh'
<1>1. ASSUME NEW c \in Calls, Serve(c) PROVE Fresh'
  <2>1. Becomes(c, call'[c])
    BY <1>1, ServeBecomes
  <2>2. ASSUME NEW d \in Calls, d # c, call'[d].pc = "write" PROVE call'[d].body = files'[call'[d].op.col]
    BY <1>1, <2>1, <2>2, OthersColumns DEF Fresh, Becomes
  <2>3. ASSUME call'[c].pc = "write" PROVE call'[c].body = files'[call'[c].op.col]
    <3>1. Read(c)
      BY <1>1, <2>3, CreateBecomes, WriteBecomes, ReadTargetBecomes, DoneBecomes, IdleIsCall
         DEF Serve, ChangeColumn, WriteTarget, Becomes
    <3> QED
      BY <2>3, <3>1, ReadBecomes, IdleIsCall DEF Read, board
  <2> QED
    BY <2>2, <2>3 DEF Fresh
<1>2. ASSUME NEW c \in Calls, NEW op \in OpsOf, Request(c, op) PROVE Fresh'
  BY <1>2, RequestBecomes DEF Fresh, Becomes, Request, board
<1>3. CASE Crash
  BY <1>3, IdleIsCall DEF Crash, Fresh
<1>4. CASE Hear \/ (\E n \in 1..Len(fetches) : Show(n)) \/ UNCHANGED vars
  BY <1>4 DEF Hear, Show, vars, board, Fresh
<1> QED
  BY <1>1, <1>2, <1>3, <1>4 DEF Next

-----------------------------------------------------------------------------
(***************************************************************************)
(* The tabs.  Whatever changes what a column shows tells them, but for the *)
(* first half of a move.                                                   *)
(***************************************************************************)
LEMMA LinkShowsNothing ==
    ASSUME NEW s \in Column, NEW i \in 1..Len(s), NEW y \in CardType,
           [y EXCEPT !.loop = None] = [s[i] EXCEPT !.loop = None],
           files \in Boards, NEW k \in Columns, files[k] = s, files' = [files EXCEPT ![k] = [s EXCEPT ![i] = y]]
    PROVE  Shown(files') = Shown(files)
<1> DEFINE t == [s EXCEPT ![i] = y]
           face(b) == IF b = None THEN None ELSE [j \in 1..Len(b) |-> [b[j] EXCEPT !.loop = None]]
<1>1. /\ Len(t) = Len(s) /\ t # None /\ s # None
      /\ \A j \in 1..Len(s) : t[j] = IF j = i THEN y ELSE s[j]
  BY NoneIsNothing DEF Column
<1>2. files'[k] = t /\ files[k] = s /\ \A m \in Columns : m # k => files'[m] = files[m]
  BY DEF Boards
<1> HIDE DEF t
<1>3. face(t) = face(s)
  BY <1>1
<1>4. Shown(files') = [m \in Columns |-> face(files'[m])] /\ Shown(files) = [m \in Columns |-> face(files[m])]
  BY Zenon DEF Shown
<1> HIDE DEF face
<1>5. ASSUME NEW m \in Columns PROVE face(files'[m]) = face(files[m])
  <2>1. CASE m = k
    BY <1>2, <1>3, <2>1, Zenon
  <2>2. CASE m # k
    BY <1>2, <2>2, Zenon
  <2> QED
    BY <2>1, <2>2
<1>6. [m \in Columns |-> face(files'[m])] = [m \in Columns |-> face(files[m])]
  BY <1>5, Zenon
<1> QED
  BY <1>4, <1>6, Zenon

\* A step that tells the tabs nothing changes nothing that shows.
LEMMA TabFrame ==
    ASSUME TabInv, told' = told, Latest' = Latest, Shown(files') = Shown(files),
           \A d \in Calls : call[d].pc \in {"target", "insert"} => call'[d].pc \in {"target", "insert"}
    PROVE  TabInv'
  BY DEF TabInv

LEMMA TabStep ==
    ASSUME BoardTypes, Apart, Fresh, TabInv, {"overlap", "reorder"} \intersect Hazards = {}, [Next]_vars
    PROVE  TabInv'
<1>0. fetches \in Seq(Boards) /\ told \in Nat /\ files \in Boards
  BY DEF BoardTypes
<1>1. ASSUME told' # 0 PROVE TabInv'
  BY <1>1 DEF TabInv
<1>2. ASSUME NEW c \in Calls, Serve(c) PROVE TabInv'
  <2>0. /\ view' = view /\ fetches' = fetches /\ Latest' = Latest
        /\ Becomes(c, call'[c]) /\ \A d \in Calls : d # c => call'[d] = call[d]
    BY <1>2, ServeBecomes
       DEF Serve, CreateColumn, ChangeColumn, Read, Write, ReadTarget, WriteTarget, tab, Latest, Becomes
  <2>1. CASE CreateColumn(c) \/ WriteTarget(c)
    BY <1>0, <1>1, <2>1 DEF CreateColumn, WriteTarget, Notify
  <2>2. CASE ChangeColumn(c)
    <3>1. CASE files' = files /\ told' = told
      BY <2>0, <2>2, <3>1, TabFrame DEF ChangeColumn
    <3>2. CASE told' = told + 1
      BY <1>0, <1>1, <3>2
    <3> QED
      BY <2>2, <3>1, <3>2 DEF ChangeColumn, Notify
  <2>3. CASE Read(c)
    BY <2>0, <2>3, TabFrame DEF Read, board, tab
  <2>4. CASE ReadTarget(c)
    BY <2>4, ReadTargetBecomes DEF TabInv
  <2>5. CASE Write(c)
    <3>1. CASE call[c].op.kind \in {"move", "archive"}
      BY <2>5, <3>1, WriteBecomes DEF TabInv
    <3>2. CASE call[c].op.kind = "link"
      <4>1. PICK t \in Results(call[c].op, call[c].body, call[c].i) :
                   files' = [files EXCEPT ![call[c].op.col] = t]
        BY <2>5 DEF Write
      <4>2. PICK y \in CardType : Rewritten(call[c].op, call[c].body, call[c].i, t, y)
        BY <2>5, <3>2, WriteBecomes, Rewriting
      <4>3. /\ call[c].body \in Column /\ call[c].i \in 1..Len(call[c].body)
            /\ files[call[c].op.col] = call[c].body /\ call[c].op.col \in Columns
        BY <2>5, <3>2, WriteBecomes, WriteOf, OpOf DEF Fresh, Write, CardKinds
      <4>4. Shown(files') = Shown(files)
        BY <1>0, <3>2, <4>1, <4>2, <4>3, LinkShowsNothing DEF Rewritten
      <4>5. told' = told /\ call[c].pc = "write"
        BY <2>5, <3>2 DEF Write
      <4> QED
        BY <2>0, <4>4, <4>5, TabFrame
    <3>3. CASE call[c].op.kind \notin {"move", "archive", "link"}
      BY <1>0, <1>1, <2>5, <3>3 DEF Write, Notify
    <3> QED
      BY <3>1, <3>2, <3>3
  <2> QED
    BY <1>2, <2>1, <2>2, <2>3, <2>4, <2>5 DEF Serve
<1>3. ASSUME NEW c \in Calls, NEW op \in OpsOf, Request(c, op) PROVE TabInv'
  <2>1. Becomes(c, call'[c]) /\ call[c].pc = "idle"
    BY <1>3, RequestBecomes DEF Request
  <2>2. files' = files /\ told' = told /\ Latest' = Latest
    BY <1>3 DEF Request, board, tab, Latest
  <2> QED
    BY <2>1, <2>2, TabFrame DEF Becomes
<1>4. CASE Crash
  BY <1>1, <1>4 DEF Crash
<1>5. CASE Hear
  <2>1. fetches' = Append(fetches, files) /\ files' = files
    BY <1>5 DEF Hear, board
  <2>2. fetches' # << >> /\ fetches'[Len(fetches')] = files
    BY <1>0, <2>1
  <2> QED
    BY <2>1, <2>2 DEF TabInv, Latest
<1>6. ASSUME NEW n \in 1..Len(fetches), Show(n) PROVE TabInv'
  <2>1. n = 1 /\ view' = fetches[1] /\ fetches' = RemoveAt(fetches, 1) /\ fetches # << >>
    BY <1>0, <1>6 DEF Show
  <2>2. RemoveAt(fetches, 1) = Tail(fetches)
    BY <1>0, <2>1 DEF RemoveAt
  <2>3. Latest' = Latest
    BY <1>0, <2>1, <2>2 DEF Latest
  <2>4. told' = told /\ files' = files /\ call' = call
    BY <1>6 DEF Show, board
  <2> QED
    BY <2>3, <2>4, TabFrame
<1>7. CASE UNCHANGED vars
  BY <1>7 DEF vars, board, tab, TabInv, Latest
<1> QED
  BY <1>2, <1>3, <1>4, <1>5, <1>6, <1>7 DEF Next

-----------------------------------------------------------------------------
(***************************************************************************)
(* The cards, as sets.  f and h are what the columns and the hands hold, g  *)
(* and e what they hold after a step.                                      *)
(***************************************************************************)
LEMMA OneCard ==
    ASSUME NEW x, NEW y, NEW nx, NEW cd, Known(x, nx, cd), Known(y, nx, cd), x.id = y.id
    PROVE  x = y
  BY DEF Known

LEMMA SettledAdd ==
    ASSUME NEW f, NEW h, NEW cd, NEW al, next \in Nat, Settled(f, h, next, cd, al),
           NEW g, NEW k \in Columns, NEW x \in CardType, x.id = next,
           g[k] = f[k] \union {x}, \A m \in Columns : m # k => g[m] = f[m],
           NEW cd2, cd2[next] = x, \A n \in Cards : n # next => cd2[n] = cd[n],
           NEW nx2, nx2 = next + 1, NEW al2, al2 = al \union {next}
    PROVE  Settled(g, h, nx2, cd2, al2)
<1>1. ASSUME NEW y, Known(y, next, cd) PROVE Known(y, nx2, cd2) /\ y # x
  BY <1>1, NoneIsNothing DEF Known, Cards
<1>2. Known(x, nx2, cd2)
  BY NoneIsNothing DEF Known
<1>3. \A m \in Columns : \A y \in g[m] : Known(y, nx2, cd2)
  BY <1>1, <1>2 DEF Settled
<1>4. \A c \in Calls : \A y \in h[c] : Known(y, nx2, cd2)
  BY <1>1 DEF Settled
<1>5. /\ \A m \in Columns : x \notin f[m]
      /\ \A c \in Calls : x \notin h[c]
  BY <1>1 DEF Settled
<1>6. \A m, n \in Columns : m # n => g[m] \intersect g[n] = {}
  BY <1>5 DEF Settled
<1>7. \A m \in Columns, c \in Calls : g[m] \intersect h[c] = {}
  BY <1>5 DEF Settled
<1>8. ASSUME NEW n \in al2
      PROVE  \/ \E m \in Columns : \E y \in g[m] : y.id = n
             \/ \E c \in Calls : \E y \in h[c] : y.id = n
  <2>1. CASE n = next
    BY <2>1
  <2>2. CASE n \in al
    BY <2>2 DEF Settled
  <2> QED
    BY <2>1, <2>2
<1>9. \A c, d \in Calls : c # d => h[c] \intersect h[d] = {}
  BY DEF Settled
<1> QED
  BY <1>3, <1>4, <1>6, <1>7, <1>8, <1>9 DEF Settled

LEMMA SettledRewrite ==
    ASSUME NEW f, NEW h, NEW nx, NEW cd, NEW al, Settled(f, h, nx, cd, al),
           NEW g, NEW k \in Columns, NEW x \in f[k], NEW y \in CardType, y.id = x.id,
           g[k] = (f[k] \ {x}) \union {y}, \A m \in Columns : m # k => g[m] = f[m],
           NEW cd2, cd2[y.id] = y, \A n \in Cards : n # y.id => cd2[n] = cd[n]
    PROVE  Settled(g, h, nx, cd2, al)
<1>1. Known(x, nx, cd)
  BY DEF Settled
<1>2. Known(y, nx, cd2)
  BY <1>1 DEF Known
<1>3. ASSUME NEW z, Known(z, nx, cd), z # x PROVE Known(z, nx, cd2) /\ z # y
  <2>1. z.id # x.id
    BY <1>1, <1>3, OneCard
  <2> QED
    BY <1>3, <2>1, NoneIsNothing DEF Known
<1>4. \A m \in Columns : m # k => x \notin f[m]
  BY DEF Settled
<1>5. \A c \in Calls : x \notin h[c]
  BY DEF Settled
<1>6. ASSUME NEW m \in Columns, NEW z \in g[m]
      PROVE  Known(z, nx, cd2) /\ ((z = y /\ m = k) \/ (z \in f[m] /\ z # x /\ z # y))
  <2>1. CASE z = y /\ m = k
    <3>1. Known(z, nx, cd2)
      BY <1>2, <2>1, Zenon
    <3> QED
      BY <2>1, <3>1
  <2>2. CASE ~(z = y /\ m = k)
    <3>1. z \in f[m] /\ z # x
      BY <1>4, <2>2
    <3>2. Known(z, nx, cd)
      BY <3>1 DEF Settled
    <3> QED
      BY <1>3, <3>1, <3>2
  <2> QED
    BY <2>1, <2>2
<1>7. ASSUME NEW c \in Calls, NEW z \in h[c] PROVE Known(z, nx, cd2) /\ z # y
  BY <1>3, <1>5 DEF Settled
<1>8. \A m, n \in Columns : m # n => g[m] \intersect g[n] = {}
  BY <1>6 DEF Settled
<1>9. \A m \in Columns, c \in Calls : g[m] \intersect h[c] = {}
  BY <1>6, <1>7 DEF Settled
<1>10. ASSUME NEW n \in al
       PROVE  \/ \E m \in Columns : \E z \in g[m] : z.id = n
              \/ \E c \in Calls : \E z \in h[c] : z.id = n
  <2>1. CASE n = y.id
    BY <2>1
  <2>2. CASE n # y.id
    <3>1. \A m \in Columns : \A z \in f[m] : z.id = n => z \in g[m]
      BY <2>2
    <3> QED
      BY <3>1 DEF Settled
  <2> QED
    BY <2>1, <2>2
<1>11. \A c, d \in Calls : c # d => h[c] \intersect h[d] = {}
  BY DEF Settled
<1> QED
  BY <1>6, <1>7, <1>8, <1>9, <1>10, <1>11 DEF Settled

LEMMA SettledDrop ==
    ASSUME NEW f, NEW h, NEW nx, NEW cd, NEW al, Settled(f, h, nx, cd, al),
           NEW g, NEW k \in Columns, g[k] \subseteq f[k], \A m \in Columns : m # k => g[m] = f[m],
           NEW al2, al2 \subseteq al, \A x \in f[k] \ g[k] : x.id \notin al2
    PROVE  Settled(g, h, nx, cd, al2)
<1>1. \A m \in Columns : g[m] \subseteq f[m]
  OBVIOUS
<1>2. \A n \in al2 : \/ \E m \in Columns : \E z \in g[m] : z.id = n
                     \/ \E c \in Calls : \E z \in h[c] : z.id = n
  BY DEF Settled
<1> QED
  BY <1>1, <1>2 DEF Settled

LEMMA SettledTake ==
    ASSUME NEW f, NEW h, NEW nx, NEW cd, NEW al, Settled(f, h, nx, cd, al),
           NEW g, NEW k \in Columns, NEW x \in f[k], g[k] = f[k] \ {x}, \A m \in Columns : m # k => g[m] = f[m],
           NEW e, NEW c \in Calls, h[c] = {}, e[c] = {x}, \A d \in Calls : d # c => e[d] = h[d]
    PROVE  Settled(g, e, nx, cd, al)
<1>1. /\ \A m \in Columns : g[m] \subseteq f[m] /\ x \notin g[m]
      /\ \A d \in Calls : x \notin h[d]
      /\ Known(x, nx, cd)
  BY DEF Settled
<1>2. ASSUME NEW n \in al
      PROVE  \/ \E m \in Columns : \E z \in g[m] : z.id = n
             \/ \E d \in Calls : \E z \in e[d] : z.id = n
  <2>1. CASE n = x.id
    BY <2>1
  <2>2. CASE n # x.id
    <3>1. CASE \E m \in Columns : \E z \in f[m] : z.id = n
      BY <2>2, <3>1
    <3>2. CASE \E d \in Calls : \E z \in h[d] : z.id = n
      BY <3>2
    <3> QED
      BY <3>1, <3>2 DEF Settled
  <2> QED
    BY <2>1, <2>2
<1>3. \A d \in Calls : \A z \in e[d] : Known(z, nx, cd)
  BY <1>1 DEF Settled
<1>4. \A m \in Columns, d \in Calls : g[m] \intersect e[d] = {}
  BY <1>1 DEF Settled
<1>5. \A b, d \in Calls : b # d => e[b] \intersect e[d] = {}
  BY <1>1 DEF Settled
<1>6. /\ \A m \in Columns : \A z \in g[m] : Known(z, nx, cd)
      /\ \A m, n \in Columns : m # n => g[m] \intersect g[n] = {}
  BY <1>1 DEF Settled
<1> QED
  BY <1>2, <1>3, <1>4, <1>5, <1>6 DEF Settled

LEMMA SettledGive ==
    ASSUME NEW f, NEW h, NEW nx, NEW cd, NEW al, Settled(f, h, nx, cd, al),
           NEW g, NEW k \in Columns, NEW c \in Calls, g[k] = f[k] \union h[c],
           \A m \in Columns : m # k => g[m] = f[m],
           NEW e, e[c] = {}, \A d \in Calls : d # c => e[d] = h[d]
    PROVE  Settled(g, e, nx, cd, al)
<1>1. /\ \A m \in Columns : \A z \in g[m] : Known(z, nx, cd)
      /\ \A d \in Calls : \A z \in e[d] : Known(z, nx, cd)
  BY DEF Settled
<1>2. \A m, n \in Columns : m # n => g[m] \intersect g[n] = {}
  BY DEF Settled
<1>3. \A m \in Columns, d \in Calls : g[m] \intersect e[d] = {}
  <2> SUFFICES ASSUME NEW m \in Columns, NEW d \in Calls, NEW z \in g[m], z \in e[d] PROVE FALSE
    OBVIOUS
  <2>1. d # c /\ z \in h[d]
    OBVIOUS
  <2>2. z \in f[m] \/ z \in h[c]
    OBVIOUS
  <2> QED
    BY <2>1, <2>2 DEF Settled
<1>4. \A b, d \in Calls : b # d => e[b] \intersect e[d] = {}
  BY DEF Settled
<1>5. ASSUME NEW n \in al
      PROVE  \/ \E m \in Columns : \E z \in g[m] : z.id = n
             \/ \E d \in Calls : \E z \in e[d] : z.id = n
  <2>1. CASE \E m \in Columns : \E z \in f[m] : z.id = n
    BY <2>1
  <2>2. CASE \E d \in Calls : \E z \in h[d] : z.id = n
    BY <2>2
  <2> QED
    BY <2>1, <2>2 DEF Settled
<1> QED
  BY <1>1, <1>2, <1>3, <1>4, <1>5 DEF Settled

LEMMA SettledRename ==
    ASSUME NEW f, NEW h, NEW nx, NEW cd, NEW al, Settled(f, h, nx, cd, al),
           NEW g, NEW k \in Columns, NEW t \in Columns, k # t, f[t] = {}, g[t] = f[k], g[k] = {},
           \A m \in Columns : m # k /\ m # t => g[m] = f[m]
    PROVE  Settled(g, h, nx, cd, al)
<1>1. \A m \in Columns : \E j \in Columns : g[m] = f[j] \/ g[m] = {}
  OBVIOUS
<1>2. \A m \in Columns : \A z \in g[m] : Known(z, nx, cd)
  BY <1>1 DEF Settled
<1>3. \A m, n \in Columns : m # n => g[m] \intersect g[n] = {}
  BY DEF Settled
<1>4. \A m \in Columns, c \in Calls : g[m] \intersect h[c] = {}
  BY <1>1 DEF Settled
<1>5. ASSUME NEW n \in al
      PROVE  \/ \E m \in Columns : \E z \in g[m] : z.id = n
             \/ \E c \in Calls : \E z \in h[c] : z.id = n
  <2>1. CASE \E m \in Columns : \E z \in f[m] : z.id = n
    BY <2>1
  <2>2. CASE \E c \in Calls : \E z \in h[c] : z.id = n
    BY <2>2
  <2> QED
    BY <2>1, <2>2 DEF Settled
<1>6. /\ \A c \in Calls : \A z \in h[c] : Known(z, nx, cd)
      /\ \A c, d \in Calls : c # d => h[c] \intersect h[d] = {}
  BY DEF Settled
<1> QED
  BY <1>2, <1>3, <1>4, <1>5, <1>6 DEF Settled

LEMMA SettledSame ==
    ASSUME NEW f, NEW h, NEW nx, NEW cd, NEW al, Settled(f, h, nx, cd, al),
           NEW g, \A k \in Columns : g[k] = f[k], NEW e, \A c \in Calls : e[c] = h[c]
    PROVE  Settled(g, e, nx, cd, al)
<1>1. /\ \A k \in Columns : \A x \in g[k] : Known(x, nx, cd)
      /\ \A c \in Calls : \A x \in e[c] : Known(x, nx, cd)
  BY DEF Settled
<1>2. /\ \A k, m \in Columns : k # m => g[k] \intersect g[m] = {}
      /\ \A k \in Columns, c \in Calls : g[k] \intersect e[c] = {}
      /\ \A c, d \in Calls : c # d => e[c] \intersect e[d] = {}
  BY DEF Settled
<1>3. \A n \in al : \/ \E k \in Columns : \E x \in g[k] : x.id = n
                    \/ \E c \in Calls : \E x \in e[c] : x.id = n
  BY DEF Settled
<1> QED
  BY <1>1, <1>2, <1>3 DEF Settled

-----------------------------------------------------------------------------
(***************************************************************************)
(* The steps of the requests, and the cards.                               *)
(***************************************************************************)
LEMMA ColsHands ==
    /\ \A k \in Columns : Cols[k] = Of(files[k]) /\ Cols'[k] = Of(files'[k])
    /\ \A c \in Calls : Hands[c] = Carried(c) /\ Hands'[c] = Carried(c)'
  BY DEF Cols, Hands

LEMMA EmptyHands ==
    ASSUME NEW c \in Calls, call[c].pc \notin {"target", "insert"}
    PROVE  Hands[c] = {}
  BY ColsHands DEF Carried

LEMMA EmptyHandsAfter ==
    ASSUME NEW c \in Calls, call'[c].pc \notin {"target", "insert"}
    PROVE  Hands'[c] = {}
  BY ColsHands DEF Carried

\* The invariant as the steps of requests use it.
BoardInv == BoardTypes /\ Apart /\ Fresh /\ CardsInv

LEMMA OthersHands ==
    ASSUME BoardInv, NEW c \in Calls, Serve(c), NEW d \in Calls, d # c
    PROVE  /\ Hands'[d] = Hands[d]
           /\ call'[d].pc = "insert" =>
                  Apiece(call'[d].body) /\ Of(files'[call'[d].op.to]) \subseteq Of(call'[d].body)
<1>1. call'[d] = call[d]
  BY ServeBecomes DEF BoardInv, Becomes
<1>2. call[d].pc = "insert" => files'[call[d].op.to] = files[call[d].op.to]
  BY OthersColumns DEF BoardInv
<1>3. Carried(d)' = Carried(d)
  <2>1. CASE call[d].pc = "insert"
    BY <1>1, <1>2, <2>1 DEF Carried
  <2>2. CASE call[d].pc # "insert"
    BY <1>1, <2>2 DEF Carried
  <2> QED
    BY <2>1, <2>2
<1> QED
  BY <1>1, <1>2, <1>3, ColsHands DEF BoardInv, CardsInv, Pieces

\* A step of c that leaves no file with a card twice.
LEMMA PiecesAfter ==
    ASSUME BoardInv, NEW c \in Calls, Serve(c), call'[c].pc # "insert",
           \A k \in Columns : files'[k] # files[k] /\ files'[k] # None => Apiece(files'[k])
    PROVE  Pieces'
  BY OthersHands DEF Pieces, BoardInv, CardsInv

CardsAfter == card' \in [Cards -> CardType \union {None}] /\ CardsSettled' /\ Pieces'

LEMMA CreateCards ==
    ASSUME BoardInv, NEW c \in Calls, CreateColumn(c)
    PROVE  CardsAfter
<1>1. /\ call[c].pc = "create" /\ Serve(c) /\ files[call[c].op.to] = None
      /\ files' = [files EXCEPT ![call[c].op.to] = << >>]
      /\ alive' = alive /\ card' = card /\ next' = next /\ files \in Boards
  BY DEF BoardInv, BoardTypes, CardsInv, Prepared, CreateColumn, Serve
<1>2. call'[c].pc \notin {"target", "insert"}
  BY CreateBecomes, IdleIsCall DEF BoardInv
<1>3. \A k \in Columns : files'[k] = files[k] \/ (files'[k] = << >> /\ files[k] = None)
  BY <1>1 DEF Boards
<1>4. Of(<< >>) = {} /\ Of(None) = {} /\ Apiece(<< >>)
  BY DEF Of, Apiece
<1>5. \A k \in Columns : Cols'[k] = Cols[k]
  BY <1>3, <1>4, ColsHands
<1>6. \A d \in Calls : Hands'[d] = Hands[d]
  BY <1>1, <1>2, OthersHands, EmptyHands, EmptyHandsAfter
<1>7. Pieces'
  BY <1>1, <1>2, <1>3, <1>4, PiecesAfter
<1>8. CardsSettled'
  BY <1>1, <1>5, <1>6, SettledSame DEF CardsSettled, BoardInv, CardsInv
<1> QED
  BY <1>1, <1>7, <1>8 DEF CardsAfter, BoardInv, CardsInv

LEMMA ChangeCards ==
    ASSUME BoardInv, NEW c \in Calls, ChangeColumn(c)
    PROVE  CardsAfter
<1> DEFINE k == call[c].op.col
           t == call[c].op.to
<1>1. /\ call[c].pc = "column" /\ Serve(c) /\ card' = card /\ next' = next /\ files \in Boards
      /\ call'[c] = Idle /\ k \in Columns /\ t \in Columns
      /\ call[c].op.kind \in {"dropcol", "rename"} /\ OpOK(call[c].op)
      /\ card \in [Cards -> CardType \union {None}] /\ CardsSettled /\ Pieces
      /\ call[c].op.kind = "rename" => files[t] = None
  BY DoneBecomes, OpOf DEF BoardInv, BoardTypes, CardsInv, Prepared, ChangeColumn, Serve, Becomes, CallOK
<1>2. \A d \in Calls : Hands'[d] = Hands[d]
  BY <1>1, OthersHands, EmptyHands, EmptyHandsAfter, IdleIsCall
<1>3. Of(None) = {}
  BY DEF Of
<1>4. CASE files[k] = None
  <2>1. files' = files /\ alive' = alive
    BY <1>4 DEF ChangeColumn
  <2>2. \A m \in Columns : Cols'[m] = Cols[m]
    BY <2>1, ColsHands
  <2>3. Pieces'
    BY <1>1, <2>1, PiecesAfter, IdleIsCall
  <2>4. CardsSettled'
    BY <1>1, <1>2, <2>1, <2>2, SettledSame DEF CardsSettled
  <2> QED
    BY <1>1, <2>3, <2>4 DEF CardsAfter
<1>5. CASE files[k] # None /\ call[c].op.kind = "rename"
  <2>1. files' = [files EXCEPT ![t] = files[k], ![k] = None] /\ alive' = alive \ {} /\ t # k
    BY <1>1, <1>5 DEF ChangeColumn, OpOK
  <2>2. /\ files'[t] = files[k] /\ files'[k] = None
        /\ \A m \in Columns : m # k /\ m # t => files'[m] = files[m]
    BY <1>1, <2>1 DEF Boards
  <2>3. /\ Cols'[t] = Cols[k] /\ Cols'[k] = {} /\ Cols[t] = {}
        /\ \A m \in Columns : m # k /\ m # t => Cols'[m] = Cols[m]
    BY <1>1, <1>3, <1>5, <2>2, ColsHands
  <2>4. Settled(Cols', Hands, next, card, alive)
    BY <1>1, <2>1, <2>3, SettledRename DEF CardsSettled
  <2>5. CardsSettled'
    BY <1>1, <1>2, <2>1, <2>4, SettledSame DEF CardsSettled
  <2>6. Pieces'
    BY <1>1, <1>5, <2>2, PiecesAfter, IdleIsCall DEF Pieces
  <2> QED
    BY <1>1, <2>5, <2>6 DEF CardsAfter
<1>6. CASE files[k] # None /\ call[c].op.kind = "dropcol"
  <2>1. /\ files' = [files EXCEPT ![k] = None]
        /\ alive' = alive \ {files[k][i].id : i \in 1..Len(files[k])}
    BY <1>6 DEF ChangeColumn
  <2>2. files'[k] = None /\ \A m \in Columns : m # k => files'[m] = files[m]
    BY <1>1, <2>1 DEF Boards
  <2>3. Cols'[k] = {} /\ \A m \in Columns : m # k => Cols'[m] = Cols[m]
    BY <1>1, <1>3, <2>2, ColsHands
  <2>4. alive' \subseteq alive /\ \A x \in Cols[k] : x.id \notin alive'
    <3>1. alive' \subseteq alive /\ \A i \in 1..Len(files[k]) : files[k][i].id \notin alive'
      BY <2>1
    <3>2. Cols[k] = {files[k][i] : i \in 1..Len(files[k])}
      BY <1>1, <1>6, ColsHands DEF Of
    <3> HIDE DEF k
    <3> QED
      BY <3>1, <3>2
  <2>5. Settled(Cols', Hands, next, card, alive')
    BY <1>1, <2>3, <2>4, SettledDrop DEF CardsSettled
  <2>6. CardsSettled'
    BY <1>1, <1>2, <2>5, SettledSame DEF CardsSettled
  <2>7. Pieces'
    BY <1>1, <2>2, PiecesAfter, IdleIsCall DEF Pieces
  <2> QED
    BY <1>1, <2>6, <2>7 DEF CardsAfter
<1> QED
  BY <1>1, <1>4, <1>5, <1>6

LEMMA ReadCards ==
    ASSUME BoardInv, NEW c \in Calls, Read(c)
    PROVE  CardsAfter
<1>1. /\ call[c].pc = "read" /\ Serve(c) /\ files' = files /\ alive' = alive /\ card' = card /\ next' = next
      /\ card \in [Cards -> CardType \union {None}] /\ CardsSettled
  BY DEF BoardInv, CardsInv, Read, Serve, board
<1>2. call'[c].pc \notin {"target", "insert"}
  BY ReadBecomes, IdleIsCall DEF BoardInv
<1>3. \A d \in Calls : Hands'[d] = Hands[d]
  BY <1>1, <1>2, OthersHands, EmptyHands, EmptyHandsAfter
<1>4. \A m \in Columns : Cols'[m] = Cols[m]
  BY <1>1, ColsHands
<1>5. CardsSettled'
  BY <1>1, <1>3, <1>4, SettledSame DEF CardsSettled
<1>6. Pieces'
  BY <1>1, <1>2, PiecesAfter
<1> QED
  BY <1>1, <1>5, <1>6 DEF CardsAfter

\* A request that writes one column.
LEMMA OneColumn ==
    ASSUME BoardInv, NEW k \in Columns, NEW t, files' = [files EXCEPT ![k] = t]
    PROVE  /\ files'[k] = t /\ \A m \in Columns : m # k => files'[m] = files[m]
           /\ Cols'[k] = Of(t) /\ Cols[k] = Of(files[k]) /\ \A m \in Columns : m # k => Cols'[m] = Cols[m]
<1>1. files'[k] = t /\ \A m \in Columns : m # k => files'[m] = files[m]
  BY DEF BoardInv, BoardTypes, Boards
<1> QED
  BY <1>1, ColsHands

LEMMA OnePiece ==
    ASSUME BoardInv, NEW c \in Calls, Serve(c), call'[c].pc # "insert",
           NEW k \in Columns, NEW t, Apiece(t), files' = [files EXCEPT ![k] = t]
    PROVE  Pieces'
  BY OneColumn, PiecesAfter

\* What a request that writes its column has of it and of its card.
LEMMA WriteFacts ==
    ASSUME BoardInv, NEW c \in Calls, Write(c)
    PROVE  /\ Serve(c) /\ Writes(c) /\ call[c].op.col \in Columns
           /\ files[call[c].op.col] = call[c].body
           /\ call[c].body # None => Apiece(call[c].body)
           /\ \E t \in Results(call[c].op, call[c].body, call[c].i) :
                  files' = [files EXCEPT ![call[c].op.col] = t]
           /\ call'[c].pc # "insert" /\ Hands[c] = {} /\ \A d \in Calls : d # c => Hands'[d] = Hands[d]
           /\ card \in [Cards -> CardType \union {None}] /\ CardsSettled
<1>1. Serve(c) /\ Writes(c) /\ call[c].pc = "write"
  BY DEF Write, Serve, Writes, BoardInv
<1>2. call[c].op.col \in Columns /\ files[call[c].op.col] = call[c].body
  BY <1>1, OpOf DEF BoardInv, Fresh
<1>3. call'[c].pc # "insert"
  BY WriteBecomes, IdleIsCall DEF BoardInv
<1>4. call[c].body # None => Apiece(call[c].body)
  BY <1>2 DEF BoardInv, CardsInv, Pieces
<1> QED
  BY <1>1, <1>2, <1>3, <1>4, OthersHands, EmptyHands DEF Write, BoardInv, CardsInv

LEMMA AddCards ==
    ASSUME BoardInv, NEW c \in Calls, Write(c), call[c].op.kind = "add"
    PROVE  CardsAfter
<1> DEFINE k == call[c].op.col
           x == Card(next, call[c].op.text)
           body == IF call[c].body = None THEN << >> ELSE call[c].body
<1>1. PICK t \in Results(call[c].op, call[c].body, call[c].i) : files' = [files EXCEPT ![k] = t]
  BY WriteFacts
<1>2. /\ k \in Columns /\ Serve(c) /\ call'[c].pc # "insert" /\ files[k] = call[c].body
      /\ card \in [Cards -> CardType \union {None}] /\ CardsSettled
  BY WriteFacts
<1>3. /\ next <= MaxCards /\ next' = next + 1 /\ alive' = alive \union {next}
      /\ card' = [card EXCEPT ![next] = x]
  BY DEF Write
<1>4. next \in Nat \ {0} /\ next \in Cards
  BY <1>3, NoneIsNothing DEF BoardInv, BoardTypes, Cards
<1>5. x \in CardType /\ x.id = next /\ body \in Column /\ \E j : PutAt(t, body, x, j)
  BY <1>3, WriteFacts, Adding
<1>6. Of(body) = Of(files[k]) /\ Apiece(body)
  <2>1. Of(<< >>) = {} /\ Of(None) = {} /\ Apiece(<< >>)
    BY DEF Of, Apiece
  <2> QED
    BY <1>2, <2>1, WriteFacts
<1>7. \A y \in Of(files[k]) : y.id # x.id
  <2>1. \A y \in Cols[k] : Known(y, next, card)
    BY <1>2 DEF CardsSettled, Settled
  <2>2. \A y \in Cols[k] : y.id < next
    BY <2>1 DEF Known
  <2>3. \A y \in Cols[k] : y.id # next
    BY <1>4, <2>2
  <2> QED
    BY <1>2, <1>5, <2>3, ColsHands
<1>8. Of(t) = Of(files[k]) \union {x} /\ Apiece(t)
  BY <1>5, <1>6, <1>7, PutsCard
<1>9. Pieces'
  BY <1>1, <1>2, <1>8, OnePiece
<1>10. card'[next] = x /\ (\A n \in Cards : n # next => card'[n] = card[n]) /\ card' \in [Cards -> CardType \union {None}]
  BY <1>2, <1>3, <1>4, <1>5
<1>11. Cols'[k] = Cols[k] \union {x} /\ \A m \in Columns : m # k => Cols'[m] = Cols[m]
  <2> HIDE DEF k, x, body
  <2>1. /\ Cols'[k] = Of(t) /\ Cols[k] = Of(files[k])
        /\ \A m \in Columns : m # k => Cols'[m] = Cols[m]
    BY <1>1, <1>2, OneColumn
  <2> QED
    BY <1>2, <1>8, <2>1
<1> HIDE DEF k, x, body
<1>12. Settled(Cols', Hands, next', card', alive')
  <2>1. Settled(Cols, Hands, next, card, alive) /\ next \in Nat /\ k \in Columns
    BY <1>2, <1>4 DEF CardsSettled
  <2>2. card'[next] = x /\ \A n \in Cards : n # next => card'[n] = card[n]
    BY <1>10
  <2>3. x \in CardType /\ x.id = next /\ next' = next + 1 /\ alive' = alive \union {next}
    BY <1>3, <1>5
  <2> QED
    BY <1>11, <2>1, <2>2, <2>3, SettledAdd
<1>13. \A d \in Calls : Hands'[d] = Hands[d]
  <2>1. call'[c] = Idle
    BY WriteBecomes DEF BoardInv
  <2> QED
    BY <2>1, WriteFacts, EmptyHandsAfter, IdleIsCall
<1>14. CardsSettled'
  BY <1>12, <1>13, SettledSame DEF CardsSettled
<1> QED
  BY <1>9, <1>10, <1>14 DEF CardsAfter

LEMMA RewriteCards ==
    ASSUME BoardInv, NEW c \in Calls, Write(c), call[c].op.kind \in {"toggle", "patch", "edit", "link"}
    PROVE  CardsAfter
<1> DEFINE op == call[c].op
           k == op.col
           body == call[c].body
           i == call[c].i
           x == body[i]
<1>1. PICK t \in Results(op, body, i) : files' = [files EXCEPT ![k] = t]
  BY WriteFacts
<1>2. /\ k \in Columns /\ Serve(c) /\ call'[c].pc # "insert" /\ files[k] = body
      /\ card \in [Cards -> CardType \union {None}] /\ CardsSettled
      /\ body \in Column /\ i \in 1..Len(body) /\ i # 0 /\ x.text = op.cid /\ Apiece(body)
  BY WriteFacts, WriteOf, NoneIsNothing DEF CardKinds
<1>3. x \in Cols[k] /\ x \in CardType /\ x.id \in Cards /\ x.id # 0
  BY <1>2, OfColumn, ColsHands, NoneIsNothing DEF Cards
<1>4. next' = next /\ alive' = alive /\ card' = [card EXCEPT ![x.id] = Meant(op, x.id, @)]
  BY <1>2, <1>3 DEF Write
<1>5. PICK y \in CardType : Rewritten(op, body, i, t, y)
  BY WriteFacts, Rewriting
<1>6. card[x.id] = x
  BY <1>2, <1>3 DEF CardsSettled, Settled, Known
<1>7. op.kind = "edit" => x.loop = None
  <2>1. op.kind = "edit" => ~HasLink(files[k], op.cid)
    BY DEF BoardInv, CardsInv, Prepared, Write
  <2> QED
    BY <1>2, <2>1, NoneIsNothing DEF HasLink
<1>8. y.id = x.id /\ t = [body EXCEPT ![i] = y] /\ y = Meant(op, x.id, x)
  BY <1>5, <1>7 DEF Rewritten
<1>9. /\ card' \in [Cards -> CardType \union {None}]
      /\ card'[y.id] = y /\ \A n \in Cards : n # y.id => card'[n] = card[n]
  BY <1>2, <1>3, <1>4, <1>6, <1>8
<1>10. Of(t) = (Of(body) \ {x}) \union {y} /\ Apiece(t)
  BY <1>2, <1>8, Replacing
<1>11. Pieces'
  BY <1>1, <1>2, <1>10, OnePiece
<1>12. Cols'[k] = (Cols[k] \ {x}) \union {y} /\ \A m \in Columns : m # k => Cols'[m] = Cols[m]
  <2> HIDE DEF op, k, body, i, x
  <2>1. /\ Cols'[k] = Of(t) /\ Cols[k] = Of(files[k])
        /\ \A m \in Columns : m # k => Cols'[m] = Cols[m]
    BY <1>1, <1>2, OneColumn
  <2> QED
    BY <1>2, <1>10, <2>1
<1>13. \A d \in Calls : Hands'[d] = Hands[d]
  <2>1. call'[c] = Idle
    BY WriteBecomes DEF BoardInv
  <2> QED
    BY <2>1, WriteFacts, EmptyHandsAfter, IdleIsCall
<1> HIDE DEF op, k, body, i, x
<1>14. Settled(Cols', Hands, next, card', alive)
  BY <1>2, <1>3, <1>8, <1>9, <1>12, SettledRewrite DEF CardsSettled
<1>15. CardsSettled'
  BY <1>4, <1>13, <1>14, SettledSame DEF CardsSettled
<1> QED
  BY <1>9, <1>11, <1>15 DEF CardsAfter

\* A card that is deleted, or taken to be moved.
LEMMA TakeCards ==
    ASSUME BoardInv, NEW c \in Calls, Write(c), call[c].op.kind \in {"delete", "move", "archive"}
    PROVE  CardsAfter
<1> DEFINE op == call[c].op
           k == op.col
           body == call[c].body
           i == call[c].i
           x == body[i]
<1>1. PICK t \in Results(op, body, i) : files' = [files EXCEPT ![k] = t]
  BY WriteFacts
<1>2. /\ k \in Columns /\ Serve(c) /\ call'[c].pc # "insert" /\ files[k] = body
      /\ card \in [Cards -> CardType \union {None}] /\ CardsSettled
      /\ body \in Column /\ i \in 1..Len(body) /\ i # 0 /\ Apiece(body)
  BY WriteFacts, WriteOf, NoneIsNothing DEF CardKinds
<1>3. x \in Cols[k] /\ x.id \in Cards /\ x.id # 0
  BY <1>2, OfColumn, ColsHands, NoneIsNothing DEF Cards
<1>4. /\ next' = next /\ alive' = IF op.kind = "delete" THEN alive \ {x.id} ELSE alive
      /\ card' = [card EXCEPT ![x.id] = Meant(op, x.id, @)]
  BY <1>2, <1>3 DEF Write
<1>5. card' = card
  <2>1. \A y : Meant(op, x.id, y) = y
    BY DEF Meant
  <2> QED
    BY <1>2, <1>4, <2>1
<1>6. PutAt(body, t, x, i)
  BY WriteFacts, Taken
<1>7. Of(body) = Of(t) \union {x} /\ Apiece(t) /\ \A y \in Of(t) : y.id # x.id
  BY <1>2, <1>6, PutsCard
<1>8. Of(t) = Of(body) \ {x}
  BY <1>7
<1>9. Pieces'
  BY <1>1, <1>2, <1>7, OnePiece
<1>10. Cols'[k] = Cols[k] \ {x} /\ \A m \in Columns : m # k => Cols'[m] = Cols[m]
  <2> HIDE DEF op, k, body, i, x
  <2>1. /\ Cols'[k] = Of(t) /\ Cols[k] = Of(files[k])
        /\ \A m \in Columns : m # k => Cols'[m] = Cols[m]
    BY <1>1, <1>2, OneColumn
  <2> QED
    BY <1>2, <1>8, <2>1
<1>11. CASE op.kind = "delete"
  <2>1. call'[c] = Idle
    BY <1>11, WriteBecomes DEF BoardInv
  <2>2. \A d \in Calls : Hands'[d] = Hands[d]
    BY <2>1, WriteFacts, EmptyHandsAfter, IdleIsCall
  <2>3. alive' \subseteq alive /\ (\A z \in Cols[k] \ Cols'[k] : z.id \notin alive')
    BY <1>4, <1>10, <1>11
  <2> HIDE DEF op, k, body, i, x
  <2>4. Settled(Cols', Hands, next, card, alive')
    BY <1>2, <1>10, <2>3, SettledDrop DEF CardsSettled
  <2>5. CardsSettled'
    BY <1>4, <1>5, <2>2, <2>4, SettledSame DEF CardsSettled
  <2> QED
    BY <1>2, <1>5, <1>9, <2>5 DEF CardsAfter
<1>12. CASE op.kind \in {"move", "archive"}
  <2>1. call'[c].pc = "target" /\ call'[c].body = body /\ call'[c].i = i
    BY <1>12, WriteBecomes DEF BoardInv
  <2>2. Hands'[c] = {x} /\ Hands[c] = {} /\ \A d \in Calls : d # c => Hands'[d] = Hands[d]
    BY <2>1, WriteFacts, ColsHands DEF Carried
  <2>3. alive' = alive
    BY <1>4, <1>12
  <2> HIDE DEF op, k, body, i, x
  <2>4. Settled(Cols', Hands', next, card, alive)
    BY <1>2, <1>3, <1>10, <2>2, SettledTake DEF CardsSettled
  <2> QED
    BY <1>2, <1>4, <1>5, <1>9, <2>3, <2>4 DEF CardsAfter, CardsSettled
<1> QED
  BY <1>11, <1>12

LEMMA ReorderCards ==
    ASSUME BoardInv, NEW c \in Calls, Write(c), call[c].op.kind = "reorder"
    PROVE  CardsAfter
<1> DEFINE k == call[c].op.col
           body == call[c].body
<1>1. PICK t \in Results(call[c].op, body, call[c].i) : files' = [files EXCEPT ![k] = t]
  BY WriteFacts
<1>2. /\ k \in Columns /\ Serve(c) /\ call'[c].pc # "insert" /\ files[k] = body
      /\ card \in [Cards -> CardType \union {None}] /\ CardsSettled
      /\ body \in Column /\ call[c].i = 0 /\ Apiece(body)
  BY WriteFacts, WriteOf, NoneIsNothing DEF CardKinds
<1>3. next' = next /\ alive' = alive /\ card' = card
  BY <1>2 DEF Write
<1>4. t \in Reorderings(body, call[c].op.order)
  BY <1>1 DEF Results
<1>5. Of(t) = Of(body) /\ Apiece(t)
  BY <1>2, <1>4, Reordering
<1>6. Pieces'
  BY <1>1, <1>2, <1>5, OnePiece
<1>7. \A m \in Columns : Cols'[m] = Cols[m]
  <2> HIDE DEF k, body
  <2>1. /\ Cols'[k] = Of(t) /\ Cols[k] = Of(files[k])
        /\ \A m \in Columns : m # k => Cols'[m] = Cols[m]
    BY <1>1, <1>2, OneColumn
  <2> QED
    BY <1>2, <1>5, <2>1
<1>8. \A d \in Calls : Hands'[d] = Hands[d]
  <2>1. call'[c] = Idle
    BY WriteBecomes DEF BoardInv
  <2> QED
    BY <2>1, WriteFacts, EmptyHandsAfter, IdleIsCall
<1>9. CardsSettled'
  BY <1>2, <1>3, <1>7, <1>8, SettledSame DEF CardsSettled
<1> QED
  BY <1>2, <1>3, <1>6, <1>9 DEF CardsAfter

\* The second half of a move reads the target: the card stays in its hands.
LEMMA ReadTargetCards ==
    ASSUME BoardInv, NEW c \in Calls, ReadTarget(c)
    PROVE  CardsAfter
<1> DEFINE x == call[c].body[call[c].i]
           to == files[call[c].op.to]
           s == IF to = None THEN << >> ELSE to
           b == call'[c].body
<1>1. /\ call[c].pc = "target" /\ Serve(c) /\ files' = files /\ alive' = alive /\ card' = card /\ next' = next
      /\ card \in [Cards -> CardType \union {None}] /\ CardsSettled /\ Pieces
  BY DEF BoardInv, CardsInv, ReadTarget, Serve, board
<1>2. /\ call'[c].pc = "insert" /\ call'[c].op = call[c].op /\ \E j : PutAt(b, s, x, j)
      /\ call[c].op.to \in Columns
  BY <1>1, ReadTargetBecomes, TargetOf DEF BoardInv
<1>3. Of(s) = Of(to) /\ Apiece(s)
  <2>1. Of(<< >>) = {} /\ Of(None) = {} /\ Apiece(<< >>)
    BY DEF Of, Apiece
  <2>2. to # None => Apiece(to)
    BY <1>1, <1>2 DEF Pieces
  <2> QED
    BY <2>1, <2>2
<1>4. Hands[c] = {x} /\ Cols[call[c].op.to] = Of(to)
  BY <1>1, <1>2, ColsHands DEF Carried
<1>5. x \notin Of(to) /\ \A y \in Of(to) : y.id # x.id
  <2>1. /\ Known(x, next, card) /\ x \notin Of(to)
        /\ \A y \in Of(to) : Known(y, next, card)
    BY <1>1, <1>2, <1>4 DEF CardsSettled, Settled
  <2> QED
    BY <2>1, OneCard
<1>6. Of(b) = Of(to) \union {x} /\ Apiece(b)
  BY <1>2, <1>3, <1>5, PutsCard
<1>7. Hands'[c] = Hands[c]
  <2>1. Hands'[c] = Of(b) \ Of(to)
    BY <1>1, <1>2, ColsHands DEF Carried
  <2> QED
    BY <1>4, <1>5, <1>6, <2>1
<1>8. \A d \in Calls : Hands'[d] = Hands[d]
  BY <1>1, <1>7, OthersHands
<1>9. \A m \in Columns : Cols'[m] = Cols[m]
  BY <1>1, ColsHands
<1>10. CardsSettled'
  BY <1>1, <1>8, <1>9, SettledSame DEF CardsSettled
<1>11. Pieces'
  <2>1. \A d \in Calls : call'[d].pc = "insert" =>
            Apiece(call'[d].body) /\ Of(files'[call'[d].op.to]) \subseteq Of(call'[d].body)
    BY <1>1, <1>2, <1>6, OthersHands
  <2> QED
    BY <1>1, <2>1 DEF Pieces
<1> QED
  BY <1>1, <1>10, <1>11 DEF CardsAfter

\* ... and writes it.
LEMMA WriteTargetCards ==
    ASSUME BoardInv, NEW c \in Calls, WriteTarget(c)
    PROVE  CardsAfter
<1> DEFINE k == call[c].op.to
           b == call[c].body
<1>1. /\ call[c].pc = "insert" /\ Serve(c) /\ files' = [files EXCEPT ![k] = b] /\ call'[c] = Idle
      /\ alive' = alive /\ card' = card /\ next' = next
      /\ card \in [Cards -> CardType \union {None}] /\ CardsSettled /\ Pieces
  BY DoneBecomes DEF BoardInv, CardsInv, WriteTarget, Serve, Becomes
<1>2. k \in Columns
  BY <1>1, OpOf DEF BoardInv
<1>3. Apiece(b) /\ Of(files[k]) \subseteq Of(b) /\ Hands[c] = Of(b) \ Of(files[k])
  BY <1>1, ColsHands DEF Pieces, Carried
<1>4. Cols'[k] = Cols[k] \union Hands[c] /\ \A m \in Columns : m # k => Cols'[m] = Cols[m]
  <2>1. Cols'[k] = Of(b) /\ Cols[k] = Of(files[k]) /\ \A m \in Columns : m # k => Cols'[m] = Cols[m]
    <3>1. files' = [files EXCEPT ![k] = b]
      BY <1>1
    <3> HIDE DEF k, b
    <3> QED
      BY <1>2, <3>1, OneColumn
  <2> QED
    BY <1>3, <2>1
<1>5. Hands'[c] = {} /\ \A d \in Calls : d # c => Hands'[d] = Hands[d]
  BY <1>1, OthersHands, EmptyHandsAfter, IdleIsCall
<1>6. Pieces'
  BY <1>1, <1>2, <1>3, OnePiece, IdleIsCall
<1> HIDE DEF k, b
<1>7. Settled(Cols', Hands', next, card, alive)
  BY <1>1, <1>2, <1>4, <1>5, SettledGive DEF CardsSettled
<1> QED
  BY <1>1, <1>6, <1>7 DEF CardsAfter, CardsSettled

\* What a request asked for with care stays so until it is done.
LEMMA PreparedStep ==
    ASSUME BoardInv, NEW c \in Calls, Serve(c)
    PROVE  Prepared'
<1>1. Becomes(c, call'[c]) /\ call[c].pc # "idle" /\ Prepared
  BY ServeBecomes DEF BoardInv, CardsInv
<1>2. ASSUME NEW d \in Calls, d # c, call[d].pc # "idle"
      PROVE  /\ call'[d] = call[d]
             /\ files'[call[d].op.col] = files[call[d].op.col] /\ files'[call[d].op.to] = files[call[d].op.to]
  BY <1>1, <1>2, OthersColumns DEF Becomes, BoardInv
<1>3. call'[c].pc \notin {"create", "column"}
  BY IdleIsCall, CreateBecomes, ReadBecomes, WriteBecomes, ReadTargetBecomes, DoneBecomes
     DEF Serve, BoardInv, ChangeColumn, WriteTarget, Becomes
<1>4. ASSUME call'[c].pc \in {"read", "write"}, call'[c].op.kind = "edit"
      PROVE  ~HasLink(files'[call'[c].op.col], call'[c].op.cid)
  <2>1. Read(c)
    BY <1>4, IdleIsCall, CreateBecomes, WriteBecomes, ReadTargetBecomes, DoneBecomes
       DEF Serve, BoardInv, ChangeColumn, WriteTarget, Becomes
  <2>2. call'[c].op = call[c].op /\ call[c].pc = "read" /\ files' = files
    BY <1>4, <2>1, ReadBecomes, IdleIsCall DEF Read, board, BoardInv
  <2> QED
    BY <1>1, <1>4, <2>2 DEF Prepared
<1>5. ASSUME NEW d \in Calls, d # c
      PROVE  /\ call'[d].pc = "create" => files'[call'[d].op.to] = None
             /\ call'[d].pc = "column" /\ call'[d].op.kind = "rename" => files'[call'[d].op.to] = None
             /\ call'[d].pc \in {"read", "write"} /\ call'[d].op.kind = "edit" =>
                    ~HasLink(files'[call'[d].op.col], call'[d].op.cid)
  <2>1. CASE call[d].pc # "idle"
    BY <1>1, <1>2, <1>5, <2>1 DEF Prepared
  <2>2. CASE call[d].pc = "idle"
    BY <1>1, <1>5, <2>2 DEF Becomes
  <2> QED
    BY <2>1, <2>2
<1> QED
  BY <1>3, <1>4, <1>5 DEF Prepared

\* A step that leaves the board and the hands as they are.
LEMMA CardsStay ==
    ASSUME CardsInv, UNCHANGED board, \A c \in Calls : Hands'[c] = Hands[c],
           \A c \in Calls : call'[c].pc = "insert" => call'[c] = call[c]
    PROVE  CardsAfter
<1>1. card' = card /\ alive' = alive /\ next' = next /\ files' = files
  BY DEF board
<1>2. CardsSettled'
  BY <1>1, ColsHands, SettledSame DEF CardsInv, CardsSettled
<1>3. Pieces'
  BY <1>1 DEF CardsInv, Pieces
<1> QED
  BY <1>1, <1>2, <1>3 DEF CardsAfter, CardsInv

LEMMA RequestCards ==
    ASSUME BoardInv, Hazards \subseteq {"reorder"}, NEW c \in Calls, NEW op \in OpsOf, Request(c, op)
    PROVE  CardsInv'
<1>1. /\ Becomes(c, call'[c]) /\ OpOK(op) /\ call'[c].op = op
      /\ call'[c].pc \in {"create", "column", "read"}
      /\ call'[c].pc = "create" <=> op.kind \in {"newcol", "archive"}
      /\ call'[c].pc = "column" <=> op.kind \in {"dropcol", "rename"}
      /\ call[c].pc = "idle" /\ UNCHANGED board /\ files' = files /\ Careful(op)
  BY RequestBecomes DEF BoardInv, Request, board
<1>2. \A d \in Calls : Hands'[d] = Hands[d]
  <2>1. Hands'[c] = Hands[c]
    BY <1>1, EmptyHands, EmptyHandsAfter
  <2>2. ASSUME NEW d \in Calls, d # c PROVE Hands'[d] = Hands[d]
    <3>1. call'[d] = call[d]
      BY <1>1, <2>2 DEF Becomes
    <3> QED
      BY <1>1, <3>1, ColsHands DEF Carried
  <2> QED
    BY <2>1, <2>2
<1>3. CardsAfter
  BY <1>1, <1>2, CardsStay DEF Becomes, BoardInv
<1>4. /\ op.kind \in {"newcol", "rename"} => files[op.to] = None
      /\ op.kind = "archive" => files[op.to] = None
      /\ op.kind = "edit" => ~HasLink(files[op.col], op.cid)
  BY <1>1 DEF Careful, OpOK
<1>5. Prepared'
  <2>1. ASSUME NEW d \in Calls, d # c PROVE call'[d] = call[d]
    BY <1>1, <2>1 DEF Becomes
  <2>2. Prepared
    BY DEF BoardInv, CardsInv
  <2> QED
    BY <1>1, <1>4, <2>1, <2>2 DEF Prepared
<1> QED
  BY <1>3, <1>5 DEF CardsAfter, CardsInv

LEMMA CrashCards ==
    ASSUME BoardInv, Hazards \subseteq {"reorder"}, Crash
    PROVE  CardsInv'
<1>1. /\ \A c \in Calls : call[c].pc \notin {"target", "insert"}
      /\ \A c \in Calls : call'[c] = Idle
      /\ UNCHANGED board
  BY DEF Crash
<1>2. \A c \in Calls : Hands'[c] = Hands[c]
  BY <1>1, EmptyHands, EmptyHandsAfter, IdleIsCall
<1>3. CardsAfter
  BY <1>1, <1>2, CardsStay, IdleIsCall DEF BoardInv
<1>4. Prepared'
  BY <1>1, IdleIsCall DEF Prepared
<1> QED
  BY <1>3, <1>4 DEF CardsAfter, CardsInv

LEMMA CardsStep ==
    ASSUME BoardInv, Hazards \subseteq {"reorder"}, [Next]_vars
    PROVE  CardsInv'
<1>1. ASSUME NEW c \in Calls, Serve(c) PROVE CardsInv'
  <2>1. CardsAfter
    <3>1. ASSUME Write(c) PROVE CardsAfter
      <4>1. call[c].op.kind \in CardKinds \union {"add", "reorder"}
        BY <3>1, WriteFacts, WriteOf
      <4> QED
        BY <3>1, <4>1, AddCards, RewriteCards, TakeCards, ReorderCards DEF CardKinds
    <3> QED
      BY <1>1, <3>1, CreateCards, ChangeCards, ReadCards, ReadTargetCards, WriteTargetCards DEF Serve
  <2> QED
    BY <1>1, <2>1, PreparedStep DEF CardsAfter, CardsInv
<1>2. ASSUME NEW c \in Calls, NEW op \in OpsOf, Request(c, op) PROVE CardsInv'
  BY <1>2, RequestCards
<1>3. CASE Crash
  BY <1>3, CrashCards
<1>4. CASE Hear \/ (\E n \in 1..Len(fetches) : Show(n)) \/ UNCHANGED vars
  <2>1. UNCHANGED <<board, call>> /\ files' = files /\ call' = call
    BY <1>4 DEF Hear, Show, vars, board
  <2>2. \A c \in Calls : Hands'[c] = Hands[c]
    BY <2>1, ColsHands DEF Carried
  <2>3. CardsAfter
    BY <2>1, <2>2, CardsStay DEF BoardInv
  <2>4. Prepared'
    BY <2>1 DEF Prepared, BoardInv, CardsInv
  <2> QED
    BY <2>3, <2>4 DEF CardsAfter, CardsInv
<1> QED
  BY <1>1, <1>2, <1>3, <1>4 DEF Next

LEMMA BoardInit == Init => Apart /\ Fresh /\ TabInv /\ CardsInv
<1> SUFFICES ASSUME Init PROVE Apart /\ Fresh /\ TabInv /\ CardsInv
  OBVIOUS
<1>1. /\ \A c \in Calls : call[c] = Idle
      /\ \A k \in Columns : files[k] \in {None, << >>}
      /\ alive = {} /\ card = [n \in Cards |-> None] /\ told = 1
  BY DEF Init, Blank
<1>2. Of(<< >>) = {} /\ Of(None) = {} /\ Apiece(<< >>)
  BY DEF Of, Apiece
<1>3. \A k \in Columns : Cols[k] = {}
  BY <1>1, <1>2, ColsHands
<1>4. \A c \in Calls : Hands[c] = {}
  BY <1>1, EmptyHands, IdleIsCall
<1>5. CardsSettled
  BY <1>1, <1>3, <1>4 DEF CardsSettled, Settled
<1>6. Pieces
  <2>1. \A k \in Columns : files[k] # None => Apiece(files[k])
    BY <1>1, <1>2
  <2> QED
    BY <1>1, <2>1, IdleIsCall DEF Pieces
<1>7. Prepared /\ Apart /\ Fresh /\ TabInv
  BY <1>1, IdleIsCall DEF Prepared, Apart, Fresh, TabInv
<1>8. card \in [Cards -> CardType \union {None}]
  BY <1>1
<1> QED
  BY <1>5, <1>6, <1>7, <1>8 DEF CardsInv

\* A card that is not in the hands of a move is in one place of one column.
LEMMA EachInItsPlace ==
    ASSUME BoardTypes, CardsInv
    PROVE  CardsKept
<1> SUFFICES ASSUME NEW n \in alive \ Held
             PROVE  \E p \in Places(n) : Places(n) = {p} /\ files[p[1]][p[2]] = card[n]
  BY DEF CardsKept
<1>1. CardsSettled /\ Pieces /\ files \in Boards
  BY DEF CardsInv, BoardTypes
<1>2. ASSUME NEW c \in Calls, NEW x \in Hands[c], x.id = n PROVE FALSE
  <2>1. CASE call[c].pc = "target"
    <3>1. x = call[c].body[call[c].i]
      BY <2>1, <1>2, ColsHands DEF Carried
    <3>2. x.id \in {call[d].body[call[d].i].id : d \in {d \in Calls : call[d].pc = "target"}}
      BY <2>1, <3>1
    <3> QED
      BY <1>2, <3>2 DEF Held
  <2>2. CASE call[c].pc = "insert"
    <3>1. x \in Of(call[c].body) /\ call[c].body # None
      BY <2>2, <1>2, ColsHands DEF Carried, Of
    <3>2. PICK j \in 1..Len(call[c].body) : x = call[c].body[j]
      BY <3>1 DEF Of
    <3>3. x.id \in UNION {{call[d].body[i].id : i \in 1..Len(call[d].body)} :
                            d \in {d \in Calls : call[d].pc = "insert"}}
      <4>1. x.id \in {call[c].body[i].id : i \in 1..Len(call[c].body)}
        BY <3>2
      <4>2. c \in {d \in Calls : call[d].pc = "insert"}
        BY <2>2
      <4>3. {call[c].body[i].id : i \in 1..Len(call[c].body)} \in
                {{call[d].body[i].id : i \in 1..Len(call[d].body)} : d \in {d \in Calls : call[d].pc = "insert"}}
        BY <4>2, Zenon
      <4> QED
        BY <4>1, <4>3, Zenon
    <3> QED
      BY <1>2, <3>3 DEF Held
  <2>3. CASE call[c].pc \notin {"target", "insert"}
    BY <1>2, <2>3, EmptyHands
  <2> QED
    BY <2>1, <2>2, <2>3
<1>3. PICK k \in Columns : \E y \in Cols[k] : y.id = n
  BY <1>1, <1>2 DEF CardsSettled, Settled
<1>4. PICK x \in Cols[k] : x.id = n
  BY <1>3
<1>5. /\ x \in Of(files[k]) /\ files[k] # None /\ Known(x, next, card)
      /\ files[k] \in Column
  BY <1>1, <1>4, ColsHands DEF Of, CardsSettled, Settled, Boards
<1>6. PICK i \in 1..Len(files[k]) : x = files[k][i]
  BY <1>5 DEF Of
<1>7. ASSUME NEW m \in Columns, files[m] # None, NEW j \in 1..Len(files[m]), files[m][j].id = n
      PROVE  m = k /\ j = i
  <2>1. files[m][j] \in Cols[m]
    BY <1>7, ColsHands DEF Of
  <2>2. files[m][j] = x
    BY <1>1, <1>4, <1>5, <1>7, <2>1, OneCard DEF CardsSettled, Settled
  <2>3. m = k
    BY <1>1, <1>4, <2>1, <2>2 DEF CardsSettled, Settled
  <2>4. Apiece(files[k])
    BY <1>1, <1>5 DEF Pieces
  <2> QED
    BY <1>6, <1>7, <2>2, <2>3, <2>4 DEF Apiece
<1>8. Places(n) \subseteq {<<k, i>>}
  <2> SUFFICES ASSUME NEW p \in Places(n) PROVE p = <<k, i>>
    OBVIOUS
  <2>1. PICK m \in {q \in Columns : files[q] # None} :
               p \in {<<m, j>> : j \in {q \in 1..Len(files[m]) : files[m][q].id = n}}
    BY DEF Places
  <2>2. PICK j \in {q \in 1..Len(files[m]) : files[m][q].id = n} : p = <<m, j>>
    BY <2>1
  <2> QED
    BY <1>7, <2>2
<1>9. <<k, i>> \in Places(n)
  <2>1. <<k, i>> \in {<<k, j>> : j \in {q \in 1..Len(files[k]) : files[k][q].id = n}}
    BY <1>4, <1>6
  <2> QED
    BY <1>5, <2>1, Zenon DEF Places
<1>10. files[k][i] = card[n]
  BY <1>4, <1>5, <1>6 DEF Known
<1> QED
  BY <1>8, <1>9, <1>10

\* kanban.ts, KanbanBoard: whatever requests for different columns, moves and
\* crashes come between, a tab that has heard everything shows the board, the
\* links to loops excepted; unless requests for one column overlap or a tab's
\* answers overtake each other.
THEOREM TabsAreCurrent ==
    Hazards \intersect {"overlap", "reorder"} = {} => (ServicesSpec => []TabsCatchUp)
<1> SUFFICES ASSUME Hazards \intersect {"overlap", "reorder"} = {}
             PROVE  ServicesSpec => []TabsCatchUp
  OBVIOUS
<1> DEFINE Inv == BoardTypes /\ Apart /\ Fresh /\ TabInv
<1>1. ServicesInit => Inv
  BY BoardTypesInit, BoardInit DEF ServicesInit
<1>2. Inv /\ [ServicesNext]_<<focus, vars, accounts, tokens, chat>> => Inv'
  <2> SUFFICES ASSUME Inv, [ServicesNext]_<<focus, vars, accounts, tokens, chat>> PROVE Inv'
    OBVIOUS
  <2>1. [Next]_vars
    BY DEF ServicesNext
  <2> QED
    BY <2>1, BoardTypesStep, ApartStep, FreshStep, TabStep
<1>3. Inv => TabsCatchUp
  BY IdleIsCall DEF TabInv, Latest, TabsCatchUp
<1> QED
  BY <1>1, <1>2, <1>3, PTL DEF ServicesSpec

\* kanban.ts: a card that was added and not deleted is on the board once, as
\* it was last made to be, whatever requests for other columns come between,
\* except while its own move is under way; if requests for one column do not
\* overlap, a new column or name is not another's, the archive is created
\* once, a linked card is not saved from the dialog, and the server is not
\* killed in the middle of a move.
THEOREM CardsAreKept == Hazards \subseteq {"reorder"} => (ServicesSpec => []CardsKept)
<1> SUFFICES ASSUME Hazards \subseteq {"reorder"} PROVE ServicesSpec => []CardsKept
  OBVIOUS
<1>1. ServicesInit => BoardInv
  BY BoardTypesInit, BoardInit DEF ServicesInit, BoardInv
<1>2. BoardInv /\ [ServicesNext]_<<focus, vars, accounts, tokens, chat>> => BoardInv'
  <2> SUFFICES ASSUME BoardInv, [ServicesNext]_<<focus, vars, accounts, tokens, chat>> PROVE BoardInv'
    OBVIOUS
  <2>1. [Next]_vars
    BY DEF ServicesNext
  <2> QED
    BY <2>1, BoardTypesStep, ApartStep, FreshStep, CardsStep DEF BoardInv
<1>3. BoardInv => CardsKept
  BY EachInItsPlace DEF BoardInv
<1> QED
  BY <1>1, <1>2, <1>3, PTL DEF ServicesSpec
=============================================================================
