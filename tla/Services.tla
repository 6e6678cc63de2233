------------------------------ MODULE Services ------------------------------
(***************************************************************************)
(* The services beside the loops, each with state of its own: the kanban   *)
(* board, the accounts, the API tokens and a tab's chat.  They share no    *)
(* state, so a behaviour is one of one of them.                            *)
(***************************************************************************)
EXTENDS Kanban

CONSTANTS
    Users,         \* who registers
    Convs,         \* conversations of the chat
    Absent, Empty, Torn,  \* what a file may be instead of what was written
    MaxAccountOps, MaxTokenCalls, MaxMsgs, MaxFetches,  \* bounds
    SlowReads,     \* a read of the token file may overlap other calls
    MayTear        \* the server may be killed while it writes that file

Account == [role : {"admin", "member"}, status : {"active", "pending"}]

ASSUME ServicesAssumption ==
    /\ None \notin Account
    /\ {None, Absent, Empty, Torn} \intersect [Users -> Account \union {None}] = {}
    /\ None \notin {Absent, Empty, Torn} /\ Absent \notin {Empty, Torn} /\ Empty # Torn
    /\ None \notin Calls
    /\ \A S \in SUBSET Texts : S # Absent /\ S # Empty
    /\ \A c \in Convs \union {None} : c \notin Nat
    /\ None \notin Convs
    /\ SlowReads \in BOOLEAN /\ MayTear \in BOOLEAN

VARIABLES
    focus,
    users, disk, ask, sessions, saved, asked, founded,
    cached, heap, file, queue, request, requests, used, live, gone,
    log, read, deaf, wire, conv, loaded, feed, root, panel, unread, gets, send

accounts == <<users, disk, ask, sessions, saved, asked, founded>>
tokens == <<cached, heap, file, queue, request, requests, used, live, gone>>
chat == <<log, read, deaf, wire, conv, loaded, feed, root, panel, unread, gets, send>>

A == INSTANCE Accounts WITH Requests <- Calls, MaxOps <- MaxAccountOps, ops <- asked
T == INSTANCE ApiTokens WITH Tokens <- Texts, MaxCalls <- MaxTokenCalls,
                             call <- request, calls <- requests
C == INSTANCE Chat WITH fetches <- gets

ServicesInit ==
    /\ Init /\ A!Init /\ T!Init /\ C!Init
    /\ focus \in {"kanban", "accounts", "tokens", "chat"}

ServicesNext ==
    /\ UNCHANGED focus
    /\ \/ focus = "kanban" /\ Next /\ UNCHANGED <<accounts, tokens, chat>>
       \/ focus = "accounts" /\ A!Next /\ UNCHANGED <<vars, tokens, chat>>
       \/ focus = "tokens" /\ T!Next /\ UNCHANGED <<vars, accounts, chat>>
       \/ focus = "chat" /\ C!Next /\ UNCHANGED <<vars, accounts, tokens>>

ServicesSpec == ServicesInit /\ [][ServicesNext]_<<focus, vars, accounts, tokens, chat>>
----------------------------------------------------------------------------
\* auth.ts: however requests overlap, the users the server knows, and those
\* it would find after a restart, include an admin.
AlwaysAnAdmin == A!AlwaysAnAdmin

\* api-tokens.ts: a token that was handed out is good until its revocation is
\* asked for, and none is good once that was answered, over restarts too.
TokensKept == T!TokensKept

\* ChatPage.tsx: however answers, frames and switches overlap, a loaded feed
\* shows each root once and nothing of another conversation or thread but
\* what one sent oneself.
NoStrangers == C!NoStrangers

\* auth.ts: one of the admins is active and can log in; fails.
AnAdminCanLogIn == A!AnAdminCanLogIn

\* auth.ts: whoever has a session has an account; fails.
OnlyUsersAreLoggedIn == A!OnlyUsersAreLoggedIn

\* auth.ts: users.json can be read unless a write is under way; fails.
FileIsReadable == A!FileIsReadable

\* ChatPage.tsx: one's own messages show where they were sent to; fails.
OwnMessagesStayHome == C!OwnMessagesStayHome

\* ChatPage.tsx: a tab that is up to date shows every root; fails.
FeedIsComplete == C!FeedIsComplete

\* ChatPage.tsx: the feed's reply counts are true; fails.
RepliesAreCounted == C!RepliesAreCounted

\* ChatPage.tsx: the rail's unread counts are true; fails.
UnreadIsTrue == C!UnreadIsTrue
============================================================================
