------------------------------ MODULE Accounts ------------------------------
(***************************************************************************)
(* Console accounts and their sessions (internal/api/auth.go,              *)
(* internal/storage/users.go, internal/auth, cmd/alertloop/user.go).       *)
(* Requests are served concurrently, one transaction per step; what a      *)
(* request read before stays in it and may be stale when used.  The        *)
(* administrator of the host runs `alertloop user` beside them.            *)
(*                                                                         *)
(* Time is kept as ages: a session knows how long ago it was created       *)
(* (age), last written as seen (idle) and really used (used).  A request   *)
(* knows how long ago it read its clock (ago).  An age stops counting      *)
(* where no comparison tells it from a larger one.                         *)
(***************************************************************************)
EXTENDS Naturals, Sequences, FiniteSets, Functions

CONSTANTS
    Clients,        \* requests served at the same time
    NoClient,
    Letters,        \* logins, as their letters
    Passwords,      \* passwords of an acceptable length
    NoPassword,     \* the field is missing from the request
    MaxLifetime,    \* ticks until a session ends, used or not
    IdleTimeout,    \* ticks until an unused session ends
    TouchEvery,     \* ticks between two writes of last_seen_at
    MaxDelay,       \* ticks a request spends in SessionUser at most
    MaxUsers,       \* bound: accounts
    MaxSessions     \* bound: sign-ins

ASSUME AccountsAssumption ==
    /\ NoClient \notin Clients /\ NoPassword \notin Passwords
    /\ {MaxLifetime, IdleTimeout, TouchEvery, MaxDelay, MaxUsers, MaxSessions} \subseteq Nat
    /\ MaxDelay < TouchEvery /\ TouchEvery < IdleTimeout /\ IdleTimeout < MaxLifetime

VARIABLES
    users,        \* the table users: a user's id is its place
    sessions,     \* the table sessions: id -> row
    lastSession,  \* session ids given out
    requests,     \* client -> where its request is, with what it has read
    firstUserLock,\* who holds the advisory lock of CreateFirstUser
    setups        \* setups that created a user

vars == <<users, sessions, lastSession, requests, firstUserLock, setups>>

Idle == [pc |-> "idle"]

\* A login as typed: its letters, and whether it came lower-cased and trimmed.
Typed == [letters : Letters, tidy : BOOLEAN]

NormalizeLogin(typed) == [letters |-> typed.letters, tidy |-> TRUE]

User == [login : Typed, password : Passwords, disabled : BOOLEAN]

NewUser(typed, password) ==
    [login |-> NormalizeLogin(typed), password |-> password, disabled |-> FALSE]

UserIds == DOMAIN users

Init ==
    /\ users = <<>>
    /\ sessions = <<>> /\ lastSession = 0
    /\ requests = [c \in Clients |-> Idle]
    /\ firstUserLock = NoClient
    /\ setups = 0

Go(c, request) == requests' = [requests EXCEPT ![c] = request]

Answer(c) == Go(c, Idle)
-----------------------------------------------------------------------------
(*************************** storage/users.go ******************************)

\* An insert whose login another transaction has inserted waits for its commit.
LoginFree(login) ==
    /\ \A c \in Clients : requests[c].pc = "commit" => requests[c].user.login # login
    /\ \A u \in UserIds : users[u].login # login

CreateUser(user) ==
    /\ Len(users) < MaxUsers
    /\ LoginFree(user.login)
    /\ users' = Append(users, user)

DropSessions(gone) == sessions' = Restrict(sessions, DOMAIN sessions \ gone)

SessionsOf(u) == {s \in DOMAIN sessions : sessions[s].user = u}

SetUserPassword(u, password, keep) ==
    /\ users' = [users EXCEPT ![u].password = password]
    /\ DropSessions(SessionsOf(u) \ keep)

DisableUser(u) ==
    /\ users' = [users EXCEPT ![u].disabled = TRUE]
    /\ DropSessions(SessionsOf(u))

EnableUser(u) == users' = [users EXCEPT ![u].disabled = FALSE]

CreateSession(u) ==
    /\ lastSession < MaxSessions
    /\ lastSession' = lastSession + 1
    /\ sessions' = [s \in DOMAIN sessions \cup {lastSession'} |->
                      IF s \in DOMAIN sessions THEN sessions[s]
                      ELSE [user |-> u, age |-> 0, idle |-> 0, used |-> 0]]

\* expires_at > now AND last_seen_at > idleSince, for a clock read `ago`.
Lives(session, ago) ==
    /\ session.age < MaxLifetime + ago
    /\ session.idle < IdleTimeout + ago

\* Fault: the sessions of a disabled user are taken to be gone.
SessionValidWhoever(s, ago) == s \in DOMAIN sessions /\ Lives(sessions[s], ago)

\* The WHERE of SessionUser.
SessionValid(s, ago) ==
    /\ s \in DOMAIN sessions
    /\ ~users[sessions[s].user].disabled
    /\ Lives(sessions[s], ago)

\* Fault: one tick late.
NeedsTouchLate(session, ago) == session.idle > TouchEvery + ago

\* last_seen_at is not written on every request.
NeedsTouch(session, ago) == session.idle >= TouchEvery + ago

\* The WHERE of DeleteExpiredSessions.
Expired(session, ago) ==
    \/ session.age >= MaxLifetime + ago
    \/ session.idle >= IdleTimeout + ago
-----------------------------------------------------------------------------
(************************ setup of the first user **************************)

\* Fault: CreateFirstUser without the advisory lock.
BeginSetupUnlocked(c, typed, password) ==
    /\ requests[c] = Idle
    /\ Go(c, [pc |-> "insert", user |-> NewUser(typed, password)])
    /\ UNCHANGED <<users, sessions, lastSession, firstUserLock, setups>>

\* handleSetup with the admin token: the advisory lock,
BeginSetup(c, typed, password) ==
    /\ requests[c] = Idle
    /\ firstUserLock = NoClient
    /\ firstUserLock' = c
    /\ Go(c, [pc |-> "insert", user |-> NewUser(typed, password)])
    /\ UNCHANGED <<users, sessions, lastSession, setups>>

\* Commit and rollback end the transaction and its lock.
ReleaseLock(c) == firstUserLock' = IF firstUserLock = c THEN NoClient ELSE firstUserLock

\* INSERT ... WHERE NOT EXISTS,
InsertFirst(c) ==
    /\ requests[c].pc = "insert"
    /\ \/ /\ users = <<>>
          /\ Go(c, [requests[c] EXCEPT !.pc = "commit"])
          /\ UNCHANGED firstUserLock
       \/ /\ users # <<>>
          /\ Answer(c)
          /\ ReleaseLock(c)
    /\ UNCHANGED <<users, sessions, lastSession, setups>>

\* and the commit, which makes the row visible; the session comes after it.
CommitFirst(c) ==
    /\ requests[c].pc = "commit"
    /\ Len(users) < MaxUsers
    /\ users' = Append(users, requests[c].user)
    /\ Go(c, [pc |-> "start", user |-> Len(users)'])
    /\ ReleaseLock(c)
    /\ setups' = setups + 1
    /\ UNCHANGED <<sessions, lastSession>>

StartSession(c) ==
    /\ requests[c].pc = "start"
    /\ CreateSession(requests[c].user)
    /\ Answer(c)
    /\ UNCHANGED <<users, firstUserLock, setups>>
-----------------------------------------------------------------------------
(******************************* sign-in ***********************************)

\* handleLogin: UserByLogin, then the check against the hash that was read.
\* An unknown login, a disabled user and a wrong password leave no trace here.
Login(c, typed, password) ==
    /\ requests[c] = Idle
    /\ \E u \in UserIds :
         /\ users[u].login = NormalizeLogin(typed)
         /\ ~users[u].disabled
         /\ users[u].password = password
         /\ Go(c, [pc |-> "start", user |-> u])
    /\ UNCHANGED <<users, sessions, lastSession, firstUserLock, setups>>

\* authenticateSession reads the clock,
Authenticate(c, s) ==
    /\ requests[c] = Idle
    /\ Go(c, [pc |-> "auth", session |-> s, ago |-> 0])
    /\ UNCHANGED <<users, sessions, lastSession, firstUserLock, setups>>

SignedIn(s) == [pc |-> "act", session |-> s, user |-> sessions[s].user,
                password |-> users[sessions[s].user].password]

\* The latest use counts, whichever request comes to an end last.
MarkUsed(s, idle, used) == [sessions EXCEPT ![s].idle = idle, ![s].used = IF used < @ THEN used ELSE @]

\* SessionUser queries,
Query(c) ==
    LET s == requests[c].session
        ago == requests[c].ago
    IN /\ requests[c].pc = "auth"
       /\ \/ ~SessionValid(s, ago) /\ Answer(c) /\ UNCHANGED sessions
          \/ /\ SessionValid(s, ago) /\ NeedsTouch(sessions[s], ago)
             /\ Go(c, [pc |-> "touch", ago |-> ago, as |-> SignedIn(s)])
             /\ UNCHANGED sessions
          \/ /\ SessionValid(s, ago) /\ ~NeedsTouch(sessions[s], ago)
             /\ Go(c, SignedIn(s))
             /\ sessions' = MarkUsed(s, sessions[s].idle, ago)
       /\ UNCHANGED <<users, lastSession, firstUserLock, setups>>

\* and moves last_seen_at to the clock it read.
Touch(c) ==
    LET as == requests[c].as
    IN /\ requests[c].pc = "touch"
       /\ sessions' = IF as.session \in DOMAIN sessions
                      THEN MarkUsed(as.session, requests[c].ago, requests[c].ago) ELSE sessions
       /\ Go(c, as)
       /\ UNCHANGED <<users, lastSession, firstUserLock, setups>>
-----------------------------------------------------------------------------
(*********************** the handlers behind withUser **********************)

Acting(c) == requests[c].pc = "act"

\* handleMe, handleListUsers, any /v1 request, any refusal: nothing changes.
ServeRead(c) ==
    /\ Acting(c)
    /\ Answer(c)
    /\ UNCHANGED <<users, sessions, lastSession, firstUserLock, setups>>

\* The current password is checked against the hash read with the session.
HandleChangePassword(c, current, password) ==
    /\ Acting(c)
    /\ \/ /\ requests[c].password = current
          /\ SetUserPassword(requests[c].user, password, {requests[c].session})
       \/ /\ requests[c].password # current
          /\ UNCHANGED <<users, sessions>>
    /\ Answer(c)
    /\ UNCHANGED <<lastSession, firstUserLock, setups>>

HandleCreateUser(c, typed, password) ==
    /\ Acting(c)
    /\ CreateUser(NewUser(typed, password))
    /\ Answer(c)
    /\ UNCHANGED <<sessions, lastSession, firstUserLock, setups>>

\* Nobody disables themselves.
HandleDisableUser(c, u) ==
    /\ Acting(c) /\ u # requests[c].user
    /\ DisableUser(u)
    /\ Answer(c)
    /\ UNCHANGED <<lastSession, firstUserLock, setups>>

HandleEnableUser(c, u) ==
    /\ Acting(c)
    /\ EnableUser(u)
    /\ Answer(c)
    /\ UNCHANGED <<sessions, lastSession, firstUserLock, setups>>

\* Nobody resets their own password.
HandleResetPassword(c, u, password) ==
    /\ Acting(c) /\ u # requests[c].user
    /\ SetUserPassword(u, password, {})
    /\ Answer(c)
    /\ UNCHANGED <<lastSession, firstUserLock, setups>>

\* handleLogout everywhere: DeleteUserSessions after SessionUser,
LogoutEverywhere(c) ==
    /\ Acting(c)
    /\ DropSessions(SessionsOf(requests[c].user))
    /\ Go(c, [pc |-> "leave", session |-> requests[c].session])
    /\ UNCHANGED <<users, lastSession, firstUserLock, setups>>

\* then, as for a plain logout, DeleteSession.
Leave(c) ==
    /\ requests[c].pc = "leave"
    /\ DropSessions({requests[c].session})
    /\ Answer(c)
    /\ UNCHANGED <<users, lastSession, firstUserLock, setups>>

Logout(c, s) ==
    /\ requests[c] = Idle
    /\ DropSessions({s})
    /\ UNCHANGED <<users, lastSession, requests, firstUserLock, setups>>

\* An error of the database or a client that goes away: rolled back, answered.
Abort(c) ==
    /\ requests[c] # Idle
    /\ Answer(c)
    /\ ReleaseLock(c)
    /\ UNCHANGED <<users, sessions, lastSession, setups>>
-----------------------------------------------------------------------------
(******************** alertloop user, retention, time **********************)

\* userAction: add, passwd, disable, enable.
HostCommand ==
    /\ \/ \E typed \in Typed, password \in Passwords :
            CreateUser(NewUser(typed, password)) /\ UNCHANGED sessions
       \/ \E u \in UserIds, password \in Passwords : SetUserPassword(u, password, {})
       \/ \E u \in UserIds : DisableUser(u)
       \/ \E u \in UserIds : users[u].disabled /\ EnableUser(u) /\ UNCHANGED sessions
    /\ UNCHANGED <<lastSession, requests, firstUserLock, setups>>

\* cleanupOnce, whose clock is at most MaxDelay old.
DeleteExpiredSessions(ago) ==
    /\ \E s \in DOMAIN sessions : Expired(sessions[s], ago)
    /\ DropSessions({s \in DOMAIN sessions : Expired(sessions[s], ago)})
    /\ UNCHANGED <<users, lastSession, requests, firstUserLock, setups>>

Clocked(c) == requests[c].pc \in {"auth", "touch"}

CountTo(n, limit) == IF n < limit THEN n + 1 ELSE limit

\* A tick; a request that read its clock MaxDelay ago is over before it.
Tick ==
    /\ \A c \in Clients : Clocked(c) => requests[c].ago < MaxDelay
    /\ sessions' = [s \in DOMAIN sessions |->
                      [sessions[s] EXCEPT !.age = CountTo(@, MaxLifetime + MaxDelay),
                                          !.idle = CountTo(@, IdleTimeout + MaxDelay),
                                          !.used = CountTo(@, IdleTimeout - TouchEvery + 1)]]
    /\ requests' = [c \in Clients |->
                      IF Clocked(c) THEN [requests[c] EXCEPT !.ago = @ + 1] ELSE requests[c]]
    /\ \/ DOMAIN sessions # {}
       \/ \E c \in Clients : Clocked(c)
    /\ UNCHANGED <<users, lastSession, firstUserLock, setups>>

Step(c) ==
    \/ InsertFirst(c) \/ CommitFirst(c) \/ StartSession(c)
    \/ Query(c) \/ Touch(c) \/ Leave(c)
    \/ ServeRead(c) \/ LogoutEverywhere(c)
    \/ \E u \in UserIds : HandleDisableUser(c, u) \/ HandleEnableUser(c, u)
    \/ \E password \in Passwords :
         \/ \E u \in UserIds : HandleResetPassword(c, u, password)
         \/ \E current \in Passwords \cup {NoPassword} : HandleChangePassword(c, current, password)
         \/ \E typed \in Typed : HandleCreateUser(c, typed, password)
    \/ Abort(c)

Arrive(c) ==
    \/ \E typed \in Typed, password \in Passwords :
         BeginSetup(c, typed, password) \/ Login(c, typed, password)
    \/ \E s \in 1 .. lastSession : Authenticate(c, s) \/ Logout(c, s)

Next ==
    \/ \E c \in Clients : Step(c) \/ Arrive(c)
    \/ HostCommand
    \/ \E ago \in 0 .. MaxDelay : DeleteExpiredSessions(ago)
    \/ Tick

Spec == Init /\ [][Next]_vars
-----------------------------------------------------------------------------
(******************************* properties ********************************)

Session == [user : 1 .. MaxUsers, age : 0 .. MaxLifetime + MaxDelay,
            idle : 0 .. IdleTimeout + MaxDelay, used : 0 .. IdleTimeout - TouchEvery + 1]

\* The first user is created once: of visitors who set the console up at the
\* same time one succeeds (CreateFirstUser); and two accounts never share a
\* login, however it was typed and whoever created them at once: setup, console
\* or host (NormalizeLogin, CreateUser).
OneFirstUser ==
    /\ setups <= 1
    /\ \A c \in Clients : requests[c].pc = "commit" => setups = 0
    /\ \A u, v \in UserIds : users[u].login.letters = users[v].login.letters => u = v

\* What was ended stays ended: a session that is over is not brought back by a
\* touch or sign-in that raced its end (DeleteSession, DisableUser, retention),
\* and a user who is disabled is not signed in from then on, although a sign-in
\* that read the account before may store its session after (SessionUser).
EndedStaysEnded ==
    [][/\ \A s \in 1 .. lastSession : s \notin DOMAIN sessions => s \notin DOMAIN sessions'
       /\ \A c \in Clients :
            requests[c].pc = "auth" /\ requests[c]'.pc \in {"act", "touch"} =>
               ~users[sessions[requests[c].session].user].disabled]_vars

\* A session in use does not end as idle: although last_seen_at is written only
\* every TouchEvery, and an earlier request may move it back after a later one,
\* a session whose latest use is within IdleTimeout - TouchEvery is accepted and
\* kept (SessionUser, DeleteExpiredSessions).  A use counts once SessionUser has
\* looked it up and, where it is due, written it.
UsedSessionsLast ==
    \A s \in DOMAIN sessions :
        LET session == sessions[s]
        IN session.used <= IdleTimeout - TouchEvery /\ session.age < MaxLifetime
             => \A ago \in 0 .. MaxDelay : Lives(session, ago) /\ ~Expired(session, ago)
=============================================================================
