---------------------------- MODULE ConsoleProofs ----------------------------
(***************************************************************************)
(* What stands before the API, for any number of requests, users, sessions *)
(* and sources: the accounts of the console (Accounts), the limits on      *)
(* requests (RateLimit) and the sources an API key is limited to           *)
(* (Ownership).                                                            *)
(***************************************************************************)
EXTENDS Accounts, RateLimit, Ownership, FiniteSetTheorems, SequenceTheorems, WellFoundedInduction, TLAPS

(***************************************************************************)
(* Types.  The account an id names is there: accounts are never deleted,   *)
(* so that what a request or a session has read of one stays true of some  *)
(* row.                                                                    *)
(***************************************************************************)

Tidy == [letters : Letters, tidy : {TRUE}]

Account == [login : Tidy, password : Passwords, disabled : BOOLEAN]

SettingUp == [pc : {"insert", "commit"}, user : Account]

ActingOf(n) == [pc : {"act"}, session : Nat, user : 1 .. n, password : Passwords]

TouchingOf(n) == [pc : {"touch"}, ago : 0 .. MaxDelay, as : ActingOf(n)]

RequestOf(n) ==
    {Idle} \cup SettingUp \cup [pc : {"start"}, user : 1 .. n]
    \cup [pc : {"auth"}, session : Nat, ago : 0 .. MaxDelay]
    \cup TouchingOf(n) \cup ActingOf(n) \cup [pc : {"leave"}, session : Nat]

SessionOf(n) == [user : 1 .. n, age : Nat, idle : Nat, used : Nat]

AccountsTyped ==
    /\ users \in Seq(Account)
    /\ requests \in [Clients -> RequestOf(Len(users))]
    /\ lastSession \in Nat /\ DOMAIN sessions \subseteq Nat
    /\ \A s \in DOMAIN sessions : sessions[s] \in SessionOf(Len(users))

LEMMA AccountsConstants ==
    /\ MaxLifetime \in Nat /\ IdleTimeout \in Nat /\ TouchEvery \in Nat /\ MaxDelay \in Nat
    /\ MaxDelay < TouchEvery /\ TouchEvery < IdleTimeout
  BY AccountsAssumption

\* What is known of a request by where it is.
LEMMA RequestForms ==
    ASSUME NEW n \in Nat, NEW q \in RequestOf(n)
    PROVE  /\ q.pc \in {"insert", "commit"} => q \in SettingUp
           /\ q.pc = "start" => q.user \in 1 .. n
           /\ q.pc = "auth" => q \in [pc : {"auth"}, session : Nat, ago : 0 .. MaxDelay]
           /\ q.pc = "touch" => q \in TouchingOf(n)
           /\ q.pc = "act" => q \in ActingOf(n)
           /\ q.pc = "leave" => q \in [pc : {"leave"}, session : Nat]
           /\ q.pc \in {"idle", "insert", "commit", "start", "auth", "touch", "act", "leave"}
  BY DEF RequestOf, Idle, SettingUp, TouchingOf, ActingOf

LEMMA TypesGrow ==
    ASSUME NEW n \in Nat, NEW m \in Nat, n <= m
    PROVE  RequestOf(n) \subseteq RequestOf(m) /\ SessionOf(n) \subseteq SessionOf(m)
  <1>1. 1 .. n \subseteq 1 .. m
    OBVIOUS
  <1>2. ActingOf(n) \subseteq ActingOf(m)
    BY <1>1 DEF ActingOf
  <1>3. TouchingOf(n) \subseteq TouchingOf(m)
    BY <1>2 DEF TouchingOf
  <1>4. SessionOf(n) \subseteq SessionOf(m)
    BY <1>1 DEF SessionOf
  <1>5. [pc : {"start"}, user : 1 .. n] \subseteq [pc : {"start"}, user : 1 .. m]
    BY <1>1
  <1> QED
    BY <1>2, <1>3, <1>4, <1>5 DEF RequestOf

LEMMA NewUserType ==
    ASSUME NEW typed \in Typed, NEW password \in Passwords
    PROVE  NewUser(typed, password) \in Account
  BY DEF NewUser, NormalizeLogin, Typed, Account, Tidy

\* The rows of the same accounts: vs has the logins of us.
SameAccounts(us, vs) ==
    /\ vs \in Seq(Account) /\ Len(vs) = Len(us)
    /\ \A u \in 1 .. Len(us) : vs[u].login = us[u].login

\* A row us[u] is replaced by one of the same login; no such row, no change.
LEMMA RowChanged ==
    ASSUME NEW us \in Seq(Account), NEW u, NEW vs,
           u \in DOMAIN us => \E row \in Account : row.login = us[u].login /\ vs = [us EXCEPT ![u] = row],
           u \notin DOMAIN us => vs = us
    PROVE  SameAccounts(us, vs)
  <1>1. CASE u \in 1 .. Len(us)
    <2>1. PICK row \in Account : row.login = us[u].login /\ vs = [us EXCEPT ![u] = row]
      BY <1>1
    <2> QED
      BY <1>1, <2>1, ExceptSeq DEF SameAccounts
  <1>2. CASE u \notin 1 .. Len(us)
    BY <1>2 DEF SameAccounts
  <1> QED
    BY <1>1, <1>2

LEMMA PasswordChanged ==
    ASSUME NEW us \in Seq(Account), NEW u, NEW password \in Passwords
    PROVE  SameAccounts(us, [us EXCEPT ![u].password = password])
  <1>1. ASSUME u \in DOMAIN us
        PROVE  \E row \in Account : /\ row.login = us[u].login
                                    /\ [us EXCEPT ![u].password = password] = [us EXCEPT ![u] = row]
    <2>1. us[u] \in Account
      BY <1>1, ElementOfSeq
    <2> DEFINE row == [us[u] EXCEPT !.password = password]
    <2>2. row \in Account /\ row.login = us[u].login
      BY <2>1 DEF Account
    <2>3. [us EXCEPT ![u].password = password] = [us EXCEPT ![u] = row]
      OBVIOUS
    <2> QED
      BY <2>2, <2>3
  <1>2. u \notin DOMAIN us => [us EXCEPT ![u].password = password] = us
    <2>1. us = [v \in DOMAIN us |-> us[v]]
      OBVIOUS
    <2> QED
      BY <2>1
  <1> QED
    BY <1>1, <1>2, RowChanged

LEMMA DisabledChanged ==
    ASSUME NEW us \in Seq(Account), NEW u, NEW disabled \in BOOLEAN
    PROVE  SameAccounts(us, [us EXCEPT ![u].disabled = disabled])
  <1>1. ASSUME u \in DOMAIN us
        PROVE  \E row \in Account : /\ row.login = us[u].login
                                    /\ [us EXCEPT ![u].disabled = disabled] = [us EXCEPT ![u] = row]
    <2>1. us[u] \in Account
      BY <1>1, ElementOfSeq
    <2> DEFINE row == [us[u] EXCEPT !.disabled = disabled]
    <2>2. row \in Account /\ row.login = us[u].login
      BY <2>1 DEF Account
    <2>3. [us EXCEPT ![u].disabled = disabled] = [us EXCEPT ![u] = row]
      OBVIOUS
    <2> QED
      BY <2>2, <2>3
  <1>2. u \notin DOMAIN us => [us EXCEPT ![u].disabled = disabled] = us
    <2>1. us = [v \in DOMAIN us |-> us[v]]
      OBVIOUS
    <2> QED
      BY <2>1
  <1> QED
    BY <1>1, <1>2, RowChanged
-----------------------------------------------------------------------------
(***************************************************************************)
(* What a step does.  All steps but those of the setup of the first user   *)
(* have one of few effects on each table.                                  *)
(***************************************************************************)

\* An account is added whose login is free.
AccountAdded == \E a \in Account : LoginFree(a.login) /\ users' = Append(users, a)

UsersEffect == SameAccounts(users, users') \/ AccountAdded

\* Sessions are deleted,
SessionsDropped ==
    /\ lastSession' = lastSession /\ DOMAIN sessions' \subseteq DOMAIN sessions
    /\ \A s \in DOMAIN sessions' : sessions'[s] = sessions[s]

\* one is added under a new id,
SessionAdded == \E u \in 1 .. Len(users) : CreateSession(u)

\* one is used, and its last_seen_at is not far behind,
SessionUsed ==
    /\ lastSession' = lastSession
    /\ \E s \in DOMAIN sessions, idle, used \in Nat :
         /\ idle < TouchEvery \/ (idle = sessions[s].idle /\ idle < used + TouchEvery)
         /\ sessions' = MarkUsed(s, idle, used)

\* or all age.
SessionsAged ==
    /\ lastSession' = lastSession
    /\ sessions' = [s \in DOMAIN sessions |->
                      [sessions[s] EXCEPT !.age = CountTo(@, MaxLifetime + MaxDelay),
                                          !.idle = CountTo(@, IdleTimeout + MaxDelay),
                                          !.used = CountTo(@, IdleTimeout - TouchEvery + 1)]]

SessionsEffect == SessionsDropped \/ SessionAdded \/ SessionUsed \/ SessionsAged

\* No request comes to the setup of the first user or moves in it, and only a
\* user who is not disabled is signed in.
RequestsEffect ==
    /\ requests' \in [Clients -> RequestOf(Len(users'))]
    /\ \A c \in Clients :
         /\ requests'[c].pc \in {"insert", "commit"} => requests'[c] = requests[c]
         /\ requests[c].pc = "auth" /\ requests'[c].pc \in {"act", "touch"} =>
               ~users[sessions[requests[c].session].user].disabled

Ordinary ==
    UsersEffect /\ SessionsEffect /\ RequestsEffect /\ UNCHANGED <<firstUserLock, setups>>

LEMMA UsersGrow ==
    ASSUME AccountsTyped, UsersEffect
    PROVE  /\ users' \in Seq(Account) /\ Len(users) \in Nat /\ Len(users') \in Nat
           /\ Len(users) <= Len(users')
  <1>1. users \in Seq(Account) /\ Len(users) \in Nat
    BY DEF AccountsTyped
  <1>2. CASE SameAccounts(users, users')
    BY <1>1, <1>2 DEF SameAccounts
  <1>3. CASE AccountAdded
    <2>1. PICK a \in Account : users' = Append(users, a)
      BY <1>3 DEF AccountAdded
    <2> QED
      BY <1>1, <2>1, AppendProperties
  <1> QED
    BY <1>2, <1>3 DEF UsersEffect

LEMMA UsersRest ==
    ASSUME AccountsTyped, UNCHANGED users
    PROVE  UsersEffect
  BY DEF AccountsTyped, UsersEffect, SameAccounts

LEMMA SessionsRest ==
    ASSUME UNCHANGED <<sessions, lastSession>>
    PROVE  SessionsEffect
  BY DEF SessionsEffect, SessionsDropped

LEMMA DroppedEffect ==
    ASSUME NEW gone, DropSessions(gone), UNCHANGED lastSession
    PROVE  SessionsEffect
  BY DEF DropSessions, Restrict, SessionsEffect, SessionsDropped

LEMMA OneRequest ==
    ASSUME AccountsTyped, UsersEffect, NEW c \in Clients, NEW q \in RequestOf(Len(users')),
           requests' = [requests EXCEPT ![c] = q], q.pc \notin {"insert", "commit"},
           requests[c].pc = "auth" /\ q.pc \in {"act", "touch"} =>
               ~users[sessions[requests[c].session].user].disabled
    PROVE  RequestsEffect
  <1>1. RequestOf(Len(users)) \subseteq RequestOf(Len(users'))
    BY UsersGrow, TypesGrow
  <1>2. requests \in [Clients -> RequestOf(Len(users))]
    BY DEF AccountsTyped
  <1>3. requests' \in [Clients -> RequestOf(Len(users'))]
    BY <1>1, <1>2
  <1>4. ASSUME NEW d \in Clients
        PROVE  /\ requests'[d].pc \in {"insert", "commit"} => requests'[d] = requests[d]
               /\ requests[d].pc = "auth" /\ requests'[d].pc \in {"act", "touch"} =>
                     ~users[sessions[requests[d].session].user].disabled
    <2>1. requests'[d] = IF d = c THEN q ELSE requests[d]
      BY <1>2
    <2> QED
      BY <2>1
  <1> QED
    BY <1>3, <1>4 DEF RequestsEffect

\* A request that is answered.
LEMMA AnswerEffect ==
    ASSUME AccountsTyped, UsersEffect, NEW c \in Clients, Answer(c)
    PROVE  RequestsEffect
  <1>1. requests' = [requests EXCEPT ![c] = Idle] /\ Idle \in RequestOf(Len(users')) /\ Idle.pc = "idle"
    BY DEF Answer, Go, RequestOf, Idle
  <1> QED
    BY <1>1, OneRequest

LEMMA RequestsRest ==
    ASSUME AccountsTyped, UsersEffect, UNCHANGED requests
    PROVE  RequestsEffect
  <1>1. RequestOf(Len(users)) \subseteq RequestOf(Len(users'))
    BY UsersGrow, TypesGrow
  <1>2. requests' \in [Clients -> RequestOf(Len(users'))]
    BY <1>1 DEF AccountsTyped
  <1> QED
    BY <1>2 DEF RequestsEffect

\* The handlers behind withUser, and the end of a session.
LEMMA HandlerEffect ==
    ASSUME AccountsTyped, NEW c \in Clients,
           \/ ServeRead(c) \/ LogoutEverywhere(c) \/ Leave(c) \/ \E s : Logout(c, s)
           \/ \E u : HandleDisableUser(c, u) \/ HandleEnableUser(c, u)
           \/ \E password \in Passwords :
                \/ \E u : HandleResetPassword(c, u, password)
                \/ \E current : HandleChangePassword(c, current, password)
                \/ \E typed \in Typed : HandleCreateUser(c, typed, password)
    PROVE  Ordinary
  <1> USE DEF Ordinary
  <1>1. users \in Seq(Account) /\ Len(users) \in Nat
    BY DEF AccountsTyped
  <1>2. ASSUME UsersEffect, SessionsEffect, Answer(c), UNCHANGED <<firstUserLock, setups>>
        PROVE  Ordinary
    BY <1>2, AnswerEffect
  <1>3. CASE ServeRead(c)
    BY <1>2, <1>3, UsersRest, SessionsRest DEF ServeRead
  <1>4. ASSUME NEW current, NEW password \in Passwords, HandleChangePassword(c, current, password)
        PROVE  Ordinary
    <2>1. /\ Answer(c) /\ UNCHANGED <<lastSession, firstUserLock, setups>>
          /\ \/ SetUserPassword(requests[c].user, password, {requests[c].session})
             \/ UNCHANGED <<users, sessions>>
      BY <1>4 DEF HandleChangePassword
    <2>2. CASE UNCHANGED <<users, sessions>>
      BY <1>2, <2>1, <2>2, UsersRest, SessionsRest
    <2>3. CASE SetUserPassword(requests[c].user, password, {requests[c].session})
      <3>1. SameAccounts(users, users')
        BY <1>1, <2>3, PasswordChanged DEF SetUserPassword
      <3>2. SessionsEffect
        BY <2>1, <2>3, DroppedEffect DEF SetUserPassword
      <3> QED
        BY <1>2, <2>1, <3>1, <3>2 DEF UsersEffect
    <2> QED
      BY <2>1, <2>2, <2>3
  <1>5. ASSUME NEW typed \in Typed, NEW password \in Passwords, HandleCreateUser(c, typed, password)
        PROVE  Ordinary
    <2>1. /\ Answer(c) /\ UNCHANGED <<sessions, lastSession, firstUserLock, setups>>
          /\ CreateUser(NewUser(typed, password))
      BY <1>5 DEF HandleCreateUser
    <2>2. AccountAdded
      BY <2>1, NewUserType DEF CreateUser, AccountAdded
    <2> QED
      BY <1>2, <2>1, <2>2, SessionsRest DEF UsersEffect
  <1>6. ASSUME NEW u, HandleDisableUser(c, u) PROVE Ordinary
    <2>1. Answer(c) /\ DisableUser(u) /\ UNCHANGED <<lastSession, firstUserLock, setups>>
      BY <1>6 DEF HandleDisableUser
    <2>2. SameAccounts(users, users')
      BY <1>1, <2>1, DisabledChanged DEF DisableUser
    <2>3. SessionsEffect
      BY <2>1, DroppedEffect DEF DisableUser
    <2> QED
      BY <1>2, <2>1, <2>2, <2>3 DEF UsersEffect
  <1>7. ASSUME NEW u, HandleEnableUser(c, u) PROVE Ordinary
    <2>1. Answer(c) /\ EnableUser(u) /\ UNCHANGED <<sessions, lastSession, firstUserLock, setups>>
      BY <1>7 DEF HandleEnableUser
    <2>2. SameAccounts(users, users')
      BY <1>1, <2>1, DisabledChanged DEF EnableUser
    <2> QED
      BY <1>2, <2>1, <2>2, SessionsRest DEF UsersEffect
  <1>8. ASSUME NEW u, NEW password \in Passwords, HandleResetPassword(c, u, password)
        PROVE  Ordinary
    <2>1. /\ Answer(c) /\ SetUserPassword(u, password, {})
          /\ UNCHANGED <<lastSession, firstUserLock, setups>>
      BY <1>8 DEF HandleResetPassword
    <2>2. SameAccounts(users, users')
      BY <1>1, <2>1, PasswordChanged DEF SetUserPassword
    <2>3. SessionsEffect
      BY <2>1, DroppedEffect DEF SetUserPassword
    <2> QED
      BY <1>2, <2>1, <2>2, <2>3 DEF UsersEffect
  <1>9. CASE LogoutEverywhere(c)
    <2> DEFINE q == [pc |-> "leave", session |-> requests[c].session]
    <2>1. /\ Acting(c) /\ DropSessions(SessionsOf(requests[c].user))
          /\ requests' = [requests EXCEPT ![c] = q]
          /\ UNCHANGED <<users, lastSession, firstUserLock, setups>>
      BY <1>9 DEF LogoutEverywhere, Go
    <2>2. requests[c] \in ActingOf(Len(users))
      BY <1>1, <2>1, RequestForms DEF Acting, AccountsTyped
    <2>3. q \in RequestOf(Len(users')) /\ q.pc = "leave"
      BY <2>1, <2>2 DEF ActingOf, RequestOf
    <2> HIDE DEF q
    <2>4. UsersEffect /\ SessionsEffect
      BY <2>1, UsersRest, DroppedEffect
    <2> QED
      BY <2>1, <2>3, <2>4, OneRequest
  <1>10. CASE Leave(c)
    BY <1>2, <1>10, UsersRest, DroppedEffect DEF Leave
  <1>11. ASSUME NEW s, Logout(c, s) PROVE Ordinary
    BY <1>11, UsersRest, DroppedEffect, RequestsRest DEF Logout
  <1> QED
    BY <1>3, <1>4, <1>5, <1>6, <1>7, <1>8, <1>9, <1>10, <1>11

\* The sign-in, and SessionUser.
LEMMA SessionEffect ==
    ASSUME AccountsTyped, NEW c \in Clients,
           \/ StartSession(c) \/ Query(c) \/ Touch(c)
           \/ \E typed, password : Login(c, typed, password)
           \/ \E s \in 1 .. lastSession : Authenticate(c, s)
    PROVE  Ordinary
  <1> USE DEF Ordinary
  <1> DEFINE n == Len(users)
  <1>1. users \in Seq(Account) /\ n \in Nat /\ UserIds = 1 .. n /\ lastSession \in Nat
    BY DEF AccountsTyped, UserIds
  <1>2. requests[c] \in RequestOf(n)
    BY DEF AccountsTyped
  <1>3. UNCHANGED <<users, firstUserLock, setups>>
    BY DEF StartSession, Login, Authenticate, Query, Touch
  <1>4. UsersEffect /\ Len(users') = n
    BY <1>3, UsersRest
  <1>5. CASE StartSession(c)
    <2>1. requests[c].pc = "start" /\ CreateSession(requests[c].user) /\ Answer(c)
      BY <1>5 DEF StartSession
    <2>2. requests[c].user \in 1 .. n
      BY <1>1, <1>2, <2>1, RequestForms
    <2>3. SessionsEffect
      BY <2>1, <2>2 DEF SessionsEffect, SessionAdded
    <2> QED
      BY <1>3, <1>4, <2>1, <2>3, AnswerEffect
  <1>6. ASSUME NEW typed, NEW password, Login(c, typed, password) PROVE Ordinary
    <2>1. /\ requests[c] = Idle /\ UNCHANGED <<sessions, lastSession>>
          /\ \E u \in 1 .. n : requests' = [requests EXCEPT ![c] = [pc |-> "start", user |-> u]]
      BY <1>1, <1>6 DEF Login, Go
    <2>2. PICK u \in 1 .. n : requests' = [requests EXCEPT ![c] = [pc |-> "start", user |-> u]]
      BY <2>1
    <2> DEFINE q == [pc |-> "start", user |-> u]
    <2>3. q \in RequestOf(Len(users')) /\ q.pc = "start" /\ requests' = [requests EXCEPT ![c] = q]
      BY <1>4, <2>2 DEF RequestOf
    <2> HIDE DEF q
    <2> QED
      BY <1>3, <1>4, <2>1, <2>3, OneRequest, SessionsRest
  <1>7. ASSUME NEW s \in 1 .. lastSession, Authenticate(c, s) PROVE Ordinary
    <2> DEFINE q == [pc |-> "auth", session |-> s, ago |-> 0]
    <2>1. requests' = [requests EXCEPT ![c] = q] /\ UNCHANGED <<sessions, lastSession>>
      BY <1>7 DEF Authenticate, Go
    <2>2. s \in Nat /\ 0 \in 0 .. MaxDelay
      BY <1>1, AccountsConstants
    <2>3. q \in RequestOf(Len(users')) /\ q.pc = "auth"
      BY <2>2 DEF RequestOf
    <2> HIDE DEF q
    <2> QED
      BY <1>3, <1>4, <2>1, <2>3, OneRequest, SessionsRest
  <1>8. CASE Query(c)
    <2> DEFINE id == requests[c].session
               ago == requests[c].ago
               as == SignedIn(id)
               touching == [pc |-> "touch", ago |-> ago, as |-> as]
    <2>1. requests[c].pc = "auth"
      BY <1>8 DEF Query
    <2>2. /\ id \in Nat /\ ago \in 0 .. MaxDelay
      BY <1>1, <1>2, <2>1, RequestForms
    <2>3. UNCHANGED lastSession
      BY <1>8 DEF Query
    <2>4. CASE Answer(c) /\ UNCHANGED sessions
      BY <1>3, <1>4, <2>3, <2>4, AnswerEffect, SessionsRest
    <2>5. CASE SessionValid(id, ago) /\ (Go(c, touching) \/ Go(c, as))
               /\ (UNCHANGED sessions \/ (~NeedsTouch(sessions[id], ago)
                                          /\ sessions' = MarkUsed(id, sessions[id].idle, ago)))
      <3>1. /\ id \in DOMAIN sessions /\ ~users[sessions[id].user].disabled
            /\ sessions[id] \in SessionOf(n)
        BY <2>5 DEF SessionValid, AccountsTyped
      <3>2. sessions[id].user \in 1 .. n /\ sessions[id].idle \in Nat
        BY <3>1 DEF SessionOf
      <3>3. users[sessions[id].user].password \in Passwords
        <4>1. users[sessions[id].user] \in Account
          BY <1>1, <3>2, ElementOfSeq
        <4> QED
          BY <4>1 DEF Account
      <3>4. as \in ActingOf(n) /\ as.pc = "act"
        BY <2>2, <3>2, <3>3 DEF SignedIn, ActingOf
      <3>5. touching \in TouchingOf(n) /\ touching.pc = "touch"
        <4> HIDE DEF as, ago
        <4> QED
          BY <2>2, <3>4 DEF TouchingOf
      <3>6. PICK q \in {touching, as} : requests' = [requests EXCEPT ![c] = q]
        BY <2>5 DEF Go
      <3> HIDE DEF touching, as
      <3>7. q \in RequestOf(Len(users')) /\ q.pc \in {"act", "touch"}
        BY <1>4, <3>4, <3>5, <3>6 DEF RequestOf
      <3>8. RequestsEffect
        BY <1>4, <3>1, <3>6, <3>7, OneRequest
      <3>9. SessionsEffect
        <4>1. CASE UNCHANGED sessions
          BY <2>3, <4>1, SessionsRest
        <4>2. CASE ~NeedsTouch(sessions[id], ago) /\ sessions' = MarkUsed(id, sessions[id].idle, ago)
          <5>1. ago \in Nat /\ sessions[id].idle < ago + TouchEvery
            <6> HIDE DEF ago, id
            <6> QED
              BY <2>2, <3>2, <4>2, AccountsConstants DEF NeedsTouch
          <5> HIDE DEF ago, id
          <5> QED
            BY <2>3, <3>1, <3>2, <4>2, <5>1 DEF SessionsEffect, SessionUsed
        <4> QED
          BY <2>5, <4>1, <4>2
      <3> QED
        BY <1>3, <1>4, <3>8, <3>9
    <2> QED
      BY <1>8, <2>4, <2>5 DEF Query
  <1>9. CASE Touch(c)
    <2> DEFINE as == requests[c].as
               ago == requests[c].ago
    <2>1. /\ requests[c].pc = "touch" /\ requests' = [requests EXCEPT ![c] = as]
          /\ sessions' = IF as.session \in DOMAIN sessions THEN MarkUsed(as.session, ago, ago) ELSE sessions
          /\ UNCHANGED lastSession
      BY <1>9 DEF Touch, Go
    <2>2. as \in ActingOf(n) /\ ago \in Nat /\ ago < TouchEvery
      <3>1. requests[c] \in TouchingOf(n)
        BY <1>1, <1>2, <2>1, RequestForms
      <3> QED
        BY <3>1, AccountsConstants DEF TouchingOf
    <2>3. as \in RequestOf(Len(users')) /\ as.pc = "act"
      BY <1>4, <2>2 DEF RequestOf, ActingOf
    <2>4. RequestsEffect
      <3>1. requests[c].pc # "auth"
        BY <2>1
      <3> HIDE DEF as
      <3> QED
        BY <1>4, <2>1, <2>3, <3>1, OneRequest
    <2>5. SessionsEffect
      <3> HIDE DEF as, ago
      <3> QED
        BY <2>1, <2>2, SessionsRest DEF SessionsEffect, SessionUsed
    <2> QED
      BY <1>3, <1>4, <2>4, <2>5
  <1> QED
    BY <1>5, <1>6, <1>7, <1>8, <1>9

\* The host, retention and time.
LEMMA OutsideEffect ==
    ASSUME AccountsTyped, NEW ago,
           HostCommand \/ DeleteExpiredSessions(ago) \/ Tick
    PROVE  Ordinary
  <1> USE DEF Ordinary
  <1>1. users \in Seq(Account)
    BY DEF AccountsTyped
  <1>2. CASE HostCommand
    <2>1. UNCHANGED <<lastSession, requests, firstUserLock, setups>>
      BY <1>2 DEF HostCommand
    <2>2. UsersEffect /\ SessionsEffect
      <3>1. ASSUME NEW typed \in Typed, NEW password \in Passwords,
                   CreateUser(NewUser(typed, password)), UNCHANGED sessions
            PROVE  UsersEffect /\ SessionsEffect
        BY <2>1, <3>1, NewUserType, SessionsRest DEF CreateUser, AccountAdded, UsersEffect
      <3>2. ASSUME NEW u, NEW password \in Passwords, SetUserPassword(u, password, {})
            PROVE  UsersEffect /\ SessionsEffect
        BY <1>1, <2>1, <3>2, PasswordChanged, DroppedEffect DEF SetUserPassword, UsersEffect
      <3>3. ASSUME NEW u, DisableUser(u)
            PROVE  UsersEffect /\ SessionsEffect
        <4>1. SameAccounts(users, users')
          BY <1>1, <3>3, DisabledChanged DEF DisableUser
        <4>2. SessionsEffect
          BY <2>1, <3>3, DroppedEffect DEF DisableUser
        <4> QED
          BY <4>1, <4>2 DEF UsersEffect
      <3>4. ASSUME NEW u, EnableUser(u), UNCHANGED sessions
            PROVE  UsersEffect /\ SessionsEffect
        <4>1. SameAccounts(users, users')
          BY <1>1, <3>4, DisabledChanged DEF EnableUser
        <4> QED
          BY <2>1, <3>4, <4>1, SessionsRest DEF UsersEffect
      <3> QED
        BY <1>2, <3>1, <3>2, <3>3, <3>4 DEF HostCommand
    <2> QED
      BY <2>1, <2>2, RequestsRest
  <1>3. CASE DeleteExpiredSessions(ago)
    BY <1>3, UsersRest, RequestsRest, DroppedEffect DEF DeleteExpiredSessions
  <1>4. CASE Tick
    <2>1. UNCHANGED <<users, lastSession, firstUserLock, setups>>
      BY <1>4 DEF Tick
    <2>2. UsersEffect
      BY <2>1, UsersRest
    <2>3. SessionsEffect
      BY <1>4, <2>1 DEF Tick, SessionsEffect, SessionsAged
    <2>4. ASSUME NEW c \in Clients
          PROVE  /\ requests'[c] \in RequestOf(Len(users)) /\ requests'[c].pc = requests[c].pc
                 /\ requests'[c] = requests[c] \/ requests[c].pc \in {"auth", "touch"}
      <3>1. requests[c] \in RequestOf(Len(users)) /\ Len(users) \in Nat
        BY DEF AccountsTyped
      <3>2. /\ requests'[c] = IF Clocked(c) THEN [requests[c] EXCEPT !.ago = @ + 1] ELSE requests[c]
            /\ Clocked(c) => requests[c].ago < MaxDelay
        BY <1>4 DEF Tick
      <3>3. CASE ~Clocked(c)
        BY <3>1, <3>2, <3>3
      <3>4. CASE requests[c].pc = "auth"
        <4> DEFINE q == requests[c]
        <4>1. q \in [pc : {"auth"}, session : Nat, ago : 0 .. MaxDelay]
          BY <3>1, <3>4, RequestForms
        <4>2. q.ago + 1 \in 0 .. MaxDelay /\ requests'[c] = [q EXCEPT !.ago = q.ago + 1]
          BY <3>2, <3>4, <4>1, AccountsConstants DEF Clocked
        <4>3. requests'[c] \in [pc : {"auth"}, session : Nat, ago : 0 .. MaxDelay]
          BY <4>1, <4>2
        <4> QED
          BY <3>4, <4>3 DEF RequestOf
      <3>5. CASE requests[c].pc = "touch"
        <4> DEFINE q == requests[c]
        <4>1. q \in TouchingOf(Len(users))
          BY <3>1, <3>5, RequestForms
        <4>2. q.ago \in 0 .. MaxDelay
          BY <4>1 DEF TouchingOf
        <4>3. q.ago + 1 \in 0 .. MaxDelay /\ requests'[c] = [q EXCEPT !.ago = q.ago + 1]
          BY <3>2, <3>5, <4>2, AccountsConstants DEF Clocked
        <4>4. requests'[c] \in TouchingOf(Len(users)) /\ requests'[c].pc = "touch"
          BY <4>1, <4>3 DEF TouchingOf
        <4> QED
          BY <3>5, <4>4 DEF RequestOf
      <3> QED
        BY <3>3, <3>4, <3>5 DEF Clocked
    <2>5. DOMAIN requests' = Clients /\ requests' = [c \in Clients |-> requests'[c]]
      BY <1>4 DEF Tick
    <2>6. RequestsEffect
      BY <2>1, <2>4, <2>5 DEF RequestsEffect
    <2> QED
      BY <2>1, <2>2, <2>3, <2>6
  <1> QED
    BY <1>2, <1>3, <1>4

\* Every step is ordinary, or one of the setup of the first user.
LEMMA NextEffect ==
    ASSUME AccountsTyped, Next
    PROVE  \/ Ordinary
           \/ \E c \in Clients : InsertFirst(c) \/ CommitFirst(c) \/ Abort(c)
           \/ \E c \in Clients, typed \in Typed, password \in Passwords : BeginSetup(c, typed, password)
  <1>1. ASSUME NEW c \in Clients, Step(c)
        PROVE  Ordinary \/ InsertFirst(c) \/ CommitFirst(c) \/ Abort(c)
    BY <1>1, HandlerEffect, SessionEffect DEF Step
  <1>2. ASSUME NEW c \in Clients, Arrive(c)
        PROVE  \/ Ordinary
               \/ \E typed \in Typed, password \in Passwords : BeginSetup(c, typed, password)
    BY <1>2, HandlerEffect, SessionEffect DEF Arrive
  <1> QED
    BY <1>1, <1>2, OutsideEffect DEF Next
-----------------------------------------------------------------------------
(***************************************************************************)
(* The invariant of the accounts.                                          *)
(***************************************************************************)

InSetup(c) == requests[c].pc \in {"insert", "commit"}

LoginsDiffer == \A u, v \in UserIds : users[u].login = users[v].login => u = v

\* Who sets the console up holds the lock; while a first user is inserted and
\* not committed there was none before, and nobody has taken its login.
SetupInv ==
    /\ setups \in 0 .. 1 /\ (setups = 1 => users # <<>>)
    /\ \A c \in Clients : InSetup(c) => firstUserLock = c
    /\ \A c \in Clients : requests[c].pc = "commit" =>
          setups = 0 /\ \A u \in UserIds : users[u].login # requests[c].user.login
    /\ LoginsDiffer

\* last_seen_at is less than TouchEvery behind the last use, as long as that is told.
UseRecorded ==
    \A s \in DOMAIN sessions :
        \/ sessions[s].used = IdleTimeout - TouchEvery + 1
        \/ sessions[s].idle < sessions[s].used + TouchEvery

AccountsInv == AccountsTyped /\ SetupInv /\ UseRecorded

LEMMA SessionsEffectTyped ==
    ASSUME AccountsTyped, SessionsEffect, UsersEffect
    PROVE  /\ lastSession' \in Nat /\ DOMAIN sessions' \subseteq Nat
           /\ \A s \in DOMAIN sessions' : sessions'[s] \in SessionOf(Len(users'))
  <1>1. SessionOf(Len(users)) \subseteq SessionOf(Len(users'))
    BY UsersGrow, TypesGrow
  <1>2. /\ lastSession \in Nat /\ DOMAIN sessions \subseteq Nat
        /\ \A s \in DOMAIN sessions : sessions[s] \in SessionOf(Len(users))
    BY DEF AccountsTyped
  <1>3. CASE SessionsDropped
    BY <1>1, <1>2, <1>3 DEF SessionsDropped
  <1>4. CASE SessionAdded
    <2>1. PICK u \in 1 .. Len(users) : CreateSession(u)
      BY <1>4 DEF SessionAdded
    <2> DEFINE new == [user |-> u, age |-> 0, idle |-> 0, used |-> 0]
    <2>2. /\ lastSession' = lastSession + 1
          /\ DOMAIN sessions' = DOMAIN sessions \cup {lastSession + 1}
          /\ \A s \in DOMAIN sessions' : sessions'[s] = IF s \in DOMAIN sessions THEN sessions[s] ELSE new
      BY <2>1 DEF CreateSession
    <2>3. new \in SessionOf(Len(users))
      BY <2>1 DEF SessionOf
    <2> HIDE DEF new
    <2> QED
      BY <1>1, <1>2, <2>2, <2>3
  <1>5. CASE SessionUsed
    <2>1. PICK s \in DOMAIN sessions, idle, used \in Nat : sessions' = MarkUsed(s, idle, used)
      BY <1>5 DEF SessionUsed
    <2> DEFINE latest == IF used < sessions[s].used THEN used ELSE sessions[s].used
               marked == [sessions[s] EXCEPT !.idle = idle, !.used = latest]
    <2>2. sessions' = [sessions EXCEPT ![s] = marked]
      BY <2>1 DEF MarkUsed
    <2>3. marked \in SessionOf(Len(users))
      <3>1. sessions[s] \in SessionOf(Len(users)) /\ latest \in Nat
        BY <1>2, <2>1 DEF SessionOf
      <3> HIDE DEF latest
      <3> QED
        BY <2>1, <3>1 DEF SessionOf
    <2> HIDE DEF marked
    <2>4. \A x \in DOMAIN sessions' : sessions'[x] \in SessionOf(Len(users))
      BY <1>2, <2>2, <2>3
    <2> QED
      BY <1>1, <1>2, <1>5, <2>2, <2>4 DEF SessionUsed
  <1>6. CASE SessionsAged
    <2>1. DOMAIN sessions' = DOMAIN sessions /\ lastSession' = lastSession
      BY <1>6 DEF SessionsAged
    <2>2. ASSUME NEW s \in DOMAIN sessions PROVE sessions'[s] \in SessionOf(Len(users))
      <3>1. \A n, limit \in Nat : CountTo(n, limit) \in Nat
        BY DEF CountTo
      <3>2. MaxLifetime + MaxDelay \in Nat /\ IdleTimeout + MaxDelay \in Nat
            /\ IdleTimeout - TouchEvery + 1 \in Nat
        BY AccountsConstants
      <3> QED
        BY <1>2, <1>6, <3>1, <3>2 DEF SessionsAged, SessionOf
    <2> QED
      BY <1>1, <1>2, <2>1, <2>2
  <1> QED
    BY <1>3, <1>4, <1>5, <1>6 DEF SessionsEffect

LEMMA TypedStep ==
    ASSUME AccountsTyped, [Next]_vars
    PROVE  AccountsTyped'
  <1>1. CASE Ordinary
    BY <1>1, UsersGrow, SessionsEffectTyped DEF Ordinary, RequestsEffect, AccountsTyped
  <1>2. users \in Seq(Account) /\ Len(users) \in Nat /\ requests \in [Clients -> RequestOf(Len(users))]
    BY DEF AccountsTyped
  <1>3. ASSUME NEW c \in Clients, NEW q \in RequestOf(Len(users)), requests' = [requests EXCEPT ![c] = q],
               UNCHANGED <<users, sessions, lastSession>>
        PROVE  AccountsTyped'
    BY <1>2, <1>3 DEF AccountsTyped
  <1>4. ASSUME NEW c \in Clients, NEW typed \in Typed, NEW password \in Passwords,
               BeginSetup(c, typed, password)
        PROVE  AccountsTyped'
    <2> DEFINE q == [pc |-> "insert", user |-> NewUser(typed, password)]
    <2>1. requests' = [requests EXCEPT ![c] = q] /\ UNCHANGED <<users, sessions, lastSession>>
      BY <1>4 DEF BeginSetup, Go
    <2>2. q \in SettingUp
      BY NewUserType DEF SettingUp
    <2>3. q \in RequestOf(Len(users))
      BY <2>2 DEF RequestOf
    <2> QED
      BY <1>3, <2>1, <2>3
  <1>5. ASSUME NEW c \in Clients, Answer(c), UNCHANGED <<users, sessions, lastSession>>
        PROVE  AccountsTyped'
    BY <1>3, <1>5 DEF Answer, Go, RequestOf
  <1>6. ASSUME NEW c \in Clients, InsertFirst(c) PROVE AccountsTyped'
    <2>1. UNCHANGED <<users, sessions, lastSession>> /\ requests[c].pc = "insert"
      BY <1>6 DEF InsertFirst
    <2>2. CASE Answer(c)
      BY <1>5, <2>1, <2>2
    <2>3. CASE Go(c, [requests[c] EXCEPT !.pc = "commit"])
      <3>1. requests[c] \in SettingUp
        BY <1>2, <2>1, RequestForms
      <3>2. [requests[c] EXCEPT !.pc = "commit"] \in SettingUp
        BY <3>1 DEF SettingUp
      <3>3. [requests[c] EXCEPT !.pc = "commit"] \in RequestOf(Len(users))
        BY <3>2 DEF RequestOf
      <3> QED
        BY <1>3, <2>1, <2>3, <3>3 DEF Go
    <2> QED
      BY <1>6, <2>2, <2>3 DEF InsertFirst
  <1>7. ASSUME NEW c \in Clients, CommitFirst(c) PROVE AccountsTyped'
    <2> DEFINE q == [pc |-> "start", user |-> Len(users')]
    <2>1. /\ requests[c].pc = "commit" /\ users' = Append(users, requests[c].user)
          /\ requests' = [requests EXCEPT ![c] = q] /\ UNCHANGED <<sessions, lastSession>>
      BY <1>7 DEF CommitFirst, Go
    <2>2. requests[c].user \in Account
      <3>1. requests[c] \in SettingUp
        BY <1>2, <2>1, RequestForms
      <3> QED
        BY <3>1 DEF SettingUp
    <2>3. users' \in Seq(Account) /\ Len(users') = Len(users) + 1
      BY <1>2, <2>1, <2>2, AppendProperties
    <2>4. /\ RequestOf(Len(users)) \subseteq RequestOf(Len(users'))
          /\ SessionOf(Len(users)) \subseteq SessionOf(Len(users'))
      BY <1>2, <2>3, TypesGrow
    <2>5. q \in RequestOf(Len(users'))
      <3>1. Len(users') \in 1 .. Len(users')
        BY <1>2, <2>3
      <3> QED
        BY <3>1 DEF RequestOf
    <2> HIDE DEF q
    <2>6. requests' \in [Clients -> RequestOf(Len(users'))]
      BY <1>2, <2>1, <2>4, <2>5
    <2> QED
      BY <2>1, <2>3, <2>4, <2>6 DEF AccountsTyped
  <1>8. ASSUME NEW c \in Clients, Abort(c) PROVE AccountsTyped'
    BY <1>5, <1>8 DEF Abort
  <1>9. CASE UNCHANGED vars
    BY <1>9 DEF vars, AccountsTyped
  <1> QED
    BY <1>1, <1>4, <1>6, <1>7, <1>8, <1>9, NextEffect

\* One account more, of a login that no other has.
LEMMA LoginAdded ==
    ASSUME AccountsTyped, SetupInv, NEW a \in Account, users' = Append(users, a),
           \A u \in UserIds : users[u].login # a.login
    PROVE  /\ LoginsDiffer' /\ users' # <<>>
           /\ UserIds' = UserIds \cup {Len(users) + 1} /\ users'[Len(users) + 1] = a
           /\ \A u \in UserIds : users'[u] = users[u]
  <1>1. users \in Seq(Account) /\ Len(users) \in Nat /\ UserIds = 1 .. Len(users)
    BY DEF AccountsTyped, UserIds
  <1>2. /\ users' \in Seq(Account) /\ users' # <<>> /\ Len(users') = Len(users) + 1
        /\ \A u \in 1 .. Len(users) : users'[u] = users[u]
        /\ users'[Len(users) + 1] = a
    BY <1>1, AppendProperties
  <1>3. UserIds' = UserIds \cup {Len(users) + 1}
    <2>1. UserIds' = 1 .. Len(users) + 1
      BY <1>2 DEF UserIds
    <2> QED
      BY <1>1, <2>1
  <1>4. \A u, v \in UserIds : users[u].login = users[v].login => u = v
    BY DEF SetupInv, LoginsDiffer
  <1>5. LoginsDiffer'
    BY <1>1, <1>2, <1>3, <1>4 DEF LoginsDiffer
  <1> QED
    BY <1>1, <1>2, <1>3, <1>5

\* A step that leaves the accounts and the setups, and in whose course nobody
\* comes to the lock or moves in a setup.
LEMMA SetupQuiet ==
    ASSUME AccountsTyped, SetupInv, UsersEffect, UNCHANGED setups,
           \A c \in Clients : requests'[c].pc \in {"insert", "commit"} =>
               requests'[c] = requests[c] /\ firstUserLock' = firstUserLock
    PROVE  SetupInv'
  <1>1. users \in Seq(Account) /\ Len(users) \in Nat /\ UserIds = 1 .. Len(users)
    BY DEF AccountsTyped, UserIds
  <1>2. \A c \in Clients : InSetup(c)' => firstUserLock' = c
    BY DEF SetupInv, InSetup
  <1>3. /\ setups' \in 0 .. 1 /\ (setups' = 1 => users # <<>>)
        /\ \A c \in Clients : requests'[c].pc = "commit" => requests[c] = requests'[c] /\ setups' = 0
    BY DEF SetupInv
  <1>4. CASE SameAccounts(users, users')
    <2>1. UserIds' = UserIds /\ \A u \in UserIds : users'[u].login = users[u].login
      BY <1>1, <1>4 DEF SameAccounts, UserIds
    <2>2. users # <<>> => users' # <<>>
      BY <1>1, <1>4 DEF SameAccounts
    <2>3. LoginsDiffer'
      BY <2>1 DEF SetupInv, LoginsDiffer
    <2>4. \A c \in Clients : requests'[c].pc = "commit" =>
            \A u \in UserIds' : users'[u].login # requests'[c].user.login
      BY <1>3, <2>1 DEF SetupInv
    <2> QED
      BY <1>2, <1>3, <2>2, <2>3, <2>4 DEF SetupInv
  <1>5. CASE AccountAdded
    <2>1. PICK a \in Account : LoginFree(a.login) /\ users' = Append(users, a)
      BY <1>5 DEF AccountAdded
    <2>2. /\ \A u \in UserIds : users[u].login # a.login
          /\ \A c \in Clients : requests[c].pc = "commit" => requests[c].user.login # a.login
      BY <2>1 DEF LoginFree
    <2>3. /\ LoginsDiffer' /\ users' # <<>>
          /\ UserIds' = UserIds \cup {Len(users) + 1} /\ users'[Len(users) + 1] = a
          /\ \A u \in UserIds : users'[u] = users[u]
      BY <2>1, <2>2, LoginAdded
    <2>4. \A c \in Clients : requests'[c].pc = "commit" =>
            \A u \in UserIds' : users'[u].login # requests'[c].user.login
      BY <1>3, <2>2, <2>3 DEF SetupInv
    <2> QED
      BY <1>2, <1>3, <2>3, <2>4 DEF SetupInv
  <1> QED
    BY <1>4, <1>5 DEF UsersEffect

LEMMA SetupStep ==
    ASSUME AccountsTyped, SetupInv, [Next]_vars
    PROVE  SetupInv'
  <1>1. CASE Ordinary
    BY <1>1, SetupQuiet DEF Ordinary, RequestsEffect
  <1>2. users \in Seq(Account) /\ Len(users) \in Nat /\ DOMAIN requests = Clients /\ Idle.pc = "idle"
    BY DEF AccountsTyped, Idle
  <1>3. ASSUME NEW c \in Clients, NEW typed \in Typed, NEW password \in Passwords,
               BeginSetup(c, typed, password)
        PROVE  SetupInv'
    <2> DEFINE q == [pc |-> "insert", user |-> NewUser(typed, password)]
    <2>1. /\ firstUserLock = NoClient /\ firstUserLock' = c /\ UNCHANGED <<users, setups>>
          /\ requests' = [requests EXCEPT ![c] = q] /\ q.pc = "insert"
      BY <1>3 DEF BeginSetup, Go
    <2>2. ASSUME NEW d \in Clients
          PROVE  /\ d # c => requests'[d].pc \notin {"insert", "commit"}
                 /\ requests'[c].pc = "insert"
      BY <1>2, <2>1, AccountsAssumption DEF SetupInv, InSetup
    <2>3. \A d \in Clients : requests'[d].pc # "commit" /\ (InSetup(d)' => d = c)
      BY <2>2 DEF InSetup
    <2> HIDE DEF q
    <2> QED
      BY <2>1, <2>3 DEF SetupInv, LoginsDiffer, UserIds
  \* An answer, with which c leaves the setup if it was in it.
  <1>4. ASSUME NEW c \in Clients, Answer(c), ReleaseLock(c), UNCHANGED <<users, setups>>
        PROVE  SetupInv'
    <2>1. UsersEffect
      BY <1>4, UsersRest
    <2>2. ASSUME NEW d \in Clients, requests'[d].pc \in {"insert", "commit"}
          PROVE  requests'[d] = requests[d] /\ firstUserLock' = firstUserLock
      <3>1. d # c /\ requests'[d] = requests[d]
        BY <1>2, <1>4, <2>2 DEF Answer, Go
      <3>2. firstUserLock = d
        BY <2>2, <3>1 DEF SetupInv, InSetup
      <3> QED
        BY <1>4, <3>1, <3>2 DEF ReleaseLock
    <2> QED
      BY <1>4, <2>1, <2>2, SetupQuiet
  <1>5. ASSUME NEW c \in Clients, InsertFirst(c) PROVE SetupInv'
    <2>1. UNCHANGED <<users, setups>> /\ requests[c].pc = "insert"
      BY <1>5 DEF InsertFirst
    <2>2. CASE Answer(c) /\ ReleaseLock(c)
      BY <1>4, <2>1, <2>2
    <2>3. CASE users = <<>> /\ Go(c, [requests[c] EXCEPT !.pc = "commit"]) /\ UNCHANGED firstUserLock
      <3>1. /\ \A d \in Clients \ {c} : requests'[d] = requests[d]
            /\ firstUserLock = c
        BY <1>2, <2>1, <2>3 DEF Go, SetupInv, InSetup
      <3>2. setups = 0 /\ UserIds = {}
        BY <2>3 DEF SetupInv, UserIds
      <3>3. \A d \in Clients : InSetup(d)' => firstUserLock' = d
        BY <2>3, <3>1 DEF SetupInv, InSetup
      <3>4. UserIds' = {}
        BY <2>1, <3>2 DEF UserIds
      <3> QED
        BY <2>1, <3>2, <3>3, <3>4 DEF SetupInv, LoginsDiffer
    <2> QED
      BY <1>5, <2>2, <2>3 DEF InsertFirst
  <1>6. ASSUME NEW c \in Clients, CommitFirst(c) PROVE SetupInv'
    <2> DEFINE q == [pc |-> "start", user |-> Len(users')]
    <2>1. /\ requests[c].pc = "commit" /\ users' = Append(users, requests[c].user)
          /\ requests' = [requests EXCEPT ![c] = q] /\ q.pc = "start" /\ setups' = setups + 1
      BY <1>6 DEF CommitFirst, Go
    <2> HIDE DEF q
    <2>2. /\ setups = 0 /\ firstUserLock = c
          /\ \A u \in UserIds : users[u].login # requests[c].user.login
      BY <2>1 DEF SetupInv, InSetup
    <2>3. requests[c].user \in Account
      <3>1. requests[c] \in SettingUp
        BY <1>2, <2>1, RequestForms DEF AccountsTyped
      <3> QED
        BY <3>1 DEF SettingUp
    <2>4. LoginsDiffer' /\ users' # <<>>
      BY <2>1, <2>2, <2>3, LoginAdded
    <2>5. \A d \in Clients : requests'[d].pc \notin {"insert", "commit"}
      BY <1>2, <2>1, <2>2 DEF SetupInv, InSetup
    <2> QED
      BY <2>1, <2>2, <2>4, <2>5 DEF SetupInv, InSetup
  <1>7. ASSUME NEW c \in Clients, Abort(c) PROVE SetupInv'
    BY <1>4, <1>7 DEF Abort
  <1>8. CASE UNCHANGED vars
    BY <1>8, SetupQuiet, UsersRest DEF vars
  <1> QED
    BY <1>1, <1>3, <1>5, <1>6, <1>7, <1>8, NextEffect

LEMMA UseStep ==
    ASSUME AccountsTyped, UseRecorded, [Next]_vars
    PROVE  UseRecorded'
  <1>1. \A s \in DOMAIN sessions : sessions[s] \in SessionOf(Len(users))
    BY DEF AccountsTyped
  <1>2. CASE SessionsDropped
    BY <1>2 DEF SessionsDropped, UseRecorded
  <1>3. CASE SessionAdded
    <2>1. PICK u \in 1 .. Len(users) : CreateSession(u)
      BY <1>3 DEF SessionAdded
    <2> DEFINE new == [user |-> u, age |-> 0, idle |-> 0, used |-> 0]
    <2>2. /\ DOMAIN sessions' = DOMAIN sessions \cup {lastSession + 1}
          /\ \A s \in DOMAIN sessions' : sessions'[s] = IF s \in DOMAIN sessions THEN sessions[s] ELSE new
      BY <2>1 DEF CreateSession
    <2>3. new.idle < new.used + TouchEvery
      BY AccountsConstants
    <2> HIDE DEF new
    <2> QED
      BY <2>2, <2>3 DEF UseRecorded
  <1>4. CASE SessionUsed
    <2>1. PICK s \in DOMAIN sessions, idle, used \in Nat :
            /\ idle < TouchEvery \/ (idle = sessions[s].idle /\ idle < used + TouchEvery)
            /\ sessions' = MarkUsed(s, idle, used)
      BY <1>4 DEF SessionUsed
    <2> DEFINE latest == IF used < sessions[s].used THEN used ELSE sessions[s].used
               marked == [sessions[s] EXCEPT !.idle = idle, !.used = latest]
    <2>2. sessions' = [sessions EXCEPT ![s] = marked]
      BY <2>1 DEF MarkUsed
    <2>3. /\ sessions[s].used \in Nat /\ sessions[s].idle \in Nat /\ latest \in Nat
          /\ latest = used \/ latest = sessions[s].used
      BY <1>1, <2>1 DEF SessionOf
    <2> HIDE DEF latest
    <2>4. marked.idle = idle /\ marked.used = latest
      BY <1>1, <2>1 DEF SessionOf
    <2> HIDE DEF marked
    <2>5. latest = IdleTimeout - TouchEvery + 1 \/ idle < latest + TouchEvery
      <3>1. CASE idle < TouchEvery
        BY <2>1, <2>3, <3>1, AccountsConstants
      <3>2. CASE idle = sessions[s].idle /\ idle < used + TouchEvery
        BY <2>3, <3>2 DEF UseRecorded
      <3> QED
        BY <2>1, <3>1, <3>2
    <2> QED
      BY <2>2, <2>4, <2>5 DEF UseRecorded
  <1>5. CASE SessionsAged
    <2>1. ASSUME NEW s \in DOMAIN sessions
          PROVE  \/ sessions'[s].used = IdleTimeout - TouchEvery + 1
                 \/ sessions'[s].idle < sessions'[s].used + TouchEvery
      <3> DEFINE idle == sessions[s].idle
                 used == sessions[s].used
      <3>1. idle \in Nat /\ used \in Nat
        BY <1>1 DEF SessionOf
      <3>2. /\ sessions'[s].idle = CountTo(idle, IdleTimeout + MaxDelay)
            /\ sessions'[s].used = CountTo(used, IdleTimeout - TouchEvery + 1)
        BY <1>1, <1>5 DEF SessionsAged, SessionOf
      <3>3. used = IdleTimeout - TouchEvery + 1 \/ idle < used + TouchEvery
        BY DEF UseRecorded
      <3> HIDE DEF idle, used
      <3>4. CASE ~(used < IdleTimeout - TouchEvery + 1)
        BY <3>2, <3>4 DEF CountTo
      <3>5. CASE used < IdleTimeout - TouchEvery + 1
        <4>1. sessions'[s].used = used + 1 /\ idle < used + TouchEvery
          BY <3>1, <3>2, <3>3, <3>5, AccountsConstants DEF CountTo
        <4>2. sessions'[s].idle \in Nat /\ sessions'[s].idle <= idle + 1
          <5>1. idle < IdleTimeout + MaxDelay
            BY <3>1, <3>5, <4>1, AccountsConstants
          <5> QED
            BY <3>1, <3>2, <5>1 DEF CountTo
        <4> QED
          BY <3>1, <4>1, <4>2, AccountsConstants
      <3> QED
        BY <3>4, <3>5
    <2>2. DOMAIN sessions' = DOMAIN sessions
      BY <1>5 DEF SessionsAged
    <2> QED
      BY <2>1, <2>2 DEF UseRecorded
  <1>6. CASE UNCHANGED sessions
    BY <1>6 DEF UseRecorded
  <1>7. Next => SessionsEffect \/ UNCHANGED sessions
    BY NextEffect DEF Ordinary, BeginSetup, InsertFirst, CommitFirst, Abort
  <1> QED
    BY <1>2, <1>3, <1>4, <1>5, <1>6, <1>7 DEF SessionsEffect, vars

LEMMA AccountsInvariant == Spec => []AccountsInv
  <1>1. Init => AccountsInv
    <2> SUFFICES ASSUME Init PROVE AccountsInv
      OBVIOUS
    <2>1. /\ users = <<>> /\ users \in Seq(Account) /\ Len(users) = 0 /\ UserIds = {}
          /\ DOMAIN sessions = {} /\ lastSession = 0 /\ setups = 0
          /\ requests = [c \in Clients |-> Idle]
      BY DEF Init, UserIds
    <2>2. Idle \in RequestOf(Len(users)) /\ Idle.pc = "idle"
      BY DEF RequestOf, Idle
    <2>3. AccountsTyped
      BY <2>1, <2>2 DEF AccountsTyped
    <2>4. SetupInv
      BY <2>1, <2>2 DEF SetupInv, InSetup, LoginsDiffer
    <2> QED
      BY <2>1, <2>3, <2>4 DEF AccountsInv, UseRecorded
  <1>2. AccountsInv /\ [Next]_vars => AccountsInv'
    BY TypedStep, SetupStep, UseStep DEF AccountsInv
  <1> QED
    BY <1>1, <1>2, PTL DEF Spec

(***************************************************************************)
(* The first user is created once, and two accounts never share a login,   *)
(* however many visitors set the console up, or add the same account, at   *)
(* once (CreateFirstUser, CreateUser, NormalizeLogin).                     *)
(***************************************************************************)
THEOREM FirstUserOnce == Spec => []OneFirstUser
  <1>1. AccountsInv => OneFirstUser
    <2> SUFFICES ASSUME AccountsInv PROVE OneFirstUser
      OBVIOUS
    <2>1. setups <= 1 /\ \A c \in Clients : requests[c].pc = "commit" => setups = 0
      BY DEF AccountsInv, SetupInv
    <2>2. \A u \in UserIds : users[u].login \in Tidy
      <3>1. \A u \in 1 .. Len(users) : users[u] \in Account
        BY ElementOfSeq DEF AccountsInv, AccountsTyped
      <3>2. UserIds = 1 .. Len(users)
        BY DEF AccountsInv, AccountsTyped, UserIds
      <3> QED
        BY <3>1, <3>2 DEF Account
    <2>3. \A a, b \in Tidy : a.letters = b.letters => a = b
      <3>1. ASSUME NEW a \in Tidy PROVE a = [letters |-> a.letters, tidy |-> TRUE]
        <4>1. a.tidy = TRUE
          BY DEF Tidy
        <4>2. a = [letters |-> a.letters, tidy |-> a.tidy]
          BY DEF Tidy
        <4> QED
          BY <4>1, <4>2, Zenon
      <3> QED
        BY <3>1
    <2>4. \A u, v \in UserIds : users[u].login.letters = users[v].login.letters => u = v
      BY <2>2, <2>3 DEF AccountsInv, SetupInv, LoginsDiffer
    <2> QED
      BY <2>1, <2>4 DEF OneFirstUser
  <1> QED
    BY <1>1, AccountsInvariant, PTL

(***************************************************************************)
(* A session in use does not end as idle, for any timeouts with            *)
(* MaxDelay < TouchEvery < IdleTimeout and however its requests overlap    *)
(* (SessionUser, DeleteExpiredSessions).                                   *)
(***************************************************************************)
THEOREM SessionsInUseLast == Spec => []UsedSessionsLast
  <1>1. AccountsInv => UsedSessionsLast
    <2> SUFFICES ASSUME AccountsInv, NEW s \in DOMAIN sessions, NEW ago \in 0 .. MaxDelay,
                        sessions[s].used <= IdleTimeout - TouchEvery, sessions[s].age < MaxLifetime
                 PROVE  Lives(sessions[s], ago) /\ ~Expired(sessions[s], ago)
      BY DEF UsedSessionsLast
    <2>1. sessions[s].age \in Nat /\ sessions[s].idle \in Nat /\ sessions[s].used \in Nat
      BY DEF AccountsInv, AccountsTyped, SessionOf
    <2>2. \/ sessions[s].used = IdleTimeout - TouchEvery + 1
          \/ sessions[s].idle < sessions[s].used + TouchEvery
      BY DEF AccountsInv, UseRecorded
    <2>3. sessions[s].idle < IdleTimeout
      BY <2>1, <2>2, AccountsConstants
    <2> QED
      BY <2>1, <2>3, AccountsConstants DEF Lives, Expired
  <1> QED
    BY <1>1, AccountsInvariant, PTL

(***************************************************************************)
(* What was ended stays ended: no step of anybody brings a session back,   *)
(* and none signs in a user who is disabled (SessionUser, CreateSession).  *)
(***************************************************************************)
THEOREM EndedForGood == Spec => EndedStaysEnded
  <1> DEFINE P == /\ \A s \in 1 .. lastSession : s \notin DOMAIN sessions => s \notin DOMAIN sessions'
                  /\ \A c \in Clients :
                       requests[c].pc = "auth" /\ requests[c]'.pc \in {"act", "touch"} =>
                          ~users[sessions[requests[c].session].user].disabled
  <1>1. AccountsInv /\ [Next]_vars => [P]_vars
    <2> SUFFICES ASSUME AccountsInv, Next PROVE P
      OBVIOUS
    <2>1. AccountsTyped /\ lastSession \in Nat /\ DOMAIN requests = Clients /\ Idle.pc = "idle"
      BY DEF AccountsInv, AccountsTyped, Idle
    <2>2. CASE Ordinary
      <3>1. ASSUME NEW s \in 1 .. lastSession, s \notin DOMAIN sessions
            PROVE  s \notin DOMAIN sessions'
        <4>1. CASE SessionsDropped
          BY <3>1, <4>1 DEF SessionsDropped
        <4>2. CASE SessionAdded
          <5>1. DOMAIN sessions' = DOMAIN sessions \cup {lastSession + 1}
            BY <4>2 DEF SessionAdded, CreateSession
          <5>2. s # lastSession + 1
            BY <2>1
          <5> QED
            BY <3>1, <5>1, <5>2
        <4>3. CASE SessionUsed \/ SessionsAged
          BY <3>1, <4>3 DEF SessionUsed, SessionsAged, MarkUsed
        <4> QED
          BY <2>2, <4>1, <4>2, <4>3 DEF Ordinary, SessionsEffect
      <3> QED
        BY <2>2, <3>1 DEF Ordinary, RequestsEffect
    <2>3. ASSUME NEW c \in Clients, NEW q, requests' = [requests EXCEPT ![c] = q],
                 q.pc \notin {"act", "touch"}, UNCHANGED sessions
          PROVE  P
      BY <2>1, <2>3
    <2>4. ASSUME NEW c \in Clients, InsertFirst(c) PROVE P
      <3>1. requests[c] \in SettingUp
        BY <2>1, <2>4, RequestForms DEF InsertFirst, AccountsTyped
      <3>2. [requests[c] EXCEPT !.pc = "commit"].pc = "commit"
        BY <3>1 DEF SettingUp
      <3> HIDE DEF P
      <3> QED
        BY <2>1, <2>3, <2>4, <3>2 DEF InsertFirst, Answer, Go
    <2>5. ASSUME NEW c \in Clients, CommitFirst(c) PROVE P
      <3> DEFINE q == [pc |-> "start", user |-> Len(users)']
      <3>1. requests' = [requests EXCEPT ![c] = q] /\ q.pc = "start" /\ UNCHANGED sessions
        BY <2>5 DEF CommitFirst, Go
      <3> HIDE DEF P, q
      <3> QED
        BY <2>3, <3>1
    <2>6. ASSUME NEW c \in Clients, NEW typed, NEW password, BeginSetup(c, typed, password) PROVE P
      <3> DEFINE q == [pc |-> "insert", user |-> NewUser(typed, password)]
      <3>1. requests' = [requests EXCEPT ![c] = q] /\ q.pc = "insert" /\ UNCHANGED sessions
        BY <2>6 DEF BeginSetup, Go
      <3> HIDE DEF P, q
      <3> QED
        BY <2>3, <3>1
    <2>7. ASSUME NEW c \in Clients, Abort(c) PROVE P
      <3> HIDE DEF P
      <3> QED
        BY <2>1, <2>3, <2>7 DEF Abort, Answer, Go
    <2> HIDE DEF P
    <2> QED
      BY <2>1, <2>2, <2>4, <2>5, <2>6, <2>7, NextEffect
  <1>2. [][P]_vars => EndedStaysEnded
    BY DEF EndedStaysEnded
  <1> QED
    BY <1>1, <1>2, AccountsInvariant, PTL DEF Spec
-----------------------------------------------------------------------------
(***************************************************************************)
(* The sources of an API key.  The event a report has found was checked    *)
(* when it was found.  It may be closed, expire or be replaced by another  *)
(* event of the same key before the report writes, but an id is given out  *)
(* once and an event keeps its source: so the check stays true of the id.  *)
(***************************************************************************)

\* The API key of report q may have source.
Allows(q, source) == q.allowed = NoLimit \/ source \in q.allowed

\* The event report q has found, in the rows h of which g ids were given out.
OwnEvent(q, h, g) == q.event \in 1 .. g /\ (q.event \in DOMAIN h => Allows(q, h[q.event].source))

ReportFields == {"pc", "allowed", "source", "status", "again"}

\* What a report knows, by where it is.
Knows(q, h, g) ==
    /\ q.pc \in {"lookup", "insert", "conflict", "find", "latest"} => DOMAIN q = ReportFields
    /\ q.pc \in {"lookup", "insert", "conflict", "refresh"} => Allows(q, q.source)
    /\ q.pc = "refresh" => OwnEvent(q, h, g)
    /\ q.pc \in {"update", "reread"} =>
          DOMAIN q = {"pc", "allowed", "event", "from", "try"} /\ OwnEvent(q, h, g)

HeldTyped(h, g) ==
    /\ g \in Nat /\ DOMAIN h \subseteq 1 .. g
    /\ \A e \in DOMAIN h : DOMAIN h[e] = {"source", "state", "said"}

OwnInv ==
    /\ DOMAIN reports = Reporters /\ HeldTyped(held, given)
    /\ \A c \in Reporters : Knows(reports[c], held, given)

\* No id is given out again, and events keep their sources.
HeldKept(h, g, h2, g2) ==
    /\ HeldTyped(h2, g2) /\ g <= g2
    /\ \A e \in 1 .. g : e \in DOMAIN h2 => e \in DOMAIN h /\ h2[e].source = h[e].source

LEMMA KnowledgeLasts ==
    ASSUME NEW q, NEW h, NEW g, NEW h2, NEW g2, HeldTyped(h, g), HeldKept(h, g, h2, g2), Knows(q, h, g)
    PROVE  Knows(q, h2, g2)
  <1>1. OwnEvent(q, h, g) => OwnEvent(q, h2, g2)
    BY DEF OwnEvent, HeldTyped, HeldKept, Allows
  <1> QED
    BY <1>1 DEF Knows

\* What a step of report c may do to others.
Untouched(c) ==
    reports[c] # AtRest /\ reports[c].pc # "answered" /\ reports[c].allowed # NoLimit =>
       /\ \A e \in DOMAIN held' :
            e \notin DOMAIN held \/ held'[e] # held[e] => held'[e].source \in reports[c].allowed
       /\ reports'[c].pc = "answered" => reports'[c].shown \in reports[c].allowed

OwnStep(c) ==
    /\ HeldKept(held, given, held', given')
    /\ \E q : Knows(q, held', given') /\ Becomes(c, q)
    /\ Untouched(c)

LEMMA NothingHeldChanges ==
    ASSUME OwnInv
    PROVE  HeldKept(held, given, held, given)
  BY DEF OwnInv, HeldKept, HeldTyped

\* A step that changes the report alone.
LEMMA OnlyReportStep ==
    ASSUME OwnInv, NEW c \in Reporters, NEW q, OnlyReport(c, q), Knows(q, held, given),
           q.pc = "answered" => Allows(reports[c], q.shown)
    PROVE  OwnStep(c)
  <1>1. Becomes(c, q) /\ held' = held /\ given' = given /\ reports'[c] = q
    BY DEF OnlyReport, Becomes, OwnInv
  <1>2. Untouched(c)
    BY <1>1 DEF Untouched, Allows
  <1> QED
    BY <1>1, <1>2, NothingHeldChanges DEF OwnStep

LEMMA RestStep ==
    ASSUME OwnInv, NEW c \in Reporters, OnlyReport(c, AtRest)
    PROVE  OwnStep(c)
  <1>1. Knows(AtRest, held, given) /\ AtRest.pc # "answered"
    BY DEF Knows, AtRest
  <1> QED
    BY <1>1, OnlyReportStep

\* An answer shows the event of an id the key may see.
LEMMA ShowStep ==
    ASSUME OwnInv, NEW c \in Reporters, NEW source, Allows(reports[c], source),
           OnlyReport(c, Showing(c, source))
    PROVE  OwnStep(c)
  <1>1. Knows(Showing(c, source), held, given) /\ Showing(c, source).shown = source
    BY DEF Knows, Showing
  <1> QED
    BY <1>1, OnlyReportStep

\* A report that goes on to another place of its request.
LEMMA MovesOn ==
    ASSUME NEW q, DOMAIN q = ReportFields, NEW pc, NEW q2, q2 = [q EXCEPT !.pc = pc]
    PROVE  /\ DOMAIN q2 = ReportFields /\ q2.pc = pc
           /\ q2.allowed = q.allowed /\ q2.source = q.source /\ q2.status = q.status
  BY DEF ReportFields

LEMMA MetStep ==
    ASSUME OwnInv, NEW c \in Reporters, NEW e \in OpenNow, Met(c, e),
           reports[c].pc \in {"lookup", "conflict"}
    PROVE  OwnStep(c)
  <1> DEFINE q == reports[c]
  <1>1. /\ DOMAIN q = ReportFields /\ Allows(q, q.source)
        /\ e \in DOMAIN held /\ e \in 1 .. given
    BY DEF OwnInv, Knows, HeldTyped, OpenNow
  <1>2. CASE ~CheckOwner(q, e)
    BY <1>2, RestStep DEF Met
  <1>3. CASE CheckOwner(q, e) /\ (q.status # "firing" \/ q.again)
    <2>1. OnlyReport(c, Showing(c, held[e].source))
      BY <1>3 DEF Met
    <2> QED
      BY <1>3, <2>1, ShowStep DEF CheckOwner, Allows
  <1>4. CASE CheckOwner(q, e) /\ ~(q.status # "firing" \/ q.again)
    <2> DEFINE q2 == [pc |-> "refresh", allowed |-> q.allowed, source |-> q.source, event |-> e]
    <2>1. OnlyReport(c, q2)
      BY <1>4 DEF Met
    <2>2. q2.pc = "refresh" /\ q2.event = e /\ q2.allowed = q.allowed /\ q2.source = q.source
      OBVIOUS
    <2> HIDE DEF q2
    <2>3. Knows(q2, held, given)
      BY <1>1, <1>4, <2>2 DEF Knows, Allows, OwnEvent, CheckOwner
    <2> QED
      BY <2>1, <2>2, <2>3, OnlyReportStep
  <1> QED
    BY <1>2, <1>3, <1>4

\* A report that is still looking, at another place.
LEMMA LooksOn ==
    ASSUME OwnInv, NEW c \in Reporters, NEW pc \in {"insert", "conflict", "latest"},
           OnlyReport(c, [reports[c] EXCEPT !.pc = pc]), DOMAIN reports[c] = ReportFields,
           pc # "latest" => Allows(reports[c], reports[c].source)
    PROVE  OwnStep(c)
  <1> DEFINE q == reports[c]
             q2 == [q EXCEPT !.pc = pc]
  <1>1. DOMAIN q2 = ReportFields /\ q2.pc = pc /\ q2.allowed = q.allowed /\ q2.source = q.source
    BY MovesOn
  <1>2. OnlyReport(c, q2)
    OBVIOUS
  <1>3. pc # "latest" => Allows(q2, q2.source)
    BY <1>1 DEF Allows
  <1> HIDE DEF q2
  <1>4. Knows(q2, held, given) /\ q2.pc # "answered"
    BY <1>1, <1>3 DEF Knows
  <1> QED
    BY <1>2, <1>4, OnlyReportStep

LEMMA ReportedStep ==
    ASSUME OwnInv, NEW c \in Reporters, Reported(c)
    PROVE  OwnStep(c)
  <1> DEFINE Arrived(allowed, source, status) ==
               [pc |-> IF status = "resolved" THEN "find" ELSE "lookup",
                allowed |-> allowed, source |-> source, status |-> status, again |-> FALSE]
  <1>1. ASSUME NEW allowed, NEW source, NEW status,
               source = NoSource => status = "resolved",
               allowed # NoLimit /\ source # NoSource => source \in allowed,
               OnlyReport(c, Arrived(allowed, source, status))
        PROVE  OwnStep(c)
    <2> DEFINE q2 == Arrived(allowed, source, status)
    <2>1. /\ DOMAIN q2 = ReportFields /\ q2.allowed = allowed /\ q2.source = source
          /\ q2.pc = IF status = "resolved" THEN "find" ELSE "lookup"
      BY DEF ReportFields
    <2>2. OnlyReport(c, q2)
      BY <1>1
    <2> HIDE DEF q2
    <2>3. Knows(q2, held, given) /\ q2.pc # "answered"
      BY <1>1, <2>1 DEF Knows, Allows
    <2> QED
      BY <2>2, <2>3, OnlyReportStep
  <1>2. \E allowed \in Limits, source \in Sources \cup {NoSource}, status \in {"", "firing", "resolved"} :
           /\ source = NoSource => status = "resolved"
           /\ allowed # NoLimit /\ source # NoSource => source \in allowed
           /\ OnlyReport(c, Arrived(allowed, source, status))
    BY DEF Reported
  <1> HIDE DEF Arrived
  <1> QED
    BY <1>1, <1>2

LEMMA LookForStep ==
    ASSUME OwnInv, NEW c \in Reporters, LookFor(c)
    PROVE  OwnStep(c)
  <1>1. /\ reports[c].pc = "lookup" /\ DOMAIN reports[c] = ReportFields
        /\ Allows(reports[c], reports[c].source)
    BY DEF LookFor, OwnInv, Knows
  <1>2. CASE OpenNow = {}
    BY <1>1, <1>2, LooksOn DEF LookFor
  <1>3. CASE OpenNow # {}
    BY <1>1, <1>3, MetStep DEF LookFor
  <1> QED
    BY <1>2, <1>3

LEMMA InsertOwnStep ==
    ASSUME OwnInv, NEW c \in Reporters, InsertOwn(c)
    PROVE  OwnStep(c)
  <1> DEFINE q == reports[c]
  <1>1. q.pc = "insert" /\ DOMAIN q = ReportFields /\ Allows(q, q.source)
    BY DEF InsertOwn, OwnInv, Knows
  <1>2. CASE OnlyReport(c, [q EXCEPT !.pc = "conflict"])
    BY <1>1, <1>2, LooksOn
  <1>3. ASSUME given' = given + 1,
               held' = [e \in DOMAIN held \cup {given + 1} |->
                          IF e \in DOMAIN held THEN held[e]
                          ELSE [source |-> q.source, state |-> "new", said |-> q.source]],
               Becomes(c, Showing(c, q.source))
        PROVE  OwnStep(c)
    <2>1. HeldTyped(held, given)
      BY DEF OwnInv
    <2>2. /\ DOMAIN held' = DOMAIN held \cup {given + 1}
          /\ \A e \in DOMAIN held : held'[e] = held[e]
          /\ given + 1 \notin DOMAIN held
          /\ held'[given + 1] = [source |-> q.source, state |-> "new", said |-> q.source]
      BY <1>3, <2>1 DEF HeldTyped
    <2>3. held'[given + 1].source = q.source /\ DOMAIN held'[given + 1] = {"source", "state", "said"}
      BY <2>2
    <2>4. HeldTyped(held', given')
      BY <1>3, <2>1, <2>2, <2>3 DEF HeldTyped
    <2>5. HeldKept(held, given, held', given')
      BY <1>3, <2>1, <2>2, <2>4 DEF HeldTyped, HeldKept
    <2>6. Knows(Showing(c, q.source), held', given') /\ Showing(c, q.source).shown = q.source
      BY DEF Knows, Showing
    <2>7. reports'[c] = Showing(c, q.source)
      BY <1>3 DEF Becomes, OwnInv
    <2>8. Untouched(c)
      BY <1>1, <2>2, <2>3, <2>6, <2>7 DEF Untouched, Allows
    <2> QED
      BY <1>3, <2>5, <2>6, <2>8 DEF OwnStep
  <1> QED
    BY <1>2, <1>3 DEF InsertOwn

LEMMA MeetConflictStep ==
    ASSUME OwnInv, NEW c \in Reporters, MeetConflict(c)
    PROVE  OwnStep(c)
  BY RestStep, MetStep DEF MeetConflict

\* A report that writes a row e of its own and shows it.
LEMMA WriteStep ==
    ASSUME OwnInv, NEW c \in Reporters, NEW e \in DOMAIN held, Allows(reports[c], held[e].source),
           NEW row, row.source = held[e].source, DOMAIN row = {"source", "state", "said"},
           held' = [held EXCEPT ![e] = row], given' = given, Becomes(c, Showing(c, held[e].source))
    PROVE  OwnStep(c)
  <1>1. /\ DOMAIN held' = DOMAIN held /\ held'[e] = row
        /\ \A d \in DOMAIN held : d # e => held'[d] = held[d]
    OBVIOUS
  <1>2. HeldKept(held, given, held', given')
    BY <1>1 DEF OwnInv, HeldTyped, HeldKept
  <1>3. /\ Knows(Showing(c, held[e].source), held', given')
        /\ Showing(c, held[e].source).shown = held[e].source
    BY DEF Knows, Showing
  <1>4. reports'[c] = Showing(c, held[e].source)
    BY DEF Becomes, OwnInv
  <1>5. Untouched(c)
    BY <1>1, <1>3, <1>4 DEF Untouched, Allows
  <1> QED
    BY <1>2, <1>3, <1>5 DEF OwnStep

LEMMA RefreshMetStep ==
    ASSUME OwnInv, NEW c \in Reporters, RefreshMet(c)
    PROVE  OwnStep(c)
  <1> DEFINE q == reports[c]
             e == q.event
  <1>1. q.pc = "refresh" /\ Allows(q, q.source) /\ OwnEvent(q, held, given)
    BY DEF RefreshMet, OwnInv, Knows
  <1>2. CASE e \in OpenNow
    <2>1. e \in DOMAIN held /\ Allows(q, held[e].source) /\ DOMAIN held[e] = {"source", "state", "said"}
      BY <1>1, <1>2 DEF OpenNow, OwnEvent, OwnInv, HeldTyped
    <2> DEFINE row == [held[e] EXCEPT !.said = q.source]
    <2>2. row.source = held[e].source /\ DOMAIN row = {"source", "state", "said"}
      BY <2>1
    <2>3. held' = [held EXCEPT ![e] = row] /\ given' = given /\ Becomes(c, Showing(c, held[e].source))
      BY <1>2 DEF RefreshMet
    <2> HIDE DEF row
    <2> QED
      BY <2>1, <2>2, <2>3, WriteStep
  <1>3. CASE e \notin OpenNow
    <2> DEFINE q2 == [pc |-> "lookup", allowed |-> q.allowed,
                      source |-> q.source, status |-> "firing", again |-> TRUE]
    <2>1. OnlyReport(c, q2)
      BY <1>3 DEF RefreshMet
    <2>2. DOMAIN q2 = ReportFields /\ q2.pc = "lookup" /\ q2.allowed = q.allowed /\ q2.source = q.source
      BY DEF ReportFields
    <2> HIDE DEF q2
    <2>3. Knows(q2, held, given) /\ q2.pc # "answered"
      BY <1>1, <2>2 DEF Knows, Allows
    <2> QED
      BY <2>1, <2>3, OnlyReportStep
  <1> QED
    BY <1>2, <1>3

\* transition, on an event the key may close.
LEMMA CloseStep ==
    ASSUME OwnInv, NEW c \in Reporters, NEW e \in DOMAIN held, Allows(reports[c], held[e].source),
           NEW try, CloseMet(c, e, try)
    PROVE  OwnStep(c)
  <1>1. CASE held[e].state = "resolved"
    BY <1>1, ShowStep DEF CloseMet
  <1>2. CASE held[e].state # "resolved"
    <2> DEFINE q2 == [pc |-> "update", allowed |-> reports[c].allowed,
                      event |-> e, from |-> held[e].state, try |-> try]
    <2>1. OnlyReport(c, q2)
      BY <1>2 DEF CloseMet
    <2>2. /\ DOMAIN q2 = {"pc", "allowed", "event", "from", "try"} /\ q2.pc = "update"
          /\ q2.allowed = reports[c].allowed /\ q2.event = e /\ e \in 1 .. given
      BY DEF OwnInv, HeldTyped
    <2> HIDE DEF q2
    <2>3. Knows(q2, held, given) /\ q2.pc # "answered"
      BY <2>2 DEF Knows, Allows, OwnEvent
    <2> QED
      BY <2>1, <2>3, OnlyReportStep
  <1> QED
    BY <1>1, <1>2

LEMMA MetForCloseStep ==
    ASSUME OwnInv, NEW c \in Reporters, NEW e \in DOMAIN held, MetForClose(c, e)
    PROVE  OwnStep(c)
  BY CloseStep, RestStep DEF MetForClose, CheckOwner, Allows

LEMMA FindOpenStep ==
    ASSUME OwnInv, NEW c \in Reporters, FindOpen(c)
    PROVE  OwnStep(c)
  <1>1. CASE OpenNow = {}
    <2>1. reports[c].pc = "find" /\ DOMAIN reports[c] = ReportFields
      BY DEF FindOpen, OwnInv, Knows
    <2> QED
      BY <1>1, <2>1, LooksOn DEF FindOpen
  <1>2. CASE OpenNow # {}
    BY <1>2, MetForCloseStep DEF FindOpen, OpenNow
  <1> QED
    BY <1>1, <1>2

LEMMA FindLatestStep ==
    ASSUME OwnInv, NEW c \in Reporters, FindLatest(c)
    PROVE  OwnStep(c)
  BY RestStep, MetForCloseStep DEF FindLatest

LEMMA UpdateMetStep ==
    ASSUME OwnInv, NEW c \in Reporters, UpdateMet(c)
    PROVE  OwnStep(c)
  <1> DEFINE q == reports[c]
             e == q.event
  <1>1. /\ q.pc = "update" /\ OwnEvent(q, held, given)
        /\ DOMAIN q = {"pc", "allowed", "event", "from", "try"}
    BY DEF UpdateMet, OwnInv, Knows
  <1>2. CASE e \in DOMAIN held /\ held[e].state = q.from
    <2>1. Allows(q, held[e].source) /\ DOMAIN held[e] = {"source", "state", "said"}
      BY <1>1, <1>2 DEF OwnEvent, OwnInv, HeldTyped
    <2> DEFINE row == [held[e] EXCEPT !.state = "resolved"]
    <2>2. row.source = held[e].source /\ DOMAIN row = {"source", "state", "said"}
      BY <2>1
    <2>3. held' = [held EXCEPT ![e] = row] /\ given' = given /\ Becomes(c, Showing(c, held[e].source))
      BY <1>2 DEF UpdateMet
    <2> HIDE DEF row
    <2> QED
      BY <1>2, <2>1, <2>2, <2>3, WriteStep
  <1>3. CASE ~(e \in DOMAIN held /\ held[e].state = q.from)
    <2> DEFINE q2 == [q EXCEPT !.pc = "reread"]
    <2>1. OnlyReport(c, q2)
      BY <1>3 DEF UpdateMet
    <2>2. DOMAIN q2 = DOMAIN q /\ q2.pc = "reread" /\ q2.allowed = q.allowed /\ q2.event = q.event
      BY <1>1
    <2> HIDE DEF q2
    <2>3. Knows(q2, held, given) /\ q2.pc # "answered"
      BY <1>1, <2>2 DEF Knows, Allows, OwnEvent
    <2> QED
      BY <2>1, <2>3, OnlyReportStep
  <1> QED
    BY <1>2, <1>3

LEMMA RereadMetStep ==
    ASSUME OwnInv, NEW c \in Reporters, RereadMet(c)
    PROVE  OwnStep(c)
  <1> DEFINE q == reports[c]
  <1>1. q.pc = "reread" /\ OwnEvent(q, held, given)
    BY DEF RereadMet, OwnInv, Knows
  <1>2. CASE q.event \in DOMAIN held /\ q.try < 3
    <2>1. CloseMet(c, q.event, q.try + 1) /\ Allows(q, held[q.event].source)
      BY <1>1, <1>2 DEF RereadMet, OwnEvent
    <2> QED
      BY <1>2, <2>1, CloseStep
  <1>3. CASE ~(q.event \in DOMAIN held /\ q.try < 3)
    BY <1>3, RestStep DEF RereadMet
  <1> QED
    BY <1>2, <1>3

\* The operators' actions and retention keep the source of every event.
LEMMA OutsideKeeps ==
    ASSUME OwnInv, Operate \/ Expire
    PROVE  HeldKept(held, given, held', given') /\ UNCHANGED reports
  <1>1. HeldTyped(held, given)
    BY DEF OwnInv
  <1>2. ASSUME NEW e \in DOMAIN held, NEW state, held' = [held EXCEPT ![e].state = state], given' = given
        PROVE  HeldKept(held, given, held', given')
    <2> DEFINE row == [held[e] EXCEPT !.state = state]
    <2>1. row.source = held[e].source /\ DOMAIN row = {"source", "state", "said"}
      BY <1>1 DEF HeldTyped
    <2>2. held' = [held EXCEPT ![e] = row]
      BY <1>2
    <2> HIDE DEF row
    <2>3. /\ DOMAIN held' = DOMAIN held /\ held'[e] = row
          /\ \A d \in DOMAIN held : d # e => held'[d] = held[d]
      BY <2>2
    <2> QED
      BY <1>1, <1>2, <2>1, <2>3 DEF HeldTyped, HeldKept
  <1>3. CASE Operate
    BY <1>2, <1>3 DEF Operate
  <1>4. CASE Expire
    BY <1>1, <1>4 DEF Expire, Restrict, HeldTyped, HeldKept
  <1> QED
    BY <1>3, <1>4 DEF Operate, Expire

LEMMA OwnNextStep ==
    ASSUME OwnInv, OwnNext
    PROVE  \/ \E c \in Reporters : OwnStep(c)
           \/ HeldKept(held, given, held', given') /\ UNCHANGED reports
  <1>1. ASSUME NEW c \in Reporters, Answered(c) PROVE OwnStep(c)
    BY <1>1, RestStep DEF Answered
  <1> QED
    BY <1>1, ReportedStep, LookForStep, InsertOwnStep, MeetConflictStep, RefreshMetStep, FindOpenStep,
       FindLatestStep, UpdateMetStep, RereadMetStep, OutsideKeeps DEF OwnNext

LEMMA OwnInvariant == OwnSpec => []OwnInv
  <1>1. OwnInit => OwnInv
    <2> SUFFICES ASSUME OwnInit PROVE OwnInv
      OBVIOUS
    <2>1. HeldTyped(held, given) /\ DOMAIN reports = Reporters /\ \A c \in Reporters : reports[c] = AtRest
      BY DEF OwnInit, HeldTyped
    <2>2. Knows(AtRest, held, given)
      BY DEF Knows, AtRest
    <2> QED
      BY <2>1, <2>2 DEF OwnInv
  <1>2. OwnInv /\ [OwnNext]_ownVars => OwnInv'
    <2> SUFFICES ASSUME OwnInv, [OwnNext]_ownVars PROVE OwnInv'
      OBVIOUS
    <2>1. ASSUME HeldKept(held, given, held', given'), NEW d, d \in Reporters
          PROVE  Knows(reports[d], held', given')
      BY <2>1, KnowledgeLasts DEF OwnInv
    <2>2. CASE UNCHANGED ownVars
      BY <2>2 DEF ownVars, OwnInv, HeldTyped, Knows, OwnEvent
    <2>3. ASSUME NEW c \in Reporters, OwnStep(c) PROVE OwnInv'
      <3>1. PICK q : Knows(q, held', given') /\ Becomes(c, q)
        BY <2>3 DEF OwnStep
      <3>2. HeldKept(held, given, held', given') /\ HeldTyped(held', given')
        BY <2>3 DEF OwnStep, HeldKept
      <3>3. /\ DOMAIN reports' = Reporters /\ reports'[c] = q
            /\ \A d \in Reporters : d # c => reports'[d] = reports[d]
        BY <3>1 DEF Becomes, OwnInv
      <3>4. \A d \in Reporters : Knows(reports'[d], held', given')
        BY <2>1, <3>1, <3>2, <3>3
      <3> QED
        BY <3>2, <3>3, <3>4 DEF OwnInv
    <2>4. CASE HeldKept(held, given, held', given') /\ UNCHANGED reports
      <3>1. \A d \in Reporters : Knows(reports'[d], held', given')
        BY <2>1, <2>4
      <3> QED
        BY <2>4, <3>1 DEF OwnInv, HeldKept
    <2> QED
      BY <2>2, <2>3, <2>4, OwnNextStep
  <1> QED
    BY <1>1, <1>2, PTL DEF OwnSpec

(***************************************************************************)
(* For any reporters, sources and limits, a report under a limited API key *)
(* neither changes nor shows an event of a source that is not its own,     *)
(* although events close, expire and are replaced between its check and    *)
(* its write (IngestFor, checkOwner, resolve).                             *)
(***************************************************************************)
THEOREM LimitedKeysStayHome == OwnSpec => OthersUntouched
  <1> DEFINE P == \A c \in Reporters : reports'[c] # reports[c] => Untouched(c)
  <1>1. OwnInv /\ [OwnNext]_ownVars => [P]_ownVars
    <2> SUFFICES ASSUME OwnInv, OwnNext PROVE P
      OBVIOUS
    <2>1. ASSUME NEW c \in Reporters, OwnStep(c) PROVE P
      <3>1. \A d \in Reporters : d # c => reports'[d] = reports[d]
        BY <2>1 DEF OwnStep, Becomes, OwnInv
      <3> QED
        BY <2>1, <3>1 DEF OwnStep
    <2>2. CASE UNCHANGED reports
      BY <2>2
    <2> HIDE DEF P
    <2> QED
      BY <2>1, <2>2, OwnNextStep
  <1>2. [][P]_ownVars => OthersUntouched
    <2>1. P => \A c \in Reporters :
         reports'[c] # reports[c] /\ reports[c] # AtRest /\ reports[c].pc # "answered"
         /\ reports[c].allowed # NoLimit =>
           /\ \A e \in DOMAIN held' :
                e \notin DOMAIN held \/ held'[e] # held[e]
                => held'[e].source \in reports[c].allowed
           /\ reports'[c].pc = "answered" => reports'[c].shown \in reports[c].allowed
      BY DEF Untouched
    <2> HIDE DEF P
    <2> QED
      BY <2>1, PTL DEF OthersUntouched
  <1> HIDE DEF P
  <1> QED
    BY <1>1, <1>2, OwnInvariant, PTL DEF OwnSpec

(***************************************************************************)
(* The limits on requests.  Between requests the level of a bucket, what   *)
(* it would hold at time 0, does not move; each request let in takes its   *)
(* cost off, and the limit cuts it.  So the level and the times of the     *)
(* requests let in bound each other from both sides (Paid, OnlyPaid), and  *)
(* a bucket that is dropped is full where it refills in time (Recent).     *)
(* Where it does not, the drop raises the level, and what was let in       *)
(* before it no longer counts (Counts).                                    *)
(***************************************************************************)

\* What time refills, what requests cost, and what a bucket holds.
Refill(t) == Rate * t

Price(n) == n * Cost

Full == Price(Burst)

\* What k's bucket would hold at time 0 had it been refilled ever since: the
\* refill leaves it alone, a request let in takes Cost off, the limit cuts it.
\* A client without a bucket is as good as one whose bucket is full now.
Level(k) ==
    IF k \in DOMAIN entries
    THEN buckets[entries[k].bucket].tokens - Refill(buckets[entries[k].bucket].last)
    ELSE Full - Refill(clock)

RateTyped ==
    /\ clock \in Nat /\ lastSweep \in Nat
    /\ buckets \in Seq([tokens : Int, last : Nat])
    /\ DOMAIN entries \subseteq Addresses
    /\ entries \in [DOMAIN entries -> [bucket : DOMAIN buckets, seen : Nat]]
    /\ calls \in [Callers -> {Waiting} \cup [pc : {"find"}, key : Addresses, now : Nat]
                             \cup [pc : {"found"}, key : Addresses, now : Nat, bucket : DOMAIN buckets]]
    /\ served \in [Addresses -> Seq(Nat)]
    /\ dropped \in [Addresses -> Nat]

\* Two addresses never share a bucket.
OwnBuckets == \A k, l \in DOMAIN entries : entries[k].bucket = entries[l].bucket => k = l

\* A request is Lag old at most, and the bucket it found is not swept under it.
InTime(c) ==
    calls[c] # Waiting =>
        /\ calls[c].now <= clock /\ clock <= calls[c].now + Lag
        /\ calls[c].pc = "found" =>
             /\ calls[c].key \in DOMAIN entries
             /\ calls[c].bucket = entries[calls[c].key].bucket
             /\ calls[c].now <= entries[calls[c].key].seen + Lag

\* A bucket is never behind what the time it was seen has refilled.
Recent(k) ==
    /\ Level(k) >= 0 - Refill(clock)
    /\ k \in DOMAIN entries => Level(k) >= 0 - Refill(entries[k].seen + Lag)

\* The stretches from k's i-th request on are bounded.
Counts(k, i) == RefillsInTime \/ i > dropped[k]

\* Every stretch of requests up to now has been paid for.
Paid(k) ==
    \A i \in 1 .. Len(served[k]) :
        Counts(k, i) => Price(Len(served[k]) - i + 1) + Level(k) <= Full - Refill(served[k][i])

\* And only they: since any of them, or since a time at which the bucket was full.
OnlyPaid(k) ==
    \A i \in 0 .. Len(served[k]) :
        \/ i > 0 /\ Level(k) >= 0 - Refill(served[k][i]) - Price(Len(served[k]) - i)
        \/ Level(k) >= Full - Refill(clock) - Price(Len(served[k]) - i)

\* The first half of RateKept.
NoMore(k) ==
    \A i, j \in DOMAIN served[k] :
        i <= j /\ Counts(k, i) => Price(j - i + 1) <= Full + Refill(served[k][j] - served[k][i])

RateInv ==
    /\ RateTyped /\ OwnBuckets
    /\ \A c \in Callers : InTime(c)
    /\ \A k \in Addresses : Recent(k) /\ Paid(k) /\ OnlyPaid(k) /\ NoMore(k)

(********** Arithmetic **********)

LEMMA RateConstants ==
    /\ Burst \in Nat /\ Rate \in Nat /\ Cost \in Nat /\ Lag \in Nat /\ EvictAfter \in Nat
    /\ Burst > 0 /\ Rate > 0 /\ Cost > 0
    /\ RefillsInTime <=> Refill(EvictAfter - Lag) >= Full
    BY RateAssumption DEF RefillsInTime, Full, Refill, Price

LEMMA RefillLinear ==
    ASSUME NEW x \in Int, NEW y \in Int
    PROVE  /\ Refill(x) \in Int
           /\ Refill(x - y) = Refill(x) - Refill(y)
           /\ Refill(x + y) = Refill(x) + Refill(y)
           /\ x <= y => Refill(x) <= Refill(y)
  <1>1. Rate \in Nat
    BY RateConstants
  <1>2. ASSUME x <= y PROVE Rate * x <= Rate * y
    <2>1. y - x \in Nat /\ Rate * (y - x) >= 0
      BY <1>1, <1>2
    <2> QED
      BY <1>1, <2>1
  <1> QED
    BY <1>1, <1>2 DEF Refill

LEMMA RefillType ==
    ASSUME NEW x \in Int
    PROVE  Refill(x) \in Int
    BY RateConstants DEF Refill

LEMMA PriceType ==
    ASSUME NEW x \in Int
    PROVE  /\ Price(x) \in Int
           /\ Price(x + 1) = Price(x) + Cost
           /\ x >= 0 => Price(x) >= 0
    BY RateConstants DEF Price

LEMMA PriceGrows ==
    ASSUME NEW x \in Int, NEW y \in Int, x <= y
    PROVE  Price(x) <= Price(y)
  <1>1. Cost \in Nat
    BY RateConstants
  <1>2. y - x \in Nat /\ (y - x) * Cost >= 0
    BY <1>1
  <1> QED
    BY <1>1, <1>2 DEF Price

LEMMA FullTypes == Full \in Nat /\ Full >= Cost /\ Price(0) = 0 /\ Price(1) = Cost
  <1>1. Burst \in Int /\ Cost \in Nat /\ 1 <= Burst /\ 1 \in Int
    BY RateConstants
  <1>2. Price(1) <= Price(Burst) /\ Price(Burst) \in Int
    BY <1>1, PriceType, PriceGrows
  <1>3. Price(1) = Cost /\ Price(0) = 0
    BY <1>1 DEF Price
  <1> QED
    BY <1>1, <1>2, <1>3 DEF Full

\* No request is on its way to a bucket that is swept.
LEMMA EvictsLate == EvictAfter > Lag + Lag
    BY RateAssumption

(********** One client **********)

LEMMA BucketFound ==
    ASSUME RateTyped, NEW k \in DOMAIN entries
    PROVE  /\ k \in Addresses /\ entries[k] \in [bucket : DOMAIN buckets, seen : Nat]
           /\ entries[k].bucket \in DOMAIN buckets /\ entries[k].seen \in Nat
           /\ buckets[entries[k].bucket].tokens \in Int
           /\ buckets[entries[k].bucket].last \in Nat
  <1>1. entries[k] \in [bucket : DOMAIN buckets, seen : Nat] /\ k \in Addresses
    BY DEF RateTyped
  <1>2. entries[k].bucket \in DOMAIN buckets /\ entries[k].seen \in Nat
    BY <1>1
  <1>3. buckets[entries[k].bucket] \in [tokens : Int, last : Nat]
    <2>1. buckets \in Seq([tokens : Int, last : Nat])
      BY DEF RateTyped
    <2>2. DOMAIN buckets = 1 .. Len(buckets)
      BY <2>1
    <2> QED
      BY <1>2, <2>1, <2>2, ElementOfSeq
  <1> QED
    BY <1>1, <1>2, <1>3

LEMMA LevelType ==
    ASSUME RateTyped, NEW k \in Addresses
    PROVE  Level(k) \in Int
  <1>1. clock \in Int /\ Full \in Int /\ Refill(clock) \in Int
    BY FullTypes, RefillType DEF RateTyped
  <1>2. CASE k \in DOMAIN entries
    <2>1. /\ buckets[entries[k].bucket].tokens \in Int
          /\ Refill(buckets[entries[k].bucket].last) \in Int
      BY <1>2, BucketFound, RefillType
    <2> QED
      BY <1>2, <2>1 DEF Level
  <1>3. CASE k \notin DOMAIN entries
    BY <1>1, <1>3 DEF Level
  <1> QED
    BY <1>2, <1>3

\* What the invariant says of one client, with its level.
LEMMA KeyFacts ==
    ASSUME RateInv, NEW k \in Addresses
    PROVE  /\ served[k] \in Seq(Nat) /\ Len(served[k]) \in Nat
           /\ DOMAIN served[k] = 1 .. Len(served[k])
           /\ \A i \in 1 .. Len(served[k]) : served[k][i] \in Int /\ Refill(served[k][i]) \in Int
           /\ Level(k) \in Int /\ Full \in Nat /\ clock \in Nat /\ Refill(clock) \in Int
           /\ Recent(k) /\ Paid(k) /\ OnlyPaid(k) /\ NoMore(k)
  <1>1. served[k] \in Seq(Nat) /\ Len(served[k]) \in Nat /\ DOMAIN served[k] = 1 .. Len(served[k])
    BY DEF RateInv, RateTyped
  <1>2. \A i \in 1 .. Len(served[k]) : served[k][i] \in Int /\ Refill(served[k][i]) \in Int
    <2>1. \A i \in 1 .. Len(served[k]) : served[k][i] \in Int
      BY <1>1
    <2> QED
      BY <2>1, RefillType
  <1>3. clock \in Nat /\ Refill(clock) \in Int
    <2>1. clock \in Nat /\ clock \in Int
      BY DEF RateInv, RateTyped
    <2> QED
      BY <2>1, RefillType
  <1>4. Level(k) \in Int /\ Full \in Nat
    <2>1. RateTyped
      BY DEF RateInv
    <2> QED
      BY <2>1, LevelType, FullTypes
  <1>5. Recent(k) /\ Paid(k) /\ OnlyPaid(k) /\ NoMore(k)
    BY DEF RateInv
  <1> QED
    BY <1>1, <1>2, <1>3, <1>4, <1>5

\* Nobody is let in: the level stays, or the limit cuts it, or the bucket is
\* dropped, full or not.
LEMMA QuietKey ==
    ASSUME RateInv, NEW k \in Addresses, clock' \in Nat, clock <= clock', served'[k] = served[k],
           Level(k)' \in Int,
           dropped'[k] = dropped[k] \/ dropped'[k] = Len(served[k]),
           Level(k)' = Level(k) \/ Level(k)' >= Full - Refill(clock'),
           Level(k)' <= Level(k) \/ (~RefillsInTime /\ dropped'[k] = Len(served[k]))
    PROVE  /\ Level(k)' >= 0 - Refill(clock')
           /\ Paid(k)' /\ OnlyPaid(k)' /\ NoMore(k)'
  <1> DEFINE L == Level(k)
             M == Level(k)'
             n == Len(served[k])
  <1>1. /\ n \in Nat /\ L \in Int /\ Full \in Nat /\ Refill(clock) \in Int /\ NoMore(k)
        /\ \A i \in 1 .. n : served[k][i] \in Int /\ Refill(served[k][i]) \in Int
    BY KeyFacts
  <1>2. /\ L >= 0 - Refill(clock)
        /\ \A i \in 1 .. n : Counts(k, i) => Price(n - i + 1) + L <= Full - Refill(served[k][i])
        /\ \A i \in 0 .. n :
             \/ i > 0 /\ L >= 0 - Refill(served[k][i]) - Price(n - i)
             \/ L >= Full - Refill(clock) - Price(n - i)
    BY KeyFacts DEF Recent, Paid, OnlyPaid
  <1>3. Refill(clock') \in Int /\ Refill(clock) <= Refill(clock')
    <2>1. clock \in Int /\ clock' \in Int
      BY KeyFacts
    <2> QED
      BY <2>1, RefillLinear
  <1>4. M \in Int /\ (M = L \/ M >= Full - Refill(clock'))
    OBVIOUS
  <1>8. ASSUME NEW i \in 1 .. n, Counts(k, i)' PROVE Counts(k, i) /\ M <= L
    <2>1. n \in Int /\ ~(i > n)
      BY <1>1
    <2>2. CASE RefillsInTime
      BY <2>2 DEF Counts
    <2>3. CASE i > dropped'[k] /\ ~RefillsInTime
      <3>1. dropped'[k] # n
        BY <2>1, <2>3
      <3> QED
        BY <2>3, <3>1 DEF Counts
    <2> QED
      BY <1>8, <2>2, <2>3 DEF Counts, RefillsInTime
  <1> HIDE DEF L, M
  <1>5. M >= 0 - Refill(clock')
    BY <1>1, <1>2, <1>3, <1>4
  <1>6. ASSUME NEW i \in 1 .. n, Counts(k, i)'
        PROVE  Price(n - i + 1) + M <= Full - Refill(served[k][i])
    <2>1. n - i + 1 \in Int
      BY <1>1
    <2>2. Price(n - i + 1) \in Int
      BY <2>1, PriceType
    <2>3. Price(n - i + 1) + L <= Full - Refill(served[k][i]) /\ Refill(served[k][i]) \in Int
      BY <1>1, <1>2, <1>6, <1>8
    <2>4. L \in Int /\ M \in Int /\ M <= L /\ Full \in Int
      BY <1>1, <1>4, <1>6, <1>8
    <2> HIDE DEF n
    <2> QED
      BY <2>2, <2>3, <2>4
  <1>7. ASSUME NEW i \in 0 .. n
        PROVE  \/ i > 0 /\ M >= 0 - Refill(served[k][i]) - Price(n - i)
               \/ M >= Full - Refill(clock') - Price(n - i)
    <2>1. Price(n - i) \in Int /\ Price(n - i) >= 0
      <3>1. n - i \in Int /\ n - i >= 0
        BY <1>1
      <3> QED
        BY <3>1, PriceType
    <2>2. CASE i > 0 /\ L >= 0 - Refill(served[k][i]) - Price(n - i)
      <3>1. Refill(served[k][i]) \in Int
        BY <1>1, <2>2
      <3>2. CASE M = L
        BY <2>2, <3>2
      <3>3. CASE M >= Full - Refill(clock')
        <4>1. Full \in Nat /\ Refill(clock') \in Int
          BY <1>1, <1>3
        <4> HIDE DEF n
        <4> QED
          BY <1>4, <2>1, <3>3, <4>1
      <3> QED
        BY <1>4, <3>2, <3>3
    <2>3. CASE L >= Full - Refill(clock) - Price(n - i)
      <3> HIDE DEF n
      <3> QED
        BY <1>1, <1>3, <1>4, <2>1, <2>3
    <2> QED
      BY <1>2, <2>2, <2>3
  <1> USE DEF L, M
  <1>9. NoMore(k)'
    <2> SUFFICES ASSUME NEW i \in DOMAIN served[k], NEW j \in DOMAIN served[k], i <= j, Counts(k, i)'
                 PROVE  Price(j - i + 1) <= Full + Refill(served[k][j] - served[k][i])
      BY DEF NoMore
    <2>1. Counts(k, i)
      BY <1>8, KeyFacts
    <2> QED
      BY <1>1, <2>1 DEF NoMore
  <1> QED
    BY <1>1, <1>5, <1>6, <1>7, <1>9 DEF Paid, OnlyPaid

\* One more request is paid for.
LEMMA LevelFalls ==
    ASSUME NEW level \in Int, NEW spent \in Int, NEW paid \in Int, NEW price \in Int,
           level >= 0 - spent - paid
    PROVE  level - price \in Int /\ level - price >= 0 - spent - (paid + price)
    OBVIOUS

\* A request is let in at time now: the level falls by its cost, below the limit.
LEMMA ServedKey ==
    ASSUME RateInv, NEW k \in Addresses, clock' = clock, NEW now \in Nat, now <= clock,
           served'[k] = Append(served[k], now), dropped'[k] = dropped[k], Level(k)' \in Int,
           Level(k)' >= 0 - Refill(now), Level(k)' <= Full - Refill(now) - Cost,
           Level(k)' <= Level(k) - Cost,
           Level(k)' = Level(k) - Cost \/ Level(k)' = Full - Refill(now) - Cost
    PROVE  /\ Level(k)' >= 0 - Refill(clock')
           /\ Paid(k)' /\ OnlyPaid(k)' /\ NoMore(k)'
  <1> DEFINE L == Level(k)
             M == Level(k)'
             n == Len(served[k])
             s == served[k]
             t == served'[k]
  <1>1. /\ n \in Nat /\ L \in Int /\ Full \in Nat /\ Refill(clock) \in Int /\ NoMore(k)
        /\ \A i \in 1 .. n : s[i] \in Int /\ Refill(s[i]) \in Int
    BY KeyFacts
  <1>2. /\ \A i \in 1 .. n : Counts(k, i) => Price(n - i + 1) + L <= Full - Refill(s[i])
        /\ \A i \in 0 .. n :
             \/ i > 0 /\ L >= 0 - Refill(s[i]) - Price(n - i)
             \/ L >= Full - Refill(clock) - Price(n - i)
    BY KeyFacts DEF Paid, OnlyPaid
  <1>3. /\ DOMAIN t = 1 .. n + 1 /\ Len(t) = n + 1 /\ t[n + 1] = now /\ DOMAIN s = 1 .. n
        /\ \A i \in 1 .. n : t[i] = s[i]
    BY KeyFacts
  <1>4. /\ now \in Int /\ Refill(now) \in Int /\ Refill(now) <= Refill(clock) /\ Cost \in Nat
    <2>1. now \in Int /\ clock \in Int
      BY KeyFacts
    <2> QED
      BY <2>1, RefillLinear, RateConstants
  <1>5. /\ M \in Int /\ M >= 0 - Refill(now) /\ M <= Full - Refill(now) - Cost /\ M <= L - Cost
        /\ M = L - Cost \/ M = Full - Refill(now) - Cost
    OBVIOUS
  <1>10. \A i : Counts(k, i)' <=> Counts(k, i)
    BY DEF Counts, RefillsInTime
  <1> HIDE DEF L, M, s, t
  <1>6. M >= 0 - Refill(clock)
    BY <1>1, <1>4, <1>5
  <1>7. ASSUME NEW i \in 1 .. n + 1, Counts(k, i)
        PROVE  Price(n + 1 - i + 1) + M <= Full - Refill(t[i])
    <2>1. CASE i = n + 1
      <3>1. Price(n + 1 - i + 1) = Cost
        BY <1>1, <2>1, FullTypes
      <3> QED
        BY <1>1, <1>3, <1>4, <1>5, <2>1, <3>1
    <2>2. CASE i \in 1 .. n
      <3>1. n - i + 1 \in Int /\ (n - i + 1) + 1 = n + 1 - i + 1
        BY <1>1, <2>2
      <3>2. Price(n + 1 - i + 1) = Price(n - i + 1) + Cost /\ Price(n - i + 1) \in Int
        BY <3>1, PriceType
      <3>3. Price(n - i + 1) + L <= Full - Refill(s[i]) /\ t[i] = s[i] /\ Refill(s[i]) \in Int
        BY <1>1, <1>2, <1>3, <1>7, <2>2
      <3>4. L \in Int /\ Full \in Nat /\ Cost \in Nat /\ M \in Int /\ M <= L - Cost
        BY <1>1, <1>4, <1>5
      <3> HIDE DEF n
      <3> QED
        BY <3>2, <3>3, <3>4
    <2> QED
      BY <1>1, <2>1, <2>2
  <1>8. ASSUME NEW i \in 0 .. n + 1
        PROVE  \/ i > 0 /\ M >= 0 - Refill(t[i]) - Price(n + 1 - i)
               \/ M >= Full - Refill(clock) - Price(n + 1 - i)
    <2>1. CASE i = n + 1
      <3>1. Price(n + 1 - i) = 0
        BY <1>1, <2>1, FullTypes
      <3>2. i > 0 /\ t[i] = now /\ Refill(now) \in Int /\ M \in Int /\ M >= 0 - Refill(now)
        BY <1>1, <1>3, <1>4, <1>5, <2>1
      <3> HIDE DEF n
      <3> QED
        BY <3>1, <3>2
    <2>2. CASE i \in 0 .. n
      <3>1. n - i \in Int /\ (n - i) + 1 = n + 1 - i /\ n - i >= 0
        BY <1>1, <2>2
      <3>2. Price(n + 1 - i) = Price(n - i) + Cost /\ Price(n - i) \in Int /\ Price(n - i) >= 0
        BY <3>1, PriceType
      <3>3. i > 0 => t[i] = s[i] /\ Refill(s[i]) \in Int
        BY <1>1, <1>3, <2>2
      <3>4. CASE M = Full - Refill(now) - Cost
        BY <1>1, <1>4, <3>2, <3>4
      <3>5. CASE M = L - Cost
        <4>1. \/ i > 0 /\ L >= 0 - Refill(s[i]) - Price(n - i)
              \/ L >= Full - Refill(clock) - Price(n - i)
          BY <1>2, <2>2
        <4>2. L \in Int /\ Full \in Nat /\ Refill(clock) \in Int /\ Cost \in Nat
          BY <1>1, <1>4
        <4> HIDE DEF n
        <4>3. CASE i > 0 /\ L >= 0 - Refill(s[i]) - Price(n - i)
          <5>1. t[i] = s[i] /\ Refill(s[i]) \in Int
            BY <3>3, <4>3
          <5>2. Refill(t[i]) = Refill(s[i])
            BY <5>1
          <5>3. M \in Int /\ M >= 0 - Refill(s[i]) - Price(n + 1 - i)
            BY <3>2, <3>5, <4>2, <4>3, <5>1, LevelFalls
          <5> QED
            BY <4>3, <5>2, <5>3
        <4>4. CASE L >= Full - Refill(clock) - Price(n - i)
          BY <3>2, <3>5, <4>2, <4>4
        <4> QED
          BY <4>1, <4>3, <4>4
      <3> QED
        BY <1>5, <3>4, <3>5
    <2> QED
      BY <1>1, <2>1, <2>2
  <1>9. ASSUME NEW i \in DOMAIN t, NEW j \in DOMAIN t, i <= j, Counts(k, i)
        PROVE  Price(j - i + 1) <= Full + Refill(t[j] - t[i])
    <2>1. CASE j = n + 1
      <3>1. i \in 1 .. n + 1 /\ t[i] \in Int /\ Refill(t[i]) \in Int
        <4>1. i \in 1 .. n + 1
          BY <1>3
        <4>2. CASE i = n + 1
          BY <1>3, <1>4, <4>1, <4>2
        <4>3. CASE i \in 1 .. n
          BY <1>1, <1>3, <4>1, <4>3
        <4> QED
          BY <1>1, <4>1, <4>2, <4>3
      <3>2. Price(n + 1 - i + 1) + M <= Full - Refill(t[i])
        BY <1>7, <1>9, <3>1
      <3>3. Refill(t[j] - t[i]) = Refill(now) - Refill(t[i])
        BY <1>3, <1>4, <2>1, <3>1, RefillLinear
      <3>4. Price(n + 1 - i + 1) \in Int
        <4>1. n + 1 - i + 1 \in Int
          BY <1>1, <3>1
        <4> QED
          BY <4>1, PriceType
      <3>5. Price(j - i + 1) = Price(n + 1 - i + 1)
        BY <1>1, <2>1, <3>1
      <3>6. Full \in Nat /\ Refill(now) \in Int /\ M \in Int /\ M >= 0 - Refill(now)
        BY <1>1, <1>4, <1>5
      <3>7. Refill(t[i]) \in Int
        BY <3>1, RefillType
      <3>8. Price(j - i + 1) <= Full - Refill(t[i]) - M
        <4> HIDE DEF n
        <4> QED
          BY <3>2, <3>4, <3>5, <3>6, <3>7
      <3>9. Price(j - i + 1) \in Int
        BY <3>4, <3>5
      <3> HIDE DEF n
      <3> QED
        BY <3>3, <3>6, <3>7, <3>8, <3>9
    <2>2. CASE j \in 1 .. n
      <3>1. i \in 1 .. n /\ t[i] = s[i] /\ t[j] = s[j]
        BY <1>1, <1>3, <1>9, <2>2
      <3> QED
        BY <1>1, <1>3, <1>9, <2>2, <3>1 DEF NoMore, s
    <2> QED
      BY <1>1, <1>3, <2>1, <2>2
  <1> USE DEF L, M, s, t
  <1> QED
    <2>1. Level(k)' >= 0 - Refill(clock')
      BY <1>6
    <2>2. Paid(k)'
      BY <1>3, <1>7, <1>10 DEF Paid
    <2>3. OnlyPaid(k)'
      BY <1>3, <1>8 DEF OnlyPaid
    <2>4. NoMore(k)'
      BY <1>9, <1>10 DEF NoMore
    <2> QED
      BY <2>1, <2>2, <2>3, <2>4

(********** Steps **********)

\* What the bucket of k holds at the time now.
LEMMA RefilledLevel ==
    ASSUME RateTyped, NEW k \in DOMAIN entries, NEW now \in Nat
    PROVE  LET tokens == Refilled(buckets[entries[k].bucket], now)
           IN /\ tokens \in Int /\ tokens <= Full /\ tokens <= Level(k) + Refill(now)
              /\ tokens = Full \/ tokens = Level(k) + Refill(now)
  <1> DEFINE b == buckets[entries[k].bucket]
             x == b.tokens + (now - b.last) * Rate
  <1>1. /\ b.tokens \in Int /\ b.last \in Int /\ now \in Int /\ Rate \in Int /\ Full \in Int
        /\ Refill(b.last) \in Int /\ Refill(now) \in Int /\ Refill(now - b.last) = Refill(now) - Refill(b.last)
    <2>1. b.tokens \in Int /\ b.last \in Int /\ now \in Int /\ Rate \in Int /\ Full \in Int
      BY BucketFound, FullTypes, RateConstants
    <2> HIDE DEF b
    <2> QED
      BY <2>1, RefillLinear
  <1>2. (now - b.last) * Rate = Refill(now - b.last)
    BY <1>1 DEF Refill
  <1>3. Level(k) = b.tokens - Refill(b.last)
    BY DEF Level
  <1>4. x \in Int /\ x = Level(k) + Refill(now) /\ Level(k) \in Int
    BY <1>1, <1>2, <1>3
  <1>5. Refilled(b, now) = IF x > Full THEN Full ELSE x
    BY DEF Refilled, Full, Price
  <1> HIDE DEF x
  <1> QED
    BY <1>1, <1>4, <1>5

\* The level of a client whose entry, bucket and clock stay.
LEMMA LevelKept ==
    ASSUME RateTyped, NEW x, x \in DOMAIN entries <=> x \in DOMAIN entries',
           x \in DOMAIN entries =>
               /\ entries'[x].bucket = entries[x].bucket
               /\ buckets'[entries[x].bucket] = buckets[entries[x].bucket],
           x \notin DOMAIN entries => clock' = clock
    PROVE  Level(x)' = Level(x)
    BY DEF Level

LEMMA CallTypes ==
    ASSUME RateInv, NEW c \in Callers, calls[c] # Waiting
    PROVE  /\ calls[c].key \in Addresses /\ calls[c].now \in Nat
           /\ calls[c].now <= clock /\ clock <= calls[c].now + Lag
           /\ calls[c].pc \in {"find", "found"}
           /\ calls[c].pc = "found" =>
                /\ calls[c].key \in DOMAIN entries
                /\ calls[c].bucket = entries[calls[c].key].bucket
                /\ calls[c].bucket \in DOMAIN buckets
                /\ calls[c].now <= entries[calls[c].key].seen + Lag
  <1>1. calls[c] \in [pc : {"find"}, key : Addresses, now : Nat]
                    \cup [pc : {"found"}, key : Addresses, now : Nat, bucket : DOMAIN buckets]
    BY DEF RateInv, RateTyped
  <1>2. InTime(c)
    BY DEF RateInv
  <1>3. CASE calls[c] \in [pc : {"find"}, key : Addresses, now : Nat]
    <2>1. calls[c].pc = "find" /\ calls[c].key \in Addresses /\ calls[c].now \in Nat
      BY <1>3
    <2> QED
      BY <1>2, <2>1 DEF InTime
  <1>4. CASE calls[c] \in [pc : {"found"}, key : Addresses, now : Nat, bucket : DOMAIN buckets]
    <2>1. /\ calls[c].pc = "found" /\ calls[c].key \in Addresses /\ calls[c].now \in Nat
          /\ calls[c].bucket \in DOMAIN buckets
      BY <1>4
    <2> QED
      BY <1>2, <2>1 DEF InTime
  <1> QED
    BY <1>1, <1>3, <1>4

LEMMA NotWaiting ==
    ASSUME NEW c, calls[c].pc \in {"find", "found"}
    PROVE  calls[c] # Waiting
    BY DEF Waiting

LEMMA AllowKeeps ==
    ASSUME RateInv, NEW c \in Callers, Allow(c)
    PROVE  RateInv'
  <1>0. PICK k, now, b : k = calls[c].key /\ now = calls[c].now /\ b = calls[c].bucket
    OBVIOUS
  <1> DEFINE tokens == Refilled(buckets[b], now)
  <1>1. /\ k \in DOMAIN entries /\ now \in Nat /\ now <= clock /\ b = entries[k].bucket
        /\ now <= entries[k].seen + Lag /\ k \in Addresses /\ b \in DOMAIN buckets
    BY <1>0, CallTypes, NotWaiting DEF Allow
  <1>2. /\ tokens \in Int /\ tokens <= Full /\ tokens <= Level(k) + Refill(now)
        /\ tokens = Full \/ tokens = Level(k) + Refill(now)
    BY <1>1, RefilledLevel DEF RateInv
  <1>3. /\ Level(k) \in Int /\ Refill(now) \in Int /\ Full \in Nat /\ Full >= Cost /\ Cost \in Nat
        /\ clock \in Nat /\ served[k] \in Seq(Nat)
    <2>1. Refill(now) \in Int
      BY <1>1, RefillType
    <2> QED
      BY <1>1, <2>1, KeyFacts, FullTypes, RateConstants
  <1> DEFINE left == IF tokens >= Cost THEN tokens - Cost ELSE tokens
  <1>4. left \in Int
    BY <1>2, <1>3
  <1>5. buckets' = [buckets EXCEPT ![b] = [tokens |-> left, last |-> now]]
    <2>1. CASE tokens >= Cost
      <3>1. left = tokens - Cost
        BY <2>1
      <3>2. ~(tokens < Cost)
        BY <1>2, <1>3, <2>1
      <3> HIDE DEF left, tokens
      <3> QED
        BY <1>0, <3>1, <3>2 DEF Allow, tokens
    <2>2. CASE ~(tokens >= Cost)
      BY <1>0, <2>2 DEF Allow
    <2> QED
      BY <2>1, <2>2
  <1>6. /\ UNCHANGED <<clock, entries, lastSweep, dropped>> /\ Call(c, Waiting)
    BY DEF Allow
  <1> HIDE DEF left
  <1>7. /\ buckets' \in Seq([tokens : Int, last : Nat]) /\ DOMAIN buckets' = DOMAIN buckets
        /\ buckets'[b].tokens = left /\ buckets'[b].last = now
        /\ \A d \in DOMAIN buckets \ {b} : buckets'[d] = buckets[d]
    <2> DEFINE new == [tokens |-> left, last |-> now]
    <2>1. new \in [tokens : Int, last : Nat] /\ new.tokens = left /\ new.last = now
      BY <1>1, <1>4
    <2>2. buckets' = [buckets EXCEPT ![b] = new] /\ buckets \in Seq([tokens : Int, last : Nat])
      BY <1>5 DEF RateInv, RateTyped
    <2> HIDE DEF new
    <2> QED
      BY <1>1, <2>1, <2>2
  <1>8. /\ calls' \in [Callers -> {Waiting} \cup [pc : {"find"}, key : Addresses, now : Nat]
                           \cup [pc : {"found"}, key : Addresses, now : Nat, bucket : DOMAIN buckets]]
        /\ calls'[c] = Waiting /\ \A d \in Callers \ {c} : calls'[d] = calls[d]
    BY <1>6 DEF Call, RateInv, RateTyped
  <1>9. \A x \in Addresses \ {k} : Level(x)' = Level(x) /\ Level(x) \in Int
    <2> SUFFICES ASSUME NEW x \in Addresses \ {k} PROVE Level(x)' = Level(x) /\ Level(x) \in Int
      OBVIOUS
    <2>1. x \in DOMAIN entries => entries[x].bucket \in DOMAIN buckets \ {b}
      BY <1>1, BucketFound DEF RateInv, OwnBuckets
    <2> QED
      BY <1>6, <1>7, <2>1, LevelKept, KeyFacts DEF RateInv
  <1>10. Level(k)' = left - Refill(now)
    BY <1>1, <1>6, <1>7 DEF Level
  <1>11. /\ served' \in [Addresses -> Seq(Nat)]
         /\ \A x \in Addresses \ {k} : served'[x] = served[x]
         /\ served'[k] = IF tokens >= Cost THEN Append(served[k], now) ELSE served[k]
    <2>1. CASE tokens >= Cost
      <3>1. served' = [served EXCEPT ![k] = Append(served[k], now)]
        BY <1>0, <1>2, <1>3, <2>1 DEF Allow
      <3>2. Append(served[k], now) \in Seq(Nat)
        BY <1>1, <1>3
      <3> QED
        BY <1>1, <2>1, <3>1, <3>2 DEF RateInv, RateTyped
    <2>2. CASE ~(tokens >= Cost)
      BY <1>0, <2>2 DEF Allow, RateInv, RateTyped
    <2> QED
      BY <2>1, <2>2
  <1> HIDE DEF tokens
  <1>12. RateTyped'
    BY <1>6, <1>7, <1>8, <1>11 DEF RateInv, RateTyped
  <1>13. OwnBuckets'
    BY <1>6 DEF RateInv, OwnBuckets
  <1>14. ASSUME NEW d \in Callers PROVE InTime(d)'
    BY <1>6, <1>8 DEF RateInv, InTime
  <1>15. ASSUME NEW x \in Addresses
         PROVE  Recent(x)' /\ Paid(x)' /\ OnlyPaid(x)' /\ NoMore(x)'
    <2>1. CASE x # k
      <3>1. Level(x)' >= 0 - Refill(clock') /\ Paid(x)' /\ OnlyPaid(x)' /\ NoMore(x)'
        BY <1>3, <1>6, <1>9, <1>11, <2>1, QuietKey
      <3>2. Recent(x)
        BY KeyFacts
      <3> QED
        BY <1>6, <1>9, <2>1, <3>1, <3>2 DEF Recent
    <2>2. CASE x = k /\ tokens >= Cost
      <3>1. left = tokens - Cost
        BY <2>2 DEF left
      <3>2. /\ Level(k)' \in Int /\ Level(k)' >= 0 - Refill(now) /\ Level(k)' <= Full - Refill(now) - Cost
            /\ Level(k)' <= Level(k) - Cost
            /\ Level(k)' = Level(k) - Cost \/ Level(k)' = Full - Refill(now) - Cost
        BY <1>2, <1>3, <1>10, <2>2, <3>1
      <3>3. served'[k] = Append(served[k], now)
        BY <1>11, <2>2
      <3>4. Level(k)' >= 0 - Refill(clock') /\ Paid(k)' /\ OnlyPaid(k)' /\ NoMore(k)'
        BY <1>1, <1>6, <3>2, <3>3, ServedKey
      <3>5. entries[k].seen + Lag \in Int /\ Refill(now) <= Refill(entries[k].seen + Lag)
            /\ Refill(entries[k].seen + Lag) \in Int
        <4>1. entries[k].seen + Lag \in Int /\ now \in Int
          BY <1>1, BucketFound, RateConstants DEF RateInv
        <4> QED
          BY <1>1, <4>1, RefillLinear
      <3> QED
        BY <1>3, <1>6, <2>2, <3>2, <3>4, <3>5 DEF Recent
    <2>3. CASE x = k /\ ~(tokens >= Cost)
      <3>1. left = tokens /\ served'[k] = served[k]
        BY <1>11, <2>3 DEF left
      <3>2. Level(k)' = Level(k)
        BY <1>2, <1>3, <1>10, <2>3, <3>1
      <3>3. Level(k)' >= 0 - Refill(clock') /\ Paid(k)' /\ OnlyPaid(k)' /\ NoMore(k)'
        BY <1>1, <1>3, <1>6, <3>1, <3>2, QuietKey
      <3>4. Recent(k)
        BY <1>1, KeyFacts
      <3> QED
        BY <1>6, <2>3, <3>2, <3>3, <3>4 DEF Recent
    <2> QED
      BY <2>1, <2>2, <2>3
  <1> QED
    BY <1>12, <1>13, <1>14, <1>15 DEF RateInv

LEMMA ReadClockKeeps ==
    ASSUME RateInv, NEW c \in Callers, NEW k \in Addresses, ReadClock(c, k)
    PROVE  RateInv'
  <1> DEFINE call == [pc |-> "find", key |-> k, now |-> clock]
  <1>1. UNCHANGED <<clock, buckets, entries, lastSweep, served, dropped>> /\ clock \in Nat /\ Lag \in Nat
    BY RateConstants DEF ReadClock, RateInv, RateTyped
  <1>2. /\ call \in [pc : {"find"}, key : Addresses, now : Nat]
        /\ call.now = clock /\ call.pc = "find"
    BY <1>1
  <1>3. calls' = [calls EXCEPT ![c] = call]
    BY DEF ReadClock, Call
  <1> HIDE DEF call
  <1>4. RateTyped'
    BY <1>1, <1>2, <1>3 DEF RateInv, RateTyped
  <1>5. ASSUME NEW d \in Callers PROVE InTime(d)'
    <2>1. CASE d = c
      BY <1>1, <1>2, <1>3, <2>1 DEF InTime, RateInv, RateTyped
    <2>2. CASE d # c
      BY <1>1, <1>3, <2>2 DEF InTime, RateInv, RateTyped
    <2> QED
      BY <2>1, <2>2
  <1>6. ASSUME NEW x \in Addresses
        PROVE  Recent(x)' /\ Paid(x)' /\ OnlyPaid(x)' /\ NoMore(x)'
    <2>1. Level(x)' = Level(x)
      BY <1>1 DEF Level
    <2> QED
      BY <1>1, <2>1 DEF RateInv, Recent, Paid, OnlyPaid, NoMore, Counts, RefillsInTime
  <1> QED
    BY <1>1, <1>4, <1>5, <1>6 DEF RateInv, OwnBuckets

LEMMA ClockTickKeeps ==
    ASSUME RateInv, ClockTick
    PROVE  RateInv'
  <1>1. /\ UNCHANGED <<buckets, entries, lastSweep, calls, served, dropped>>
        /\ clock \in Nat /\ clock' = clock + 1 /\ clock' \in Nat /\ clock <= clock' /\ Lag \in Nat
    BY RateConstants DEF ClockTick, RateInv, RateTyped
  <1>2. RateTyped'
    BY <1>1 DEF RateInv, RateTyped
  <1>3. ASSUME NEW c \in Callers PROVE InTime(c)'
    <2>1. CASE calls[c] = Waiting
      BY <1>1, <2>1 DEF InTime
    <2>2. CASE calls[c] # Waiting
      <3>1. calls[c].now \in Nat /\ calls[c].now <= clock
        BY <2>2, CallTypes
      <3>2. clock - calls[c].now < Lag
        BY <2>2 DEF ClockTick
      <3> QED
        BY <1>1, <3>1, <3>2 DEF InTime, RateInv
    <2> QED
      BY <2>1, <2>2
  <1>4. Refill(clock) <= Refill(clock') /\ Refill(clock) \in Int /\ Refill(clock') \in Int /\ Full \in Nat
    <2>1. clock \in Int /\ clock' \in Int
      BY <1>1
    <2> QED
      BY <1>1, <2>1, RefillLinear, FullTypes
  <1>5. ASSUME NEW x \in Addresses
        PROVE  Recent(x)' /\ Paid(x)' /\ OnlyPaid(x)' /\ NoMore(x)'
    <2>1. Level(x) \in Int /\ Recent(x)
      BY KeyFacts
    <2>2. CASE x \in DOMAIN entries
      <3>1. Level(x)' = Level(x)
        BY <1>1, <2>2 DEF Level
      <3> QED
        BY <1>1, <2>1, <2>2, <3>1, QuietKey DEF Recent
    <2>3. CASE x \notin DOMAIN entries
      <3>1. Level(x) = Full - Refill(clock) /\ Level(x)' = Full - Refill(clock')
        BY <1>1, <2>3 DEF Level
      <3>2. Level(x)' \in Int /\ Level(x)' <= Level(x) /\ Level(x)' >= Full - Refill(clock')
        BY <1>4, <3>1
      <3> QED
        BY <1>1, <2>3, <3>2, QuietKey DEF Recent
    <2> QED
      BY <2>2, <2>3
  <1> QED
    BY <1>1, <1>2, <1>3, <1>5 DEF RateInv, OwnBuckets

\* What finding a bucket does to the table and to the buckets.
LEMMA FindEffect ==
    ASSUME RateInv, NEW c \in Callers, Find(c), NEW k, k = calls[c].key, NEW now, now = calls[c].now
    PROVE  /\ k \in Addresses /\ now \in Nat /\ now <= clock /\ clock <= now + Lag /\ clock \in Nat
           /\ UNCHANGED <<clock, served>> /\ lastSweep' \in Nat
           /\ k \in DOMAIN entries' /\ DOMAIN entries' \subseteq DOMAIN entries \cup {k}
           /\ \A x \in DOMAIN entries' \ {k} : entries'[x] = entries[x]
           /\ \A x \in DOMAIN entries \ DOMAIN entries' : now - entries[x].seen > EvictAfter
           /\ entries' = [x \in DOMAIN entries' |-> entries'[x]]
           /\ dropped' = [x \in Addresses |-> IF x \in DOMAIN entries \ DOMAIN entries'
                                              THEN Len(served[x]) ELSE dropped[x]]
           /\ entries'[k] = [bucket |-> IF k \in DOMAIN entries THEN entries[k].bucket ELSE Len(buckets) + 1,
                             seen |-> now]
           /\ calls' = [calls EXCEPT ![c] =
                          [pc |-> "found", key |-> k, now |-> now, bucket |-> entries'[k].bucket]]
           /\ buckets' = IF k \in DOMAIN entries THEN buckets
                         ELSE Append(buckets, [tokens |-> Full, last |-> clock])
  <1> DEFINE fresh == Len(buckets) + 1
             table == Seen(k, now, fresh)
             row == [bucket |-> IF k \in DOMAIN entries THEN entries[k].bucket ELSE fresh, seen |-> now]
  <1>1. k \in Addresses /\ now \in Nat /\ now <= clock /\ clock <= now + Lag /\ clock \in Nat
    <2>1. calls[c].pc = "find"
      BY DEF Find
    <2>2. calls[c] # Waiting /\ clock \in Nat
      BY <2>1, NotWaiting DEF RateInv, RateTyped
    <2> QED
      BY <2>2, CallTypes
  <1>2. UNCHANGED <<clock, served>> /\ lastSweep' \in Nat
    BY <1>1 DEF Find, RateInv, RateTyped
  <1>3. /\ table = [x \in DOMAIN entries \cup {k} |-> IF x # k THEN entries[x] ELSE row]
        /\ row.bucket = IF k \in DOMAIN entries THEN entries[k].bucket ELSE fresh
        /\ row.seen = now
    BY DEF Seen
  <1>4. /\ entries' = Swept(table, now)
        /\ calls' = [calls EXCEPT ![c] =
                         [pc |-> "found", key |-> k, now |-> now, bucket |-> table[k].bucket]]
        /\ buckets' = IF k \in DOMAIN entries THEN buckets ELSE Append(buckets, NewTokenBucket(clock))
    BY DEF Find, Call
  <1> HIDE DEF row, table
  <1>5. DOMAIN table = DOMAIN entries \cup {k} /\ table[k] = row /\ \A x \in DOMAIN entries \ {k} : table[x] = entries[x]
    BY <1>3
  <1>6. /\ k \in DOMAIN entries' /\ DOMAIN entries' \subseteq DOMAIN table
        /\ \A x \in DOMAIN entries' : entries'[x] = table[x]
        /\ \A x \in DOMAIN table \ DOMAIN entries' : ~(now - table[x].seen <= EvictAfter)
        /\ entries' = [x \in DOMAIN entries' |-> entries'[x]]
    <2>1. CASE now - lastSweep > SweepEvery
      <3> DEFINE stay == {x \in DOMAIN table : now - table[x].seen <= EvictAfter}
      <3>1. entries' = [x \in stay |-> table[x]]
        BY <1>4, <2>1 DEF Swept, Restrict
      <3>2. k \in stay
        BY <1>1, <1>3, <1>5, RateConstants
      <3> QED
        BY <3>1, <3>2
    <2>2. CASE ~(now - lastSweep > SweepEvery)
      <3>1. entries' = table
        BY <1>4, <2>2 DEF Swept
      <3> QED
        BY <1>3, <1>5, <3>1
    <2> QED
      BY <2>1, <2>2
  <1>7. \A x \in DOMAIN entries \ DOMAIN entries' : now - entries[x].seen > EvictAfter
    <2> SUFFICES ASSUME NEW x \in DOMAIN entries \ DOMAIN entries'
                 PROVE  now - entries[x].seen > EvictAfter
      OBVIOUS
    <2>1. x # k /\ table[x] = entries[x] /\ x \in DOMAIN table
      BY <1>5, <1>6
    <2>2. entries[x].seen \in Nat
      BY BucketFound DEF RateInv
    <2> QED
      BY <1>1, <1>6, <2>1, <2>2, RateConstants
  <1>8. NewTokenBucket(clock) = [tokens |-> Full, last |-> clock]
    BY DEF NewTokenBucket, Full, Price
  <1>9. dropped' = [x \in Addresses |-> IF x \in DOMAIN entries \ DOMAIN entries'
                                        THEN Len(served[x]) ELSE dropped[x]]
    BY DEF Find
  <1> QED
    BY <1>1, <1>2, <1>4, <1>5, <1>6, <1>7, <1>8, <1>9 DEF row

\* An entry that is swept belongs to a client whose bucket is full again, where
\* buckets refill in time.
LEMMA SweptIsFull ==
    ASSUME RateInv, NEW x \in DOMAIN entries, NEW now \in Nat, now <= clock,
           now - entries[x].seen > EvictAfter, RefillsInTime
    PROVE  Level(x) >= Full - Refill(clock)
  <1>1. /\ x \in Addresses /\ entries[x].seen \in Nat /\ clock \in Nat /\ Lag \in Nat /\ EvictAfter \in Nat
        /\ Full \in Nat /\ Refill(EvictAfter - Lag) >= Full
    BY BucketFound, RateConstants, FullTypes DEF RateInv, RateTyped
  <1> DEFINE early == entries[x].seen + Lag
             since == EvictAfter - Lag
  <1>2. early \in Int /\ since \in Int /\ clock \in Int /\ clock - since \in Int /\ early <= clock - since
    BY <1>1
  <1>3. Level(x) >= 0 - Refill(early) /\ Level(x) \in Int
    BY <1>1, KeyFacts DEF Recent
  <1> HIDE DEF early, since
  <1>4. Refill(early) <= Refill(clock - since) /\ Refill(clock - since) = Refill(clock) - Refill(since)
    BY <1>2, RefillLinear
  <1>5. Refill(early) \in Int /\ Refill(clock) \in Int /\ Refill(since) \in Int
    BY <1>2, RefillType
  <1>6. Refill(since) >= Full
    BY <1>1 DEF since
  <1> QED
    BY <1>1, <1>3, <1>4, <1>5, <1>6

LEMMA FindKeeps ==
    ASSUME RateInv, NEW c \in Callers, Find(c)
    PROVE  RateInv'
  <1>0. PICK k, now : k = calls[c].key /\ now = calls[c].now
    OBVIOUS
  <1> DEFINE known == k \in DOMAIN entries
             full == [tokens |-> Full, last |-> clock]
             row == [bucket |-> IF known THEN entries[k].bucket ELSE Len(buckets) + 1, seen |-> now]
  <1>1. /\ k \in Addresses /\ now \in Nat /\ now <= clock /\ clock <= now + Lag /\ clock \in Nat
        /\ UNCHANGED <<clock, served>> /\ lastSweep' \in Nat
        /\ k \in DOMAIN entries' /\ DOMAIN entries' \subseteq DOMAIN entries \cup {k}
        /\ \A x \in DOMAIN entries' \ {k} : entries'[x] = entries[x]
        /\ \A x \in DOMAIN entries \ DOMAIN entries' : now - entries[x].seen > EvictAfter
        /\ entries' = [x \in DOMAIN entries' |-> entries'[x]]
        /\ dropped' = [x \in Addresses |-> IF x \in DOMAIN entries \ DOMAIN entries'
                                           THEN Len(served[x]) ELSE dropped[x]]
    BY <1>0, FindEffect
  <1>2. /\ entries'[k] = row
        /\ calls' = [calls EXCEPT ![c] = [pc |-> "found", key |-> k, now |-> now, bucket |-> entries'[k].bucket]]
        /\ buckets' = IF known THEN buckets ELSE Append(buckets, full)
    BY <1>0, FindEffect
  <1>3. RateTyped /\ Lag \in Nat /\ Full \in Nat
    BY RateConstants, FullTypes DEF RateInv
  <1>4. /\ buckets \in Seq([tokens : Int, last : Nat]) /\ full \in [tokens : Int, last : Nat]
        /\ full.tokens = Full /\ full.last = clock
    BY <1>1, <1>3 DEF RateTyped
  <1>5. row.bucket = (IF known THEN entries[k].bucket ELSE Len(buckets) + 1) /\ row.seen = now
    OBVIOUS
  <1> HIDE DEF row, full
  <1>6. /\ buckets' \in Seq([tokens : Int, last : Nat]) /\ DOMAIN buckets \subseteq DOMAIN buckets'
        /\ \A b \in DOMAIN buckets : buckets'[b] = buckets[b]
        /\ ~known => /\ Len(buckets) + 1 \in DOMAIN buckets' \ DOMAIN buckets
                     /\ buckets'[Len(buckets) + 1] = full
    <2>1. CASE known
      BY <1>2, <1>4, <2>1
    <2>2. CASE ~known
      BY <1>2, <1>4, <2>2, AppendProperties
    <2> QED
      BY <2>1, <2>2
  <1>7. /\ entries'[k].seen = now /\ entries'[k].bucket \in DOMAIN buckets' /\ row \in [bucket : DOMAIN buckets', seen : Nat]
        /\ known => entries'[k].bucket = entries[k].bucket
        /\ ~known => entries'[k].bucket = Len(buckets) + 1
    <2>1. known => entries[k].bucket \in DOMAIN buckets
      BY <1>3, BucketFound
    <2>2. row.bucket \in DOMAIN buckets'
      BY <1>5, <1>6, <2>1
    <2> QED
      BY <1>1, <1>2, <1>5, <2>2 DEF row
  <1>8. \A x \in DOMAIN entries' \ {k} :
          /\ x \in DOMAIN entries /\ entries'[x] = entries[x]
          /\ entries[x] \in [bucket : DOMAIN buckets, seen : Nat]
          /\ entries[x].bucket \in DOMAIN buckets /\ entries[x].seen \in Nat
    BY <1>1, <1>3, BucketFound
  <1> DEFINE call == [pc |-> "found", key |-> k, now |-> now, bucket |-> entries'[k].bucket]
  <1>9. /\ call \in [pc : {"found"}, key : Addresses, now : Nat, bucket : DOMAIN buckets']
        /\ call.key = k /\ call.now = now /\ call.bucket = entries'[k].bucket
        /\ calls' = [calls EXCEPT ![c] = call]
    BY <1>1, <1>2, <1>7
  <1> HIDE DEF call
  <1>10. RateTyped'
    <2>1. DOMAIN entries' \subseteq Addresses
      BY <1>1, <1>3 DEF RateTyped
    <2>2. entries' \in [DOMAIN entries' -> [bucket : DOMAIN buckets', seen : Nat]]
      <3>1. \A x \in DOMAIN entries' : entries'[x] \in [bucket : DOMAIN buckets', seen : Nat]
        BY <1>2, <1>6, <1>7, <1>8
      <3> QED
        BY <1>1, <3>1
    <2>3. calls' \in [Callers -> {Waiting} \cup [pc : {"find"}, key : Addresses, now : Nat]
                        \cup [pc : {"found"}, key : Addresses, now : Nat, bucket : DOMAIN buckets']]
      BY <1>3, <1>6, <1>9 DEF RateTyped
    <2>4. dropped' \in [Addresses -> Nat]
      BY <1>1, KeyFacts DEF RateInv, RateTyped
    <2> QED
      BY <1>1, <1>3, <1>6, <2>1, <2>2, <2>3, <2>4 DEF RateTyped
  <1>11. OwnBuckets'
    <2> SUFFICES ASSUME NEW x \in DOMAIN entries', NEW y \in DOMAIN entries',
                        entries'[x].bucket = entries'[y].bucket
                 PROVE  x = y
      BY DEF OwnBuckets
    <2>1. OwnBuckets
      BY DEF RateInv
    <2>2. ASSUME NEW z \in DOMAIN entries' \ {k} PROVE entries'[z].bucket # entries'[k].bucket
      <3>1. entries'[z].bucket = entries[z].bucket /\ entries[z].bucket \in DOMAIN buckets /\ z \in DOMAIN entries
        BY <1>8
      <3>2. CASE known
        BY <1>7, <2>1, <3>1, <3>2 DEF OwnBuckets
      <3>3. CASE ~known
        BY <1>6, <1>7, <3>1, <3>3
      <3> QED
        BY <3>2, <3>3
    <2>3. CASE x # k /\ y # k
      <3>1. x \in DOMAIN entries /\ y \in DOMAIN entries /\ entries[x].bucket = entries[y].bucket
        BY <1>8, <2>3
      <3> QED
        BY <2>1, <3>1 DEF OwnBuckets
    <2>4. CASE x = k
      BY <2>2, <2>4
    <2>5. CASE y = k
      BY <2>2, <2>5
    <2> QED
      BY <2>3, <2>4, <2>5
  <1>12. ASSUME NEW d \in Callers PROVE InTime(d)'
    <2>1. CASE d = c
      BY <1>1, <1>3, <1>7, <1>9, <2>1, SMTT(20) DEF InTime, RateTyped
    <2>2. CASE d # c
      <3>1. calls'[d] = calls[d]
        BY <1>3, <1>9, <2>2 DEF RateTyped
      <3>2. CASE calls[d] = Waiting
        BY <3>1, <3>2 DEF InTime
      <3>3. CASE calls[d] # Waiting
        <4> DEFINE x == calls[d].key
        <4>1. /\ calls[d].now \in Nat /\ calls[d].now <= clock /\ clock <= calls[d].now + Lag
              /\ calls[d].pc = "found" =>
                   x \in DOMAIN entries /\ calls[d].bucket = entries[x].bucket
                   /\ calls[d].now <= entries[x].seen + Lag
          BY <3>3, CallTypes
        <4>2. ASSUME calls[d].pc = "found"
              PROVE  /\ x \in DOMAIN entries' /\ calls[d].bucket = entries'[x].bucket
                     /\ calls[d].now <= entries'[x].seen + Lag
          <5>1. CASE x = k
            BY <1>1, <1>3, <1>7, <4>1, <4>2, <5>1
          <5>2. CASE x # k
            <6>1. entries[x].seen \in Nat /\ EvictAfter \in Nat /\ EvictAfter > Lag + Lag
              BY <1>3, <4>1, <4>2, BucketFound, EvictsLate, RateConstants
            <6>2. ~(now - entries[x].seen > EvictAfter)
              <7> DEFINE seen == entries[x].seen
                         mine == calls[d].now
              <7>1. /\ seen \in Nat /\ mine \in Nat /\ now \in Nat /\ clock \in Nat /\ Lag \in Nat
                    /\ now <= clock /\ clock <= mine + Lag /\ mine <= seen + Lag
                BY <1>1, <1>3, <4>1, <4>2, <6>1
              <7> HIDE DEF seen, mine
              <7>2. ~(now - seen > EvictAfter)
                BY <6>1, <7>1
              <7> QED
                BY <7>2 DEF seen
            <6>3. x \in DOMAIN entries'
              BY <1>1, <4>1, <4>2, <6>2
            <6> QED
              BY <1>8, <4>1, <4>2, <5>2, <6>3
          <5> QED
            BY <5>1, <5>2
        <4> QED
          BY <1>1, <3>1, <4>1, <4>2 DEF InTime
      <3> QED
        BY <3>2, <3>3
    <2> QED
      BY <2>1, <2>2
  <1>13. ASSUME NEW x \in Addresses
         PROVE  /\ Level(x)' \in Int
                /\ dropped'[x] = dropped[x] \/ dropped'[x] = Len(served[x])
                /\ Level(x)' = Level(x) \/ Level(x)' >= Full - Refill(clock)
                /\ Level(x)' <= Level(x) \/ (~RefillsInTime /\ dropped'[x] = Len(served[x]))
    <2>1. Level(x) \in Int /\ Refill(clock) \in Int
      BY KeyFacts
    <2>5. dropped'[x] = dropped[x] \/ dropped'[x] = Len(served[x])
      BY <1>1
    <2>2. CASE x \in DOMAIN entries' /\ x \in DOMAIN entries
      <3>1. entries'[x].bucket = entries[x].bucket /\ entries[x].bucket \in DOMAIN buckets
        BY <1>3, <1>7, <1>8, <2>2, BucketFound
      <3>2. Level(x)' = Level(x)
        BY <1>3, <1>6, <2>2, <3>1, LevelKept
      <3> QED
        BY <2>1, <2>5, <3>2
    <2>3. CASE x \in DOMAIN entries' /\ x \notin DOMAIN entries
      <3>1. x = k /\ ~known
        BY <1>1, <2>3
      <3>2. Level(x)' = Full - Refill(clock)
        BY <1>4, <1>6, <1>7, <2>3, <3>1 DEF Level
      <3>3. Level(x) = Full - Refill(clock)
        BY <2>3 DEF Level
      <3> QED
        BY <1>3, <2>1, <2>5, <3>2, <3>3
    <2>4. CASE x \notin DOMAIN entries'
      <3>1. Level(x)' = Full - Refill(clock)
        BY <1>1, <2>4 DEF Level
      <3>2. Level(x) >= Full - Refill(clock) \/ (~RefillsInTime /\ dropped'[x] = Len(served[x]))
        <4>1. CASE x \in DOMAIN entries /\ RefillsInTime
          BY <1>1, <2>4, <4>1, SweptIsFull
        <4>2. CASE x \in DOMAIN entries /\ ~RefillsInTime
          BY <1>1, <2>4, <4>2
        <4>3. CASE x \notin DOMAIN entries
          BY <1>3, <2>1, <4>3 DEF Level
        <4> QED
          BY <4>1, <4>2, <4>3
      <3> QED
        BY <1>3, <2>1, <2>5, <3>1, <3>2
    <2> QED
      BY <2>2, <2>3, <2>4
  <1>14. ASSUME NEW x \in Addresses
         PROVE  Recent(x)' /\ Paid(x)' /\ OnlyPaid(x)' /\ NoMore(x)'
    <2>1. Level(x)' >= 0 - Refill(clock') /\ Paid(x)' /\ OnlyPaid(x)' /\ NoMore(x)'
      BY <1>1, <1>13, QuietKey
    <2>2. CASE x = k
      <3>1. clock \in Int /\ now + Lag \in Int
        BY <1>1, <1>3
      <3>2. Refill(clock) <= Refill(now + Lag) /\ Refill(clock) \in Int /\ Refill(now + Lag) \in Int
        BY <1>1, <3>1, RefillLinear
      <3> QED
        BY <1>1, <1>7, <1>13, <2>1, <2>2, <3>2 DEF Recent
    <2>3. CASE x # k
      <3>1. ASSUME x \in DOMAIN entries' PROVE Level(x)' >= 0 - Refill(entries'[x].seen + Lag)
        <4>1. x \in DOMAIN entries /\ entries'[x] = entries[x] /\ entries[x].bucket \in DOMAIN buckets
          BY <1>8, <2>3, <3>1
        <4>2. Level(x)' = Level(x)
          BY <1>3, <1>6, <3>1, <4>1, LevelKept
        <4> QED
          BY <4>1, <4>2, KeyFacts DEF Recent
      <3> QED
        BY <2>1, <3>1 DEF Recent
    <2> QED
      BY <2>2, <2>3
  <1> QED
    BY <1>10, <1>11, <1>12, <1>14 DEF RateInv

LEMMA RateInitInv == RateInit => RateInv
  <1> SUFFICES ASSUME RateInit PROVE RateInv
    OBVIOUS
  <1>1. /\ clock = 0 /\ lastSweep = 0 /\ buckets = <<>> /\ entries = <<>> /\ DOMAIN entries = {}
        /\ \A c \in Callers : calls[c] = Waiting
        /\ \A k \in Addresses : served[k] = <<>>
    BY DEF RateInit
  <1>2. RateTyped
    BY <1>1 DEF RateInit, RateTyped
  <1>3. OwnBuckets /\ \A c \in Callers : InTime(c)
    BY <1>1 DEF OwnBuckets, InTime
  <1>4. ASSUME NEW k \in Addresses PROVE Recent(k) /\ Paid(k) /\ OnlyPaid(k) /\ NoMore(k)
    <2>1. /\ Level(k) = Full - Refill(clock) /\ Full \in Nat /\ Refill(clock) \in Int
          /\ Price(0) = 0 /\ Len(served[k]) = 0 /\ DOMAIN served[k] = {}
      BY <1>1, FullTypes, RefillType DEF Level
    <2>2. Recent(k)
      BY <1>1, <2>1 DEF Recent
    <2>3. Paid(k) /\ NoMore(k)
      BY <2>1 DEF Paid, NoMore
    <2>4. OnlyPaid(k)
      <3>1. \A i \in 0 .. 0 : i = 0
        OBVIOUS
      <3>2. Level(k) >= Full - Refill(clock) - Price(0 - 0)
        BY <2>1
      <3> QED
        BY <2>1, <3>1, <3>2 DEF OnlyPaid
    <2> QED
      BY <2>2, <2>3, <2>4
  <1> QED
    BY <1>2, <1>3, <1>4 DEF RateInv

LEMMA RateNextInv == RateInv /\ [RateNext]_rateVars => RateInv'
  <1> SUFFICES ASSUME RateInv, [RateNext]_rateVars PROVE RateInv'
    OBVIOUS
  <1>1. CASE UNCHANGED rateVars
    <2>1. UNCHANGED <<clock, buckets, entries, lastSweep, calls, served, dropped>>
      BY <1>1 DEF rateVars
    <2>2. \A k \in Addresses : Level(k)' = Level(k)
      BY <2>1 DEF Level
    <2>3. RateTyped' /\ OwnBuckets' /\ \A c \in Callers : InTime(c)'
      BY <2>1 DEF RateInv, RateTyped, OwnBuckets, InTime
    <2>4. ASSUME NEW k \in Addresses PROVE Recent(k)' /\ Paid(k)' /\ OnlyPaid(k)' /\ NoMore(k)'
      <3>1. Recent(k) /\ Paid(k) /\ OnlyPaid(k) /\ NoMore(k) /\ Level(k)' = Level(k)
        BY <2>2 DEF RateInv
      <3>2. \A i : Counts(k, i)' <=> Counts(k, i)
        BY <2>1 DEF Counts, RefillsInTime
      <3>3. Recent(k)' /\ OnlyPaid(k)'
        BY <2>1, <3>1 DEF Recent, OnlyPaid
      <3> QED
        BY <2>1, <3>1, <3>2, <3>3 DEF Paid, NoMore
    <2> QED
      BY <2>3, <2>4 DEF RateInv
  <1> QED
    BY <1>1, FindKeeps, AllowKeeps, ReadClockKeeps, ClockTickKeeps DEF RateNext

(********** Refusals **********)

LEMMA LeastNumber ==
    ASSUME NEW S \in SUBSET Nat, S # {}
    PROVE  \E n \in S : \A m \in S : n <= m
  <1>1. PICK n \in S : \A m \in S : ~(<<m, n>> \in OpToRel(<, Nat))
    BY NatLessThanWellFounded, WFMin
  <1>2. \A m \in S : ~(m < n)
    BY <1>1 DEF OpToRel
  <1> QED
    BY <1>2

\* The last number up to n that is in S.
LEMMA LastOf ==
    ASSUME NEW n \in Nat, NEW S \in SUBSET (1 .. n)
    PROVE  \E i \in 0 .. n : (i = 0 \/ i \in S) /\ \A j \in i + 1 .. n : j \notin S
  <1>1. CASE S = {}
    BY <1>1
  <1>2. CASE S # {}
    <2>1. {n - i : i \in S} \in SUBSET Nat /\ {n - i : i \in S} # {}
      <3>1. \A i \in S : n - i \in Nat
        OBVIOUS
      <3> QED
        BY <1>2, <3>1
    <2>2. PICK m \in {n - i : i \in S} : \A l \in {n - i : i \in S} : m <= l
      BY <2>1, LeastNumber
    <2>3. PICK i \in S : m = n - i
      BY <2>2
    <2>4. \A j \in S : n - i <= n - j
      BY <2>2, <2>3
    <2>5. i \in 0 .. n /\ \A j \in i + 1 .. n : j \notin S
      BY <2>4
    <2> QED
      BY <2>3, <2>5
  <1> QED
    BY <1>1, <1>2

\* A request that is refused at the time now comes after the requests of the burst
\* but for one and for the refill of the lag, let in within the time the bucket
\* needs to fill.
LEMMA RefusedLate ==
    ASSUME RateInv, NEW k \in Addresses, NEW now \in Nat, clock <= now + Lag,
           Level(k) + Refill(now) < Cost
    PROVE  Price(Cardinality({i \in DOMAIN served[k] : Refill(now - served[k][i] - Lag) < Full}))
           > Full - Cost - Refill(Lag)
  <1> DEFINE n == Len(served[k])
             late == {i \in 1 .. n : Refill(now - served[k][i] - Lag) < Full}
             L == Level(k)
  <1>1. /\ n \in Nat /\ DOMAIN served[k] = 1 .. n /\ L \in Int /\ Full \in Nat /\ clock \in Nat
        /\ \A i \in 1 .. n : served[k][i] \in Int /\ Refill(served[k][i]) \in Int
        /\ Refill(clock) \in Int
        /\ \A i \in 0 .. n :
             \/ i > 0 /\ L >= 0 - Refill(served[k][i]) - Price(n - i)
             \/ L >= Full - Refill(clock) - Price(n - i)
    BY KeyFacts DEF OnlyPaid
  <1>2. /\ Burst \in Nat /\ Lag \in Nat /\ Cost \in Nat
        /\ Refill(now) \in Int /\ Refill(Lag) \in Int /\ Refill(now + Lag) = Refill(now) + Refill(Lag)
        /\ Refill(clock) <= Refill(now + Lag)
    <2>1. now \in Int /\ Lag \in Int /\ now + Lag \in Int /\ clock \in Int
      BY <1>1, RateConstants
    <2> QED
      BY <2>1, RefillLinear, RateConstants
  <1>3. PICK i \in 0 .. n : (i = 0 \/ i \in (1 .. n) \ late) /\ \A j \in i + 1 .. n : j \notin (1 .. n) \ late
    <2>1. n \in Nat /\ (1 .. n) \ late \in SUBSET (1 .. n)
      BY <1>1
    <2> HIDE DEF n, late
    <2> QED
      BY <2>1, LastOf
  <1>4. i + 1 .. n \subseteq late
    <2> HIDE DEF n, late
    <2>1. \A j \in i + 1 .. n : j \in 1 .. n
      BY <1>1
    <2> QED
      BY <1>3, <2>1
  <1>5. n - i \in Nat /\ Price(n - i) \in Int
    <2>1. n - i \in Nat /\ n - i \in Int
      BY <1>1
    <2> QED
      BY <2>1, PriceType
  <1>6. L + Refill(now) < Cost
    OBVIOUS
  <1> HIDE DEF L
  <1>7. Price(n - i) > Full - Cost - Refill(Lag)
    <2>1. CASE i > 0 /\ L >= 0 - Refill(served[k][i]) - Price(n - i)
      <3> DEFINE s == served[k][i]
      <3>1. s \in Int /\ Refill(s) \in Int /\ ~(Refill(now - s - Lag) < Full)
        BY <1>1, <1>3, <2>1
      <3> HIDE DEF s
      <3>2. now - s \in Int /\ Lag \in Int /\ now \in Int
        BY <1>2, <3>1
      <3>3. Refill(now - s - Lag) = Refill(now) - Refill(s) - Refill(Lag)
        BY <3>1, <3>2, RefillLinear
      <3>4. L >= 0 - Refill(s) - Price(n - i)
        BY <2>1 DEF s
      <3>5. Refill(Lag) >= 0
        <4>1. Refill(0) = 0
          BY RateConstants DEF Refill
        <4>2. 0 \in Int /\ Lag \in Int /\ 0 <= Lag
          BY <1>2
        <4> QED
          BY <4>1, <4>2, RefillLinear
      <3>6. Refill(now) - Refill(s) - Refill(Lag) >= Full
        <4>1. Refill(now) - Refill(s) - Refill(Lag) \in Int
          BY <1>2, <3>1
        <4> HIDE DEF n
        <4> QED
          BY <1>1, <3>1, <3>3, <4>1
      <3>7. /\ L \in Int /\ Full \in Nat /\ Cost \in Nat /\ Refill(s) \in Int
            /\ Refill(now) \in Int /\ Refill(Lag) \in Int /\ Price(n - i) \in Int
        BY <1>1, <1>2, <1>5, <3>1
      <3> HIDE DEF n
      <3> QED
        BY <1>6, <3>4, <3>5, <3>6, <3>7
    <2>2. CASE L >= Full - Refill(clock) - Price(n - i)
      <3>1. /\ L \in Int /\ Full \in Nat /\ Cost \in Nat /\ Refill(clock) \in Int
            /\ Refill(now) \in Int /\ Refill(Lag) \in Int /\ Price(n - i) \in Int
            /\ Refill(clock) <= Refill(now) + Refill(Lag)
        BY <1>1, <1>2, <1>5
      <3> HIDE DEF n
      <3> QED
        BY <1>6, <2>2, <3>1
    <2> QED
      BY <1>1, <2>1, <2>2
  <1>9. IsFiniteSet(late) /\ Cardinality(i + 1 .. n) <= Cardinality(late) /\ Cardinality(late) \in Nat
    <2>1. IsFiniteSet(1 .. n) /\ late \subseteq 1 .. n
      BY <1>1, FS_Interval
    <2>2. IsFiniteSet(late)
      BY <2>1, FS_Subset
    <2> QED
      BY <1>4, <2>2, FS_Subset, FS_CardinalityType
  <1>10. Cardinality(i + 1 .. n) = n - i
    <2>1. i + 1 \in Int /\ n \in Int
      BY <1>1
    <2>2. Cardinality(i + 1 .. n) = IF i + 1 > n THEN 0 ELSE n - (i + 1) + 1
      BY <2>1, FS_Interval
    <2>3. CASE i = n
      BY <2>1, <2>2, <2>3
    <2>4. CASE i # n
      <3>1. ~(i + 1 > n)
        BY <2>1, <2>4
      <3> QED
        BY <2>1, <2>2, <3>1
    <2> QED
      BY <2>3, <2>4
  <1>11. late = {j \in DOMAIN served[k] : Refill(now - served[k][j] - Lag) < Full}
    BY <1>1
  <1> HIDE DEF late
  <1>12. Price(Cardinality(late)) > Full - Cost - Refill(Lag)
    <2>1. n - i \in Int /\ Cardinality(late) \in Int /\ n - i <= Cardinality(late)
      BY <1>5, <1>9, <1>10
    <2> HIDE DEF n
    <2>2. Price(n - i) <= Price(Cardinality(late)) /\ Price(Cardinality(late)) \in Int
      BY <2>1, PriceGrows, PriceType
    <2>3. Full \in Nat /\ Cost \in Nat /\ Refill(Lag) \in Int /\ Price(n - i) \in Int
      BY <1>1, <1>2, <1>5
    <2> QED
      BY <1>7, <2>2, <2>3
  <1> QED
    BY <1>11, <1>12

\* A client gets its rate, no more and no less (tokenBucket.allow,
\* keyedLimiter.allow): over any stretch of its requests at most the burst and
\* the refill of the time between, and it is refused only after the requests of
\* its burst but for one and the refill of the lag; for any rate and burst, any
\* number of clients and of requests that overtake each other, with the table
\* swept in between.  A stretch may span a drop of the bucket where ten minutes
\* refill it (RefillsInTime), and lies between two drops otherwise.
THEOREM RateAlwaysKept == RateSpec => RateKept
  <1> DEFINE Burst1 == \A k \in DOMAIN served : \A i, j \in DOMAIN served[k] :
                 i <= j /\ (RefillsInTime \/ i > dropped[k]) =>
                    (j - i + 1) * Cost <= Burst * Cost + Rate * (served[k][j] - served[k][i])
             ForCause(c) ==
                calls[c].pc = "found" /\ calls'[c] = Waiting /\ served' = served =>
                  Cardinality({i \in DOMAIN served[calls[c].key] :
                     Rate * (calls[c].now - served[calls[c].key][i] - Lag) < Burst * Cost}) * Cost
                  > Burst * Cost - Cost - Rate * Lag
  <1>1. RateInv => Burst1
    BY DEF RateInv, RateTyped, NoMore, Counts, Refill, Price, Full
  <1>2. ASSUME RateInv, RateNext, NEW c \in Callers,
               calls[c].pc = "found", calls'[c] = Waiting, served' = served
        PROVE  Cardinality({i \in DOMAIN served[calls[c].key] :
                     Rate * (calls[c].now - served[calls[c].key][i] - Lag) < Burst * Cost}) * Cost
                  > Burst * Cost - Cost - Rate * Lag
    <2> DEFINE k == calls[c].key
               now == calls[c].now
               tokens == Refilled(buckets[calls[c].bucket], now)
    <2>1. /\ k \in DOMAIN entries /\ k \in Addresses /\ now \in Nat /\ clock <= now + Lag
          /\ calls[c].bucket = entries[k].bucket /\ calls[c] # Waiting
      BY <1>2, CallTypes, NotWaiting
    <2>2. Allow(c)
      <3>1. PICK d \in Callers : Find(d) \/ Allow(d) \/ \E x \in Addresses : ReadClock(d, x)
        BY <1>2, <2>1 DEF RateNext, ClockTick
      <3>2. d = c
        BY <1>2, <2>1, <3>1 DEF Find, Allow, ReadClock, Call, RateInv, RateTyped
      <3> QED
        BY <1>2, <2>1, <3>1, <3>2 DEF Find, ReadClock
    <2>3. tokens < Cost
      <3>1. served[k] \in Seq(Nat) /\ k \in DOMAIN served /\ Append(served[k], now) # served[k]
        <4>1. served[k] \in Seq(Nat) /\ k \in DOMAIN served
          BY <1>2, <2>1 DEF RateInv, RateTyped
        <4>2. Len(Append(served[k], now)) = Len(served[k]) + 1 /\ Len(served[k]) \in Nat
          BY <2>1, <4>1
        <4> QED
          BY <4>1, <4>2
      <3>2. ~(served' = [served EXCEPT ![k] = Append(served[k], now)])
        BY <1>2, <3>1
      <3> QED
        BY <2>2, <3>2 DEF Allow
    <2>4. /\ tokens \in Int /\ (tokens = Full \/ tokens = Level(k) + Refill(now))
          /\ Full \in Nat /\ Full >= Cost /\ Cost \in Nat
      BY <1>2, <2>1, RefilledLevel, FullTypes, RateConstants DEF RateInv
    <2> HIDE DEF tokens
    <2>5. Level(k) + Refill(now) < Cost
      BY <2>3, <2>4
    <2>6. Price(Cardinality({i \in DOMAIN served[k] : Refill(now - served[k][i] - Lag) < Full}))
          > Full - Cost - Refill(Lag)
      BY <1>2, <2>1, <2>5, RefusedLate
    <2> QED
      BY <2>6 DEF Refill, Full, Price
  <1>3. RateInv /\ [RateNext]_rateVars => [\A c \in Callers : ForCause(c)]_rateVars
    BY <1>2
  <1> QED
    BY <1>1, <1>3, RateInitInv, RateNextInv, PTL DEF RateSpec, RateKept

==============================================================================
