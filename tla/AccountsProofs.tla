--------------------------- MODULE AccountsProofs ---------------------------
(***************************************************************************)
(* Proofs about Accounts, for every value of its constants.                *)
(***************************************************************************)
EXTENDS Accounts, TLAPS

(* No session survives outside a process that has run. *)
FreshProcessHasNoSessions == server \in {"down", "ready"} => DOMAIN sessions = {}

(* A step that changes neither table; it may lose the connection. *)
Quiet ==
  /\ UNCHANGED <<users, sessions, server>>
  /\ connection' \in {connection, "dead"}
  /\ reply' \in StatusCodes

(* The inductive invariant: a login is refused because the user is online, *)
(* so a second session needs SessionMeansOnline; a cached login stays      *)
(* fresh because nobody else can change it, which needs OneSessionPerUser. *)
IInv ==
  /\ TypeOK
  /\ FreshProcessHasNoSessions
  /\ SessionMeansOnline
  /\ OneSessionPerUser
  /\ CachedLoginIsFresh

-----------------------------------------------------------------------------
(* The default-constructed session is a session, and nobody's. *)
LEMMA PhantomType == PhantomSession \in Session /\ PhantomSession.user = NoUser
  BY DEF PhantomSession, Session

-----------------------------------------------------------------------------
(* An empty database and a process that is not there satisfy IInv. *)
LEMMA InitInv == Init => IInv
<1> SUFFICES ASSUME Init PROVE IInv
  OBVIOUS
<1>1. DOMAIN users = {} /\ users = [u \in {} |-> NewRow("", "")]
  BY DEF Init
<1>2. DOMAIN sessions = {} /\ sessions = [t \in {} |-> PhantomSession]
  BY DEF Init, NoSessions
<1>3. TypeOK
  BY <1>1, <1>2 DEF Init, TypeOK, ServerState, StatusCodes
<1> QED
  BY <1>1, <1>2, <1>3 DEF Init, IInv, FreshProcessHasNoSessions, SessionMeansOnline,
     OneSessionPerUser, CachedLoginIsFresh, RealSessions

(* An answer and a failing statement are quiet. *)
LEMMA QuietSteps ==
  /\ TypeOK /\ DatabaseFails => Quiet
  /\ \A code \in StatusCodes : TypeOK /\ Answer(code) => Quiet
  BY DEF DatabaseFails, Answer, Quiet, Errors, StatusCodes, TypeOK

(* A step that changes no table preserves IInv. *)
LEMMA QuietInv ==
  ASSUME IInv, Quiet
  PROVE  IInv'
<1>1. TypeOK' /\ FreshProcessHasNoSessions'
  BY DEF IInv, Quiet, TypeOK, FreshProcessHasNoSessions
<1>2. RealSessions' = RealSessions /\ (connection' = "up" => connection = "up")
  BY DEF Quiet, RealSessions
<1>3. SessionMeansOnline'
  BY <1>2 DEF IInv, Quiet, SessionMeansOnline, Online
<1>4. OneSessionPerUser'
  BY <1>2 DEF IInv, Quiet, OneSessionPerUser
<1>5. CachedLoginIsFresh'
  BY <1>2 DEF IInv, Quiet, CachedLoginIsFresh, CacheAgrees
<1> QED
  BY <1>1, <1>3, <1>4, <1>5 DEF IInv

(* A request with an unknown token adds a session of nobody. *)
LEMMA UnknownTokenInv ==
  ASSUME IInv, NEW t \in Tokens, UnknownToken(t)
  PROVE  IInv'
<1> USE DEF UnknownToken
<1>1. sessions \in [DOMAIN sessions -> Session]
  BY DEF IInv, TypeOK
<1>2. /\ DOMAIN sessions' = DOMAIN sessions \cup {t}
      /\ sessions' \in [DOMAIN sessions' -> Session]
      /\ sessions'[t].user = NoUser
      /\ \A x \in DOMAIN sessions \ {t} : sessions'[x] = sessions[x]
  BY <1>1, PhantomType DEF Put
<1>3. RealSessions' = RealSessions
  BY <1>2 DEF RealSessions
<1>4. TypeOK'
  BY <1>2 DEF IInv, TypeOK, StatusCodes
<1>5. FreshProcessHasNoSessions'
  BY DEF FreshProcessHasNoSessions
<1>6. \A x \in RealSessions : sessions'[x] = sessions[x]
  BY <1>2 DEF RealSessions
<1>7. SessionMeansOnline' /\ OneSessionPerUser' /\ CachedLoginIsFresh'
  BY <1>3, <1>6 DEF IInv, SessionMeansOnline, OneSessionPerUser, CachedLoginIsFresh,
     CacheAgrees, Online
<1> QED
  BY <1>4, <1>5, <1>7 DEF IInv

(* The row a signup writes is well typed when the validators accepted it. *)
LEMMA SignupInv ==
  ASSUME IInv, NEW u \in Users, NEW l \in Logins, NEW p \in Passwords, Signup(u, l, p)
  PROVE  IInv'
<1>1. CASE Quiet
  BY <1>1, QuietInv
<1>2. CASE /\ l \in ValidLogins /\ p \in ValidPasswords
           /\ u \notin DOMAIN users
           /\ users' = Put(users, u, NewRow(l, p))
           /\ connection' \in {connection, "dead"}
           /\ reply' \in StatusCodes
           /\ UNCHANGED <<sessions, server>>
  <2>1. NewRow(l, p) \in Row /\ users \in [DOMAIN users -> Row]
    BY <1>2 DEF NewRow, Row, IInv, TypeOK
  <2>2. /\ DOMAIN users' = DOMAIN users \cup {u}
        /\ users' \in [DOMAIN users' -> Row]
        /\ \A x \in DOMAIN users : users'[x] = users[x]
    BY <1>2, <2>1 DEF Put
  <2>3. TypeOK'
    BY <1>2, <2>2 DEF IInv, TypeOK
  <2>4. /\ RealSessions' = RealSessions
        /\ \A x \in RealSessions : sessions[x].user \in DOMAIN users
        /\ connection' = "up" => connection = "up"
    BY <1>2 DEF IInv, CachedLoginIsFresh, RealSessions
  <2>5. \A x \in RealSessions : Online(sessions[x].user)' <=> Online(sessions[x].user)
    BY <1>2, <2>2, <2>4 DEF Online
  <2>6. \A x \in RealSessions : CacheAgrees(x)' <=> CacheAgrees(x)
    BY <1>2, <2>2, <2>4 DEF CacheAgrees
  <2>7. SessionMeansOnline'
    BY <1>2, <2>4, <2>5 DEF IInv, SessionMeansOnline
  <2>8. CachedLoginIsFresh'
    BY <1>2, <2>2, <2>4, <2>6 DEF IInv, CachedLoginIsFresh
  <2>9. OneSessionPerUser' /\ FreshProcessHasNoSessions'
    BY <1>2 DEF IInv, OneSessionPerUser, FreshProcessHasNoSessions, RealSessions
  <2> QED
    BY <2>3, <2>7, <2>8, <2>9 DEF IInv
<1>3. Quiet \/ (l \in ValidLogins /\ p \in ValidPasswords /\ SignupUser(u, l, p))
  BY QuietSteps DEF Signup, StatusCodes, IInv
<1> QED
  BY <1>1, <1>2, <1>3, QuietSteps
     DEF SignupUser, AnswerLost, Errors, StatusCodes, IInv

(* A login opens a session only for an offline user: by SessionMeansOnline *)
(* that user has no other session.                                         *)
LEMMA LoginInv ==
  ASSUME IInv, NEW l \in Logins, NEW p \in Passwords, NEW t \in Tokens, Login(l, p, t)
  PROVE  IInv'
<1>1. CASE Quiet
  BY <1>1, QuietInv
<1>2. ASSUME NEW u \in MatchingUsers(l, p), SetOnline(u)
      PROVE  /\ u \in DOMAIN users /\ u \in Users /\ u # NoUser
             /\ Same(users[u].login, l)
             /\ DOMAIN users' = DOMAIN users
             /\ users' \in [DOMAIN users -> Row]
             /\ users'[u].online /\ ~Online(u)
             /\ \A x \in DOMAIN users : users'[x].login = users[x].login
             /\ \A x : Online(x) => Online(x)'
  <2>1. /\ u \in DOMAIN users /\ u \in Users /\ u # NoUser
        /\ Same(users[u].login, l)
        /\ users \in [DOMAIN users -> Row]
    BY <1>2, AccountsConstants DEF MatchingUsers, IInv, TypeOK
  <2>2. /\ DOMAIN users' = DOMAIN users
        /\ users' \in [DOMAIN users -> Row]
        /\ users'[u].online
        /\ \A x \in DOMAIN users : users'[x].login = users[x].login
        /\ \A x \in DOMAIN users : users[x].online => users'[x].online
    BY <1>2, <2>1 DEF Row, SetOnline
  <2> QED
    BY <1>2, <2>1, <2>2 DEF Online, SetOnline
<1>3. ASSUME NEW u \in MatchingUsers(l, p), server = "running", connection = "up",
             SetOnline(u), OpenSession(u, l, t)
      PROVE  IInv'
  <2>1. /\ u \in DOMAIN users /\ u \in Users /\ u # NoUser
        /\ Same(users[u].login, l)
        /\ sessions \in [DOMAIN sessions -> Session]
    BY <1>2, <1>3 DEF IInv, TypeOK
  <2>2. /\ DOMAIN users' = DOMAIN users
        /\ users' \in [DOMAIN users -> Row]
        /\ users'[u].online /\ ~Online(u)
        /\ \A x \in DOMAIN users : users'[x].login = users[x].login
        /\ \A x : Online(x) => Online(x)'
    BY <1>2, <1>3
  <2>3. [user |-> u, login |-> l] \in Session
    BY <2>1 DEF Session
  <2>4. /\ DOMAIN sessions' = DOMAIN sessions \cup {t}
        /\ sessions' \in [DOMAIN sessions' -> Session]
        /\ sessions'[t] = [user |-> u, login |-> l]
        /\ \A x \in DOMAIN sessions : sessions'[x] = sessions[x]
    BY <1>3, <2>1, <2>3 DEF Put, OpenSession
  <2>5. RealSessions' = RealSessions \cup {t}
    BY <1>3, <2>1, <2>4 DEF RealSessions, OpenSession
  <2>6. \A x \in RealSessions :
          /\ sessions'[x] = sessions[x] /\ x # t
          /\ Online(sessions[x].user) /\ sessions[x].user # u
    BY <1>3, <2>2, <2>4 DEF RealSessions, IInv, SessionMeansOnline, OpenSession
  <2>7. TypeOK'
    BY <1>3, <2>2, <2>4 DEF IInv, TypeOK, StatusCodes, OpenSession
  <2>8. SessionMeansOnline'
    <3> SUFFICES ASSUME NEW x \in RealSessions' PROVE Online(sessions[x].user)'
      BY DEF SessionMeansOnline
    <3>1. CASE x = t
      BY <3>1, <2>1, <2>2, <2>4 DEF Online
    <3>2. CASE x \in RealSessions
      BY <3>2, <2>2, <2>6
    <3> QED
      BY <2>5, <3>1, <3>2
  <2>9. OneSessionPerUser'
    <3>1. \A x \in RealSessions : sessions'[x].user # u
      BY <2>6
    <3>2. sessions'[t].user = u
      BY <2>4
    <3>3. \A x, y \in RealSessions : sessions'[x].user = sessions'[y].user => x = y
      BY <1>3, <2>6 DEF IInv, OneSessionPerUser
    <3> QED
      BY <2>5, <3>1, <3>2, <3>3 DEF OneSessionPerUser
  <2>10. CachedLoginIsFresh'
    <3> SUFFICES ASSUME NEW x \in RealSessions'
                 PROVE  sessions'[x].user \in DOMAIN users' /\ CacheAgrees(x)'
      BY DEF CachedLoginIsFresh
    <3>1. CASE x = t
      BY <3>1, <2>1, <2>2, <2>4 DEF CacheAgrees, Same
    <3>2. CASE x \in RealSessions
      <4>1. sessions[x].user \in DOMAIN users /\ CacheAgrees(x)
        BY <1>3, <3>2 DEF IInv, CachedLoginIsFresh
      <4> QED
        BY <3>2, <4>1, <2>2, <2>6 DEF CacheAgrees, Same
    <3> QED
      BY <2>5, <3>1, <3>2
  <2>11. FreshProcessHasNoSessions'
    BY <1>3 DEF FreshProcessHasNoSessions, OpenSession
  <2> QED
    BY <2>7, <2>8, <2>9, <2>10, <2>11 DEF IInv
<1>4. ASSUME NEW u \in MatchingUsers(l, p), connection = "up", LoginUnheard(u)
      PROVE  IInv'
  <2> USE DEF LoginUnheard
  <2>1. /\ UNCHANGED <<sessions, server>>
        /\ connection' \in {"up", "dead"} /\ reply' \in StatusCodes
    BY <1>4 DEF AnswerLost, Errors, StatusCodes
  <2>2. /\ DOMAIN users' = DOMAIN users
        /\ users' \in [DOMAIN users -> Row]
        /\ \A x \in DOMAIN users : users'[x].login = users[x].login
        /\ \A x : Online(x) => Online(x)'
    BY <1>2, <1>4
  <2>3. RealSessions' = RealSessions
    BY <2>1 DEF RealSessions
  <2>4. TypeOK'
    BY <2>1, <2>2 DEF IInv, TypeOK
  <2>5. SessionMeansOnline'
    BY <1>4, <2>1, <2>2, <2>3 DEF IInv, SessionMeansOnline
  <2>6. \A x \in RealSessions : sessions[x].user \in DOMAIN users /\ CacheAgrees(x)
    BY <1>4 DEF IInv, CachedLoginIsFresh
  <2>7. \A x \in RealSessions : sessions'[x].user \in DOMAIN users' /\ CacheAgrees(x)'
    BY <2>1, <2>2, <2>6 DEF CacheAgrees, Same
  <2>8. CachedLoginIsFresh'
    BY <2>3, <2>7 DEF CachedLoginIsFresh
  <2>9. OneSessionPerUser' /\ FreshProcessHasNoSessions'
    BY <2>1 DEF IInv, OneSessionPerUser, FreshProcessHasNoSessions, RealSessions
  <2> QED
    BY <2>4, <2>5, <2>8, <2>9 DEF IInv
<1>5. Quiet \/ (server = "running" /\ LoginUser(l, p, t))
  BY QuietSteps DEF Login, StatusCodes, IInv
<1> QED
  BY <1>1, <1>3, <1>4, <1>5, QuietSteps DEF LoginUser, StatusCodes, IInv

(* A logout clears the column and erases the only session of the user. *)
LEMMA LogoutInv ==
  ASSUME IInv, NEW t \in Tokens, Logout(t)
  PROVE  IInv'
<1> DEFINE u == sessions[t].user
<1>1. CASE Quiet
  BY <1>1, QuietInv
<1>2. server = "running" /\ t \in DOMAIN sessions
  BY DEF Logout
<1>3. ASSUME connection = "up", SetOffline(u)
      PROVE  /\ u \in DOMAIN users /\ u # NoUser
             /\ DOMAIN users' = DOMAIN users
             /\ users' \in [DOMAIN users -> Row]
             /\ \A x \in DOMAIN users : users'[x].login = users[x].login
             /\ \A x : x # u /\ Online(x) => Online(x)'
             /\ t \in RealSessions
             /\ \A x \in RealSessions \ {t} : sessions[x].user # u /\ Online(sessions[x].user)
  <2>1. /\ u \in DOMAIN users /\ u # NoUser
        /\ users \in [DOMAIN users -> Row]
    BY <1>3, AccountsConstants DEF IInv, TypeOK, SetOffline, Online
  <2>2. /\ DOMAIN users' = DOMAIN users
        /\ users' \in [DOMAIN users -> Row]
        /\ \A x \in DOMAIN users : users'[x].login = users[x].login
        /\ \A x \in DOMAIN users \ {u} : users'[x] = users[x]
    BY <1>3, <2>1 DEF Row, SetOffline
  <2>3. \A x : x # u /\ Online(x) => Online(x)'
    BY <2>2 DEF Online
  <2>4. t \in RealSessions
    BY <1>2, <2>1 DEF RealSessions
  <2>5. \A x \in RealSessions \ {t} : sessions[x].user # u /\ Online(sessions[x].user)
    BY <1>2, <1>3, <2>4 DEF IInv, OneSessionPerUser, SessionMeansOnline
  <2> QED
    BY <2>1, <2>2, <2>3, <2>4, <2>5
<1>4. CASE /\ connection = "up" /\ SetOffline(u)
           /\ sessions' = Remove(sessions, t)
           /\ reply' = "SYS__OKEY"
           /\ UNCHANGED <<server, connection>>
  <2>1. /\ DOMAIN sessions' = DOMAIN sessions \ {t}
        /\ sessions' \in [DOMAIN sessions' -> Session]
        /\ \A x \in DOMAIN sessions' : sessions'[x] = sessions[x]
    BY <1>2, <1>4 DEF Remove, Restrict, IInv, TypeOK
  <2>2. RealSessions' = RealSessions \ {t}
    BY <2>1 DEF RealSessions
  <2>3. \A x \in RealSessions' : sessions'[x] = sessions[x]
    BY <2>1, <2>2 DEF RealSessions
  <2>4. TypeOK'
    BY <1>3, <1>4, <2>1 DEF IInv, TypeOK, StatusCodes
  <2>5. \A x \in RealSessions' : Online(sessions[x].user)'
    <3>1. \A x \in RealSessions' : sessions[x].user # u /\ Online(sessions[x].user)
      BY <1>3, <1>4, <2>2
    <3> HIDE DEF u
    <3> QED
      BY <1>3, <1>4, <2>3, <3>1 DEF Online
  <2>11. SessionMeansOnline'
    BY <2>5 DEF SessionMeansOnline
  <2>6. OneSessionPerUser'
    BY <1>2, <2>2, <2>3 DEF IInv, OneSessionPerUser
  <2>7. \A x \in RealSessions : sessions[x].user \in DOMAIN users /\ CacheAgrees(x)
    BY <1>4 DEF IInv, CachedLoginIsFresh
  <2>8. \A x \in RealSessions' : sessions'[x].user \in DOMAIN users' /\ CacheAgrees(x)'
    BY <1>3, <1>4, <2>2, <2>3, <2>7 DEF CacheAgrees, Same
  <2>9. CachedLoginIsFresh'
    BY <2>8 DEF CachedLoginIsFresh
  <2>10. FreshProcessHasNoSessions'
    BY <1>2, <1>4 DEF FreshProcessHasNoSessions
  <2> QED
    BY <2>4, <2>11, <2>6, <2>9, <2>10 DEF IInv
<1>5. CASE connection = "up" /\ SetOffline(u) /\ AnswerLost
  <2> USE DEF AnswerLost
  <2>1. TypeOK'
    BY <1>3, <1>5 DEF IInv, TypeOK, Errors, StatusCodes
  <2>2. RealSessions' = RealSessions
    BY <1>5 DEF RealSessions
  <2>3. \A x \in RealSessions : ~Online(sessions[x].user)' => x = t
    BY <1>3, <1>5
  <2>4. SessionMeansOnline'
    BY <1>5, <2>2, <2>3 DEF SessionMeansOnline, Online
  <2>5. OneSessionPerUser' /\ FreshProcessHasNoSessions'
    BY <1>5, <2>2 DEF IInv, OneSessionPerUser, FreshProcessHasNoSessions
  <2>6. \A x \in RealSessions : sessions[x].user \in DOMAIN users /\ CacheAgrees(x)
    BY <1>5 DEF IInv, CachedLoginIsFresh
  <2>7. \A x \in RealSessions' : sessions'[x].user \in DOMAIN users' /\ CacheAgrees(x)'
    BY <1>3, <1>5, <2>2, <2>6 DEF CacheAgrees, Same
  <2>8. CachedLoginIsFresh'
    BY <2>7 DEF CachedLoginIsFresh
  <2> QED
    BY <2>1, <2>4, <2>5, <2>8 DEF IInv
<1> QED
  BY <1>1, <1>4, <1>5, QuietSteps DEF Logout, StatusCodes, IInv

(* profile_set changes the row and the one session that caches it.         *)
LEMMA ProfileSetInv ==
  ASSUME IInv,
         NEW t \in Tokens, NEW l \in Logins \cup {Keep}, NEW p \in Passwords \cup {Keep},
         ProfileSet(t, l, p)
  PROVE  IInv'
<1> DEFINE u == sessions[t].user
<1>1. CASE Quiet
  BY <1>1, QuietInv
<1>2. server = "running" /\ t \in DOMAIN sessions
  BY DEF ProfileSet
<1>3. ASSUME l \in ValidLogins \cup {Keep}, p \in ValidPasswords \cup {Keep},
             connection = "up", UpdateProfile(u, l, p)
      PROVE  /\ DOMAIN users' = DOMAIN users
             /\ users' \in [DOMAIN users -> Row]
             /\ \A x : Online(x)' <=> Online(x)
             /\ \A x \in DOMAIN users \ {u} : users'[x] = users[x]
             /\ u \in DOMAIN users => users'[u].login = Chosen(l, users[u].login)
             /\ \A x \in RealSessions : sessions[x].user \in DOMAIN users /\ CacheAgrees(x)
             /\ t \in RealSessions => \A x \in RealSessions \ {t} : sessions[x].user # u
  <2>1. /\ users \in [DOMAIN users -> Row]
        /\ DOMAIN users \subseteq Users
    BY DEF IInv, TypeOK
  <2>2. /\ DOMAIN users' = DOMAIN users
        /\ users' \in [DOMAIN users -> Row]
        /\ \A x \in DOMAIN users : users'[x].online = users[x].online
        /\ \A x \in DOMAIN users \ {u} : users'[x] = users[x]
        /\ u \in DOMAIN users => users'[u].login = Chosen(l, users[u].login)
    BY <1>3, <2>1 DEF UpdateProfile, Row, Chosen
  <2>3. \A x : Online(x)' <=> Online(x)
    BY <2>2 DEF Online
  <2>4. \A x \in RealSessions : sessions[x].user \in DOMAIN users /\ CacheAgrees(x)
    BY <1>3 DEF IInv, CachedLoginIsFresh
  <2>5. t \in RealSessions => \A x \in RealSessions \ {t} : sessions[x].user # u
    BY <1>2 DEF IInv, OneSessionPerUser
  <2> QED
    BY <2>2, <2>3, <2>4, <2>5
<1>4. CASE /\ l \in ValidLogins \cup {Keep} /\ p \in ValidPasswords \cup {Keep}
           /\ connection = "up" /\ UpdateProfile(u, l, p)
           /\ CacheLogin(t, l)
           /\ reply' = "SYS__OKEY"
           /\ UNCHANGED <<server, connection>>
  <2>1. sessions \in [DOMAIN sessions -> Session]
    BY DEF IInv, TypeOK
  <2>2. /\ DOMAIN sessions' = DOMAIN sessions
        /\ sessions' \in [DOMAIN sessions -> Session]
        /\ \A x \in DOMAIN sessions : sessions'[x].user = sessions[x].user
        /\ \A x \in DOMAIN sessions \ {t} : sessions'[x] = sessions[x]
        /\ sessions'[t].login = Chosen(l, sessions[t].login)
    BY <1>2, <1>4, <2>1, AccountsConstants DEF CacheLogin, Session, Chosen
  <2>3. RealSessions' = RealSessions
    BY <2>2 DEF RealSessions
  <2>4. TypeOK'
    BY <1>3, <1>4, <2>2 DEF IInv, TypeOK, StatusCodes
  <2>5. \A x \in RealSessions : sessions'[x].user = sessions[x].user
    BY <2>2 DEF RealSessions
  <2>6. SessionMeansOnline' /\ OneSessionPerUser'
    BY <1>3, <1>4, <2>3, <2>5 DEF IInv, SessionMeansOnline, OneSessionPerUser
  <2>7. CachedLoginIsFresh'
    <3> SUFFICES ASSUME NEW x \in RealSessions
                 PROVE  sessions'[x].user \in DOMAIN users' /\ CacheAgrees(x)'
      BY <2>3 DEF CachedLoginIsFresh
    <3>1. x \in DOMAIN sessions /\ sessions[x].user \in DOMAIN users /\ CacheAgrees(x)
      BY <1>3, <1>4 DEF RealSessions
    <3>2. CASE x = t
      <4>1. /\ sessions'[x].login = Chosen(l, sessions[x].login)
            /\ users'[u].login = Chosen(l, users[u].login)
            /\ sessions'[x].user = u
        BY <3>1, <3>2, <1>3, <1>4, <2>2
      <4> QED
        BY <3>1, <3>2, <4>1, <1>3, <1>4 DEF CacheAgrees, Same, Chosen
    <3>3. CASE x # t
      <4>1. sessions[x].user # u
        <5>1. CASE t \in RealSessions
          BY <3>3, <5>1, <1>3, <1>4
        <5>2. CASE t \notin RealSessions
          BY <1>2, <5>2 DEF RealSessions
        <5> QED
          BY <5>1, <5>2
      <4> QED
        BY <3>1, <3>3, <4>1, <1>3, <1>4, <2>2 DEF CacheAgrees, Same
    <3> QED
      BY <3>2, <3>3
  <2>8. FreshProcessHasNoSessions'
    BY <1>2, <1>4 DEF FreshProcessHasNoSessions
  <2> QED
    BY <2>4, <2>6, <2>7, <2>8 DEF IInv
<1>5. CASE /\ l \in ValidLogins \cup {Keep} /\ p \in ValidPasswords \cup {Keep}
           /\ connection = "up" /\ UpdateProfile(u, l, p)
           /\ AnswerLost
  <2> USE DEF AnswerLost
  <2>1. TypeOK'
    BY <1>3, <1>5 DEF IInv, TypeOK, Errors, StatusCodes
  <2>2. RealSessions' = RealSessions
    BY <1>5 DEF RealSessions
  <2>3. SessionMeansOnline' /\ OneSessionPerUser' /\ FreshProcessHasNoSessions'
    BY <1>3, <1>5, <2>2
       DEF IInv, SessionMeansOnline, OneSessionPerUser, FreshProcessHasNoSessions
  <2>4. ASSUME NEW x \in RealSessions PROVE CacheAgrees(x)' \/ x = t
    <3>1. CASE sessions[x].user = u
      BY <1>2, <2>4, <3>1 DEF IInv, OneSessionPerUser, RealSessions
    <3>2. CASE sessions[x].user # u
      BY <1>3, <1>5, <2>4, <3>2 DEF CacheAgrees, Same
    <3> QED
      BY <3>1, <3>2
  <2>5. CachedLoginIsFresh'
    BY <1>3, <1>5, <2>2, <2>4 DEF CachedLoginIsFresh
  <2> QED
    BY <2>1, <2>3, <2>5 DEF IInv
<1> QED
  BY <1>1, <1>4, <1>5, QuietSteps DEF ProfileSet, StatusCodes, IInv

(* stop resets the column; the session map outlives the run.               *)
LEMMA StopInv == IInv /\ Stop => IInv'
<1> SUFFICES ASSUME IInv, Stop PROVE IInv'
  OBVIOUS
<1>1. /\ server = "running" /\ server' = "stopped"
      /\ UNCHANGED <<sessions, connection, reply>>
      /\ LogoutUsers \/ users' = users
  BY DEF Stop
<1>2. users \in [DOMAIN users -> Row]
  BY DEF IInv, TypeOK
<1>3. /\ DOMAIN users' = DOMAIN users
      /\ users' \in [DOMAIN users -> Row]
      /\ \A x \in DOMAIN users : users'[x].login = users[x].login
  BY <1>1, <1>2 DEF LogoutUsers, Row
<1>4. TypeOK'
  BY <1>1, <1>3 DEF IInv, TypeOK, ServerState
<1>5. RealSessions' = RealSessions
  BY <1>1 DEF RealSessions
<1>6. \A x \in RealSessions : CacheAgrees(x)' <=> CacheAgrees(x)
  BY <1>1, <1>3 DEF IInv, CachedLoginIsFresh, CacheAgrees, Same
<1>7. CachedLoginIsFresh'
  BY <1>1, <1>3, <1>5, <1>6 DEF IInv, CachedLoginIsFresh
<1> QED
  BY <1>1, <1>4, <1>7 DEF IInv, FreshProcessHasNoSessions, SessionMeansOnline, OneSessionPerUser

(* The life cycle steps that leave the database alone.                     *)
LEMMA LifeCycleInv == IInv /\ (Setup \/ Run \/ Exit \/ Crash) => IInv'
<1> SUFFICES ASSUME IInv, Setup \/ Run \/ Exit \/ Crash PROVE IInv'
  OBVIOUS
<1>1. CASE Setup
  BY <1>1 DEF Setup, IInv, TypeOK, ServerState, FreshProcessHasNoSessions, SessionMeansOnline,
     OneSessionPerUser, CachedLoginIsFresh, RealSessions
<1>2. CASE Run
  BY <1>2 DEF Run, IInv, TypeOK, ServerState, FreshProcessHasNoSessions, SessionMeansOnline,
     OneSessionPerUser, CachedLoginIsFresh, RealSessions
<1>3. CASE ProcessEnds
  <2>1. DOMAIN sessions' = {} /\ sessions' \in [{} -> Session]
    BY <1>3 DEF ProcessEnds, NoSessions
  <2> QED
    BY <1>3, <2>1 DEF ProcessEnds, IInv, TypeOK, ServerState, StatusCodes,
       FreshProcessHasNoSessions, SessionMeansOnline, OneSessionPerUser, CachedLoginIsFresh,
       RealSessions
<1> QED
  BY <1>1, <1>2, <1>3 DEF Exit, Crash

(* One step of the server. *)
LEMMA NextInv == IInv /\ [Next]_vars => IInv'
<1> SUFFICES ASSUME IInv, [Next]_vars PROVE IInv'
  OBVIOUS
<1>1. CASE Command
  BY <1>1, QuietInv, QuietSteps, UnknownTokenInv, SignupInv, LoginInv, LogoutInv, ProfileSetInv
     DEF Command, InvalidCommand, StatusCodes, IInv
<1>2. CASE Setup \/ Run \/ Exit \/ Crash
  BY <1>2, LifeCycleInv
<1>3. CASE Stop
  BY <1>3, StopInv
<1>4. CASE UNCHANGED vars
  BY <1>4 DEF vars, IInv, TypeOK, FreshProcessHasNoSessions, SessionMeansOnline,
     OneSessionPerUser, CachedLoginIsFresh, CacheAgrees, RealSessions, Online
<1> QED
  BY <1>1, <1>2, <1>3, <1>4 DEF Next

(* The inductive invariant holds. *)
THEOREM Invariant == Spec => []IInv
<1> QED
  BY InitInv, NextInv, PTL DEF Spec

(* Both tables keep their types. *)
THEOREM TypeCorrect == Spec => []TypeOK
<1>1. IInv => TypeOK
  BY DEF IInv
<1> QED
  BY <1>1, Invariant, PTL

(* For any users, logins and tokens: while the server runs, whoever holds  *)
(* a session is online in the database, but for at most one session after  *)
(* an answer was lost.                                                     *)
THEOREM SessionsAreOnline == Spec => []SessionMeansOnline
<1>1. IInv => SessionMeansOnline
  BY DEF IInv
<1> QED
  BY <1>1, Invariant, PTL

(* No user ever holds two sessions of a running server. *)
THEOREM SessionsAreUnique == Spec => []OneSessionPerUser
<1>1. IInv => OneSessionPerUser
  BY DEF IInv
<1> QED
  BY <1>1, Invariant, PTL

(* For any users, logins and comparison of texts: the login cached in a    *)
(* session is the one of the row as far as the database can tell, but for  *)
(* at most one session after an answer was lost.                           *)
THEOREM CacheIsFresh == Spec => []CachedLoginIsFresh
<1>1. IInv => CachedLoginIsFresh
  BY DEF IInv
<1> QED
  BY <1>1, Invariant, PTL

-----------------------------------------------------------------------------
(* Accounts implements UserPresence.                                       *)

(* PresenceOf, user by user. *)
LEMMA PresenceCases ==
  /\ DOMAIN PresenceOf = Users
  /\ \A u \in Users :
       PresenceOf[u] =
         IF u \notin DOMAIN users THEN "unknown"
         ELSE IF users[u].online THEN (IF Held(u) THEN "in" ELSE "lost")
         ELSE (IF Held(u) /\ server = "running" THEN "stale" ELSE "out")
  BY DEF PresenceOf

(* Two states in which every user has the same row flag and the same       *)
(* session-or-not look the same to UserPresence.                           *)
LEMMA SamePresence ==
  ASSUME DOMAIN users' = DOMAIN users,
         \A u \in DOMAIN users : users'[u].online = users[u].online,
         \A u \in DOMAIN users : Held(u)' <=> Held(u),
         server' = server
  PROVE  PresenceOf' = PresenceOf
  BY DEF PresenceOf

(* The same when both tables are as they were. *)
LEMMA QuietRefines ==
  ASSUME UNCHANGED <<users, sessions, server>>
  PROVE  PresenceOf' = PresenceOf
  BY SamePresence DEF Held

(* Two states that differ in one user only. *)
LEMMA OneMoves ==
  ASSUME NEW u \in Users, NEW from, NEW to,
         \A v \in Users : PresenceOf[v] # "stale",
         PresenceOf[u] = from, PresenceOf'[u] = to,
         server' = server,
         \A x \in Users \ {u} :
           /\ x \in DOMAIN users' <=> x \in DOMAIN users
           /\ x \in DOMAIN users => users'[x] = users[x]
           /\ Held(x)' <=> Held(x)
  PROVE  Presence!Move(u, from, to)
<1>1. \A x \in Users \ {u} : PresenceOf'[x] = PresenceOf[x]
  BY DEF PresenceOf
<1>2. DOMAIN PresenceOf = Users /\ PresenceOf' = [x \in Users |-> PresenceOf'[x]]
  BY DEF PresenceOf
<1>3. PresenceOf' = [PresenceOf EXCEPT ![u] = to]
  BY <1>1, <1>2
<1> QED
  BY <1>3 DEF Presence!Move, Presence!NobodyStale

(* As long as no answer was lost nobody is stale. *)
LEMMA NobodyIsStale ==
  ASSUME IInv, connection = "up"
  PROVE  \A v \in Users : PresenceOf[v] # "stale"
<1> SUFFICES ASSUME NEW v \in Users, v \in DOMAIN users, Held(v), server = "running"
             PROVE  users[v].online
  BY DEF PresenceOf
<1>1. PICK t \in DOMAIN sessions : sessions[t].user = v
  BY DEF Held
<1>2. t \in RealSessions
  BY <1>1, AccountsConstants DEF RealSessions
<1> QED
  BY <1>1, <1>2 DEF IInv, SessionMeansOnline, Online

(* A fresh system knows nobody. *)
LEMMA InitRefines == Init => Presence!Init
  BY DEF Init, Presence!Init, PresenceOf

(* A new account is out, whether or not its owner hears of it. *)
LEMMA SignupRefines ==
  ASSUME IInv, NEW u \in Users, NEW l \in Logins, NEW p \in Passwords, Signup(u, l, p)
  PROVE  PresenceOf' = PresenceOf \/ Presence!Step(u)
<1>1. CASE Quiet
  BY <1>1, QuietRefines DEF Quiet
<1>2. CASE /\ connection = "up"
           /\ u \notin DOMAIN users
           /\ users' = Put(users, u, NewRow(l, p))
           /\ UNCHANGED <<sessions, server>>
  <2>1. /\ DOMAIN users' = DOMAIN users \cup {u}
        /\ \A x \in DOMAIN users : users'[x] = users[x]
        /\ ~users'[u].online
    BY <1>2 DEF Put, NewRow
  <2>2. \A x : Held(x)' <=> Held(x)
    BY <1>2 DEF Held
  <2>3. ~Held(u)
    BY <1>2, AccountsConstants DEF Held, IInv, TypeOK, CachedLoginIsFresh, RealSessions
  <2>4. PresenceOf[u] = "unknown" /\ PresenceOf'[u] = "out"
    BY <1>2, <2>1, <2>2, <2>3 DEF PresenceOf
  <2>5. \A v \in Users : PresenceOf[v] # "stale"
    BY <1>2, NobodyIsStale
  <2>6. \A x \in Users \ {u} :
          /\ x \in DOMAIN users' <=> x \in DOMAIN users
          /\ x \in DOMAIN users => users'[x] = users[x]
          /\ Held(x)' <=> Held(x)
    BY <2>1, <2>2
  <2>7. Presence!Move(u, "unknown", "out")
    BY <1>2, <2>4, <2>5, <2>6, OneMoves
  <2> QED
    BY <2>7 DEF Presence!Step, Presence!Register
<1>3. Quiet \/ SignupUser(u, l, p)
  BY QuietSteps DEF Signup, StatusCodes, IInv
<1> QED
  BY <1>1, <1>2, <1>3, QuietSteps DEF SignupUser, AnswerLost, StatusCodes, IInv

(* A login takes a user from out to in, or to lost if it is not heard.     *)
LEMMA LoginRefines ==
  ASSUME IInv, NEW l \in Logins, NEW p \in Passwords, NEW t \in Tokens, Login(l, p, t)
  PROVE  PresenceOf' = PresenceOf \/ \E u \in Users : Presence!Step(u)
<1>1. CASE Quiet
  BY <1>1, QuietRefines DEF Quiet
<1>2. ASSUME NEW u \in MatchingUsers(l, p), server = "running", connection = "up", SetOnline(u)
      PROVE  /\ u \in Users /\ u \in DOMAIN users
             /\ DOMAIN users' = DOMAIN users
             /\ users'[u].online
             /\ \A x \in DOMAIN users \ {u} : users'[x] = users[x]
             /\ ~Held(u) /\ PresenceOf[u] = "out"
             /\ \A v \in Users : PresenceOf[v] # "stale"
  <2>1. u \in DOMAIN users /\ u \in Users /\ users \in [DOMAIN users -> Row]
    BY <1>2 DEF MatchingUsers, IInv, TypeOK
  <2>2. /\ DOMAIN users' = DOMAIN users
        /\ users'[u].online /\ ~users[u].online
        /\ \A x \in DOMAIN users \ {u} : users'[x] = users[x]
    BY <1>2, <2>1 DEF Row, SetOnline
  <2>3. \A v \in Users : PresenceOf[v] # "stale"
    BY <1>2, NobodyIsStale
  <2>4. ~Held(u) /\ PresenceOf[u] = "out"
    BY <1>2, <2>1, <2>2, <2>3, PresenceCases
  <2> QED
    BY <2>1, <2>2, <2>3, <2>4
<1>3. ASSUME NEW u \in MatchingUsers(l, p), server = "running", connection = "up", SetOnline(u),
             OpenSession(u, l, t)
      PROVE  u \in Users /\ Presence!Step(u)
  <2>1. /\ DOMAIN sessions' = DOMAIN sessions \cup {t}
        /\ sessions'[t].user = u
        /\ t \notin DOMAIN sessions
        /\ \A x \in DOMAIN sessions : sessions'[x] = sessions[x]
        /\ server' = server
    BY <1>3 DEF Put, OpenSession
  <2>2. Held(u)' /\ \A x : x # u => (Held(x)' <=> Held(x))
    BY <2>1 DEF Held
  <2>3. u \in Users /\ PresenceOf[u] = "out" /\ PresenceOf'[u] = "in"
    BY <1>2, <1>3, <2>2 DEF PresenceOf
  <2>4. \A x \in Users \ {u} :
          /\ x \in DOMAIN users' <=> x \in DOMAIN users
          /\ x \in DOMAIN users => users'[x] = users[x]
          /\ Held(x)' <=> Held(x)
    BY <1>2, <1>3, <2>2
  <2>5. \A v \in Users : PresenceOf[v] # "stale"
    BY <1>3, NobodyIsStale
  <2>6. Presence!Move(u, "out", "in")
    BY <2>1, <2>3, <2>4, <2>5, OneMoves
  <2> QED
    BY <2>3, <2>6 DEF Presence!Step, Presence!Enter
<1>4. ASSUME NEW u \in MatchingUsers(l, p), server = "running", connection = "up", LoginUnheard(u)
      PROVE  u \in Users /\ Presence!Step(u)
  <2>1. SetOnline(u) /\ UNCHANGED <<sessions, server>>
    BY <1>4 DEF LoginUnheard, AnswerLost
  <2>2. \A x : Held(x)' <=> Held(x)
    BY <2>1 DEF Held
  <2>3. u \in Users /\ PresenceOf[u] = "out" /\ PresenceOf'[u] = "lost"
    BY <1>2, <1>4, <2>1, <2>2 DEF PresenceOf
  <2>4. \A x \in Users \ {u} :
          /\ x \in DOMAIN users' <=> x \in DOMAIN users
          /\ x \in DOMAIN users => users'[x] = users[x]
          /\ Held(x)' <=> Held(x)
    BY <1>2, <1>4, <2>1, <2>2
  <2>5. \A v \in Users : PresenceOf[v] # "stale"
    BY <1>4, NobodyIsStale
  <2>6. Presence!Move(u, "out", "lost")
    BY <2>1, <2>3, <2>4, <2>5, OneMoves
  <2> QED
    BY <2>3, <2>6 DEF Presence!Step, Presence!EnterUnheard
<1>5. Quiet \/ (server = "running" /\ LoginUser(l, p, t))
  BY QuietSteps DEF Login, StatusCodes, IInv
<1> QED
  BY <1>1, <1>3, <1>4, <1>5, QuietSteps DEF LoginUser, StatusCodes, IInv

(* A logout takes a user from in to out, or to stale if it is not heard.   *)
LEMMA LogoutRefines ==
  ASSUME IInv, NEW t \in Tokens, Logout(t)
  PROVE  PresenceOf' = PresenceOf \/ \E u \in Users : Presence!Step(u)
<1>0. PICK u : u = sessions[t].user
  OBVIOUS
<1>1. CASE Quiet
  BY <1>1, QuietRefines DEF Quiet
<1>2. server = "running" /\ t \in DOMAIN sessions
  BY DEF Logout
<1>3. ASSUME connection = "up", SetOffline(u)
      PROVE  /\ u \in Users /\ u \in DOMAIN users
             /\ DOMAIN users' = DOMAIN users
             /\ ~users'[u].online
             /\ \A x \in DOMAIN users \ {u} : users'[x] = users[x]
             /\ Held(u) /\ PresenceOf[u] = "in"
             /\ \A v \in Users : PresenceOf[v] # "stale"
  <2>1. /\ u \in DOMAIN users /\ u \in Users /\ users[u].online
        /\ users \in [DOMAIN users -> Row]
    BY <1>3 DEF SetOffline, Online, IInv, TypeOK
  <2>2. /\ DOMAIN users' = DOMAIN users
        /\ ~users'[u].online
        /\ \A x \in DOMAIN users \ {u} : users'[x] = users[x]
    BY <1>3, <2>1 DEF Row, SetOffline
  <2>3. \A v \in Users : PresenceOf[v] # "stale"
    BY <1>3, NobodyIsStale
  <2>4. Held(u)
    BY <1>0, <1>2 DEF Held
  <2>5. PresenceOf[u] = "in"
    BY <2>1, <2>4 DEF PresenceOf
  <2> QED
    BY <2>1, <2>2, <2>3, <2>4, <2>5
<1>4. CASE /\ connection = "up" /\ SetOffline(u)
           /\ sessions' = Remove(sessions, t)
           /\ UNCHANGED server
  <2>1. /\ DOMAIN sessions' = DOMAIN sessions \ {t}
        /\ \A x \in DOMAIN sessions' : sessions'[x] = sessions[x]
    BY <1>4 DEF Remove, Restrict
  <2>2. \A x : x # u => (Held(x)' <=> Held(x))
    BY <1>0, <1>2, <2>1 DEF Held
  <2>3. ~Held(u)'
    <3>1. u # NoUser /\ t \in RealSessions
      BY <1>0, <1>2, <1>3, <1>4, AccountsConstants DEF RealSessions, IInv, TypeOK
    <3>2. \A x \in DOMAIN sessions \ {t} : sessions[x].user # u
      BY <1>0, <1>2, <3>1 DEF IInv, OneSessionPerUser, RealSessions
    <3> QED
      BY <2>1, <3>2 DEF Held
  <2>4. PresenceOf'[u] = "out"
    BY <1>3, <1>4, <2>3 DEF PresenceOf
  <2>5. \A x \in Users \ {u} :
          /\ x \in DOMAIN users' <=> x \in DOMAIN users
          /\ x \in DOMAIN users => users'[x] = users[x]
          /\ Held(x)' <=> Held(x)
    BY <1>3, <1>4, <2>2
  <2>6. Presence!Move(u, "in", "out")
    BY <1>3, <1>4, <2>4, <2>5, OneMoves
  <2> QED
    BY <1>3, <1>4, <2>6 DEF Presence!Step, Presence!Leave
<1>5. CASE connection = "up" /\ SetOffline(u) /\ AnswerLost
  <2>1. UNCHANGED <<sessions, server>>
    BY <1>5 DEF AnswerLost
  <2>2. \A x : Held(x)' <=> Held(x)
    BY <2>1 DEF Held
  <2>3. PresenceOf'[u] = "stale"
    BY <1>2, <1>3, <1>5, <2>1, <2>2 DEF PresenceOf
  <2>4. \A x \in Users \ {u} :
          /\ x \in DOMAIN users' <=> x \in DOMAIN users
          /\ x \in DOMAIN users => users'[x] = users[x]
          /\ Held(x)' <=> Held(x)
    BY <1>3, <1>5, <2>2
  <2>5. Presence!Move(u, "in", "stale")
    BY <1>3, <1>5, <2>1, <2>3, <2>4, OneMoves
  <2> QED
    BY <1>3, <1>5, <2>5 DEF Presence!Step, Presence!LeaveUnheard
<1> QED
  BY <1>0, <1>1, <1>4, <1>5, QuietSteps DEF Logout, StatusCodes, IInv

(* Requests that open and close no session are invisible. *)
LEMMA OtherCommandsRefine ==
  ASSUME IInv,
         \/ InvalidCommand
         \/ \E t \in Tokens : UnknownToken(t)
         \/ \E t \in Tokens, l \in Logins \cup {Keep}, p \in Passwords \cup {Keep} :
              ProfileSet(t, l, p)
  PROVE  PresenceOf' = PresenceOf
<1>1. CASE Quiet
  BY <1>1, QuietRefines DEF Quiet
<1>2. ASSUME NEW t \in Tokens, UnknownToken(t)
      PROVE  PresenceOf' = PresenceOf
  <2>1. /\ DOMAIN sessions' = DOMAIN sessions \cup {t}
        /\ sessions'[t].user = NoUser
        /\ t \notin DOMAIN sessions
        /\ \A x \in DOMAIN sessions : sessions'[x] = sessions[x]
        /\ UNCHANGED <<users, server>>
    BY <1>2, PhantomType DEF UnknownToken, Put
  <2>2. NoUser \notin DOMAIN users
    BY AccountsConstants DEF IInv, TypeOK
  <2>3. \A u \in DOMAIN users : Held(u)' <=> Held(u)
    BY <2>1, <2>2 DEF Held
  <2> QED
    BY <2>1, <2>3, SamePresence
<1>3. ASSUME NEW t \in DOMAIN sessions,
             NEW l, NEW p,
             UpdateProfile(sessions[t].user, l, p),
             CacheLogin(t, l) \/ UNCHANGED sessions,
             UNCHANGED server
      PROVE  PresenceOf' = PresenceOf
  <2>1. /\ users \in [DOMAIN users -> Row]
        /\ sessions \in [DOMAIN sessions -> Session]
    BY DEF IInv, TypeOK
  <2>2. /\ DOMAIN users' = DOMAIN users
        /\ \A x \in DOMAIN users : users'[x].online = users[x].online
    BY <1>3, <2>1 DEF UpdateProfile, Row
  <2>3. /\ DOMAIN sessions' = DOMAIN sessions
        /\ \A x \in DOMAIN sessions : sessions'[x].user = sessions[x].user
    BY <1>3, <2>1 DEF CacheLogin, Session
  <2>4. \A u \in DOMAIN users : Held(u)' <=> Held(u)
    BY <2>3 DEF Held
  <2> QED
    BY <1>3, <2>2, <2>4, SamePresence
<1>4. ASSUME NEW t \in Tokens, NEW l \in Logins \cup {Keep}, NEW p \in Passwords \cup {Keep},
             ProfileSet(t, l, p)
      PROVE  \/ Quiet
             \/ /\ t \in DOMAIN sessions
                /\ UpdateProfile(sessions[t].user, l, p)
                /\ CacheLogin(t, l) \/ UNCHANGED sessions
                /\ UNCHANGED server
  BY <1>4, QuietSteps DEF ProfileSet, AnswerLost, StatusCodes, IInv
<1>5. InvalidCommand => Quiet
  BY QuietSteps DEF InvalidCommand, StatusCodes, IInv
<1> QED
  BY <1>1, <1>2, <1>3, <1>4, <1>5

(* The life cycle: a shutdown resets everybody or nobody, and the end of a *)
(* process loses everybody who was in.                                     *)
LEMMA LifeCycleRefines ==
  ASSUME IInv, Setup \/ Run \/ Stop \/ Exit \/ Crash
  PROVE  PresenceOf' = PresenceOf \/ Presence!Lose \/ Presence!Reset \/ Presence!Forget
<1>1. CASE Setup \/ Run
  <2>1. UNCHANGED <<users, sessions>> /\ \A u : ~Held(u) /\ ~Held(u)'
    BY <1>1 DEF Setup, Run, IInv, FreshProcessHasNoSessions, Held
  <2> QED
    BY <2>1 DEF PresenceOf
<1>2. CASE Stop /\ LogoutUsers
  <2>1. users \in [DOMAIN users -> Row]
    BY DEF IInv, TypeOK
  <2>2. DOMAIN users' = DOMAIN users /\ \A u \in DOMAIN users : ~users'[u].online
    BY <1>2, <2>1 DEF LogoutUsers, Row
  <2>3. \A u \in Users : PresenceOf[u] = "unknown" <=> u \notin DOMAIN users
    BY PresenceCases
  <2>4. server' # "running"
    BY <1>2 DEF Stop
  <2>5. PresenceOf' = [u \in Users |-> IF PresenceOf[u] = "unknown" THEN "unknown" ELSE "out"]
    BY <2>2, <2>3, <2>4 DEF PresenceOf
  <2> QED
    BY <2>5 DEF Presence!Reset
<1>3. CASE Stop /\ UNCHANGED users
  <2>1. UNCHANGED <<users, sessions>> /\ server' # "running"
    BY <1>3 DEF Stop
  <2>2. \A u : Held(u)' <=> Held(u)
    BY <2>1 DEF Held
  <2>3. PresenceOf' = [u \in Users |-> IF PresenceOf[u] = "stale" THEN "out" ELSE PresenceOf[u]]
    BY <2>1, <2>2 DEF PresenceOf
  <2> QED
    BY <2>3 DEF Presence!Forget
<1>4. CASE ProcessEnds
  <2>1. users' = users /\ \A u : ~Held(u)'
    BY <1>4 DEF ProcessEnds, NoSessions, Held
  <2>2. PresenceOf' = [u \in Users |-> IF PresenceOf[u] = "in" THEN "lost"
                                      ELSE IF PresenceOf[u] = "stale" THEN "out" ELSE PresenceOf[u]]
    BY <2>1 DEF PresenceOf
  <2> QED
    BY <2>2 DEF Presence!Lose
<1> QED
  BY <1>1, <1>2, <1>3, <1>4 DEF Stop, Exit, Crash

(* Whatever a handler, a failing statement, a lost answer or the end of    *)
(* the process does to the two tables, UserPresence allows it.             *)
THEOREM Refinement == Spec => ImplementsPresence
<1>1. IInv /\ [Next]_vars => [Presence!Next]_PresenceOf
  <2> SUFFICES ASSUME IInv, [Next]_vars
               PROVE  Presence!Next \/ PresenceOf' = PresenceOf
    OBVIOUS
  <2>1. CASE Command
    BY <2>1, SignupRefines, LoginRefines, LogoutRefines, OtherCommandsRefine
       DEF Command, Presence!Next
  <2>2. CASE Setup \/ Run \/ Stop \/ Exit \/ Crash
    BY <2>2, LifeCycleRefines DEF Presence!Next
  <2>3. CASE UNCHANGED vars
    BY <2>3, QuietRefines DEF vars
  <2> QED
    BY <2>1, <2>2, <2>3 DEF Next
<1> QED
  BY <1>1, InitRefines, Invariant, PTL DEF Spec, ImplementsPresence, Presence!Spec

-----------------------------------------------------------------------------
(* Who gets locked out.                                                    *)

NobodyLocked == LockedOut' \subseteq LockedOut

(* A user is locked out only if it was online already, unless its session  *)
(* goes or its column is set.                                              *)
LEMMA SameLocks ==
  ASSUME \A u \in DOMAIN users' :
           users'[u].online => u \in DOMAIN users /\ users[u].online /\ (Held(u) => Held(u)')
  PROVE  NobodyLocked
  BY DEF NobodyLocked, LockedOut

LEMMA QuietLocksNobody ==
  ASSUME UNCHANGED <<users, sessions>>
  PROVE  NobodyLocked
  BY SameLocks DEF Held

LEMMA LoginLocks ==
  ASSUME IInv, NEW l \in Logins, NEW p \in Passwords, NEW t \in Tokens, Login(l, p, t)
  PROVE  NobodyLocked \/ \E u \in DOMAIN users : LoginUnheard(u)
<1>1. CASE Quiet
  BY <1>1, QuietLocksNobody DEF Quiet
<1>2. ASSUME NEW u \in MatchingUsers(l, p), SetOnline(u), OpenSession(u, l, t)
      PROVE  NobodyLocked
  <2>1. u \in DOMAIN users /\ users \in [DOMAIN users -> Row]
    BY DEF MatchingUsers, IInv, TypeOK
  <2>2. DOMAIN users' = DOMAIN users /\ \A x \in DOMAIN users \ {u} : users'[x] = users[x]
    BY <1>2, <2>1 DEF SetOnline
  <2>3. /\ DOMAIN sessions' = DOMAIN sessions \cup {t}
        /\ sessions'[t].user = u
        /\ t \notin DOMAIN sessions
        /\ \A x \in DOMAIN sessions : sessions'[x] = sessions[x]
    BY <1>2 DEF Put, OpenSession
  <2>4. Held(u)' /\ \A x : Held(x) => Held(x)'
    BY <2>3 DEF Held
  <2> QED
    BY <2>2, <2>4 DEF NobodyLocked, LockedOut
<1>3. Quiet \/ LoginUser(l, p, t)
  BY QuietSteps DEF Login, StatusCodes, IInv
<1>4. MatchingUsers(l, p) \subseteq DOMAIN users
  BY DEF MatchingUsers
<1> QED
  BY <1>1, <1>2, <1>3, <1>4, QuietSteps DEF LoginUser, StatusCodes, IInv

LEMMA LogoutLocksNobody ==
  ASSUME IInv, NEW t \in Tokens, Logout(t)
  PROVE  NobodyLocked
<1> DEFINE u == sessions[t].user
<1>1. CASE Quiet
  BY <1>1, QuietLocksNobody DEF Quiet
<1>2. ASSUME SetOffline(u), sessions' = Remove(sessions, t) \/ UNCHANGED sessions
      PROVE  NobodyLocked
  <2>1. u \in DOMAIN users /\ users \in [DOMAIN users -> Row]
    BY <1>2 DEF SetOffline, Online, IInv, TypeOK
  <2>2. /\ DOMAIN users' = DOMAIN users /\ ~users'[u].online
        /\ \A x \in DOMAIN users \ {u} : users'[x] = users[x]
    BY <1>2, <2>1 DEF SetOffline, Row
  <2>3. /\ DOMAIN sessions' \subseteq DOMAIN sessions
        /\ DOMAIN sessions \ {t} \subseteq DOMAIN sessions'
        /\ \A x \in DOMAIN sessions' : sessions'[x] = sessions[x]
    BY <1>2 DEF Remove, Restrict
  <2>4. \A x : x # u /\ Held(x) => Held(x)'
    BY <2>3 DEF Held
  <2> QED
    BY <2>2, <2>4, SameLocks
<1> QED
  BY <1>1, <1>2, QuietSteps DEF Logout, AnswerLost, StatusCodes, IInv

LEMMA OthersLockNobody ==
  ASSUME IInv,
         \/ InvalidCommand
         \/ \E t \in Tokens : UnknownToken(t)
         \/ \E u \in Users, l \in Logins, p \in Passwords : Signup(u, l, p)
         \/ \E t \in Tokens, l \in Logins \cup {Keep}, p \in Passwords \cup {Keep} :
              ProfileSet(t, l, p)
  PROVE  NobodyLocked
<1>1. CASE Quiet
  BY <1>1, QuietLocksNobody DEF Quiet
<1>2. ASSUME NEW t \in Tokens, UnknownToken(t) PROVE NobodyLocked
  <2>1. /\ DOMAIN sessions' = DOMAIN sessions \cup {t}
        /\ t \notin DOMAIN sessions
        /\ \A x \in DOMAIN sessions : sessions'[x] = sessions[x]
        /\ UNCHANGED users
    BY <1>2 DEF UnknownToken, Put
  <2>2. \A x : Held(x) => Held(x)'
    BY <2>1 DEF Held
  <2> QED
    BY <2>1, <2>2, SameLocks
<1>3. ASSUME NEW u \in Users, NEW l \in Logins, NEW p \in Passwords,
             u \notin DOMAIN users, users' = Put(users, u, NewRow(l, p)), UNCHANGED sessions
      PROVE  NobodyLocked
  <2>1. /\ DOMAIN users' = DOMAIN users \cup {u} /\ ~users'[u].online
        /\ \A x \in DOMAIN users : users'[x] = users[x]
    BY <1>3 DEF Put, NewRow
  <2>2. \A x : Held(x) => Held(x)'
    BY <1>3 DEF Held
  <2> QED
    BY <2>1, <2>2, SameLocks
<1>4. ASSUME NEW u \in Users, NEW l \in Logins, NEW p \in Passwords, Signup(u, l, p)
      PROVE  NobodyLocked
  <2>1. Quiet \/ SignupUser(u, l, p)
    BY <1>4, QuietSteps DEF Signup, StatusCodes, IInv
  <2> QED
    BY <1>1, <1>3, <2>1, QuietSteps DEF SignupUser, AnswerLost, StatusCodes, IInv
<1>5. ASSUME NEW t \in Tokens, NEW l \in Logins \cup {Keep}, NEW p \in Passwords \cup {Keep},
             ProfileSet(t, l, p)
      PROVE  NobodyLocked
  <2>1. \/ Quiet
        \/ UpdateProfile(sessions[t].user, l, p) /\ (CacheLogin(t, l) \/ UNCHANGED sessions)
    BY <1>5, QuietSteps DEF ProfileSet, AnswerLost, StatusCodes, IInv
  <2>2. CASE UpdateProfile(sessions[t].user, l, p) /\ (CacheLogin(t, l) \/ UNCHANGED sessions)
    <3>1. /\ users \in [DOMAIN users -> Row]
          /\ sessions \in [DOMAIN sessions -> Session]
      BY DEF IInv, TypeOK
    <3>2. /\ DOMAIN users' = DOMAIN users
          /\ \A x \in DOMAIN users : users'[x].online = users[x].online
      BY <2>2, <3>1 DEF UpdateProfile, Row
    <3>3. /\ DOMAIN sessions' = DOMAIN sessions
          /\ \A x \in DOMAIN sessions : sessions'[x].user = sessions[x].user
      BY <2>2, <3>1 DEF CacheLogin, Session
    <3>4. \A x : Held(x) => Held(x)'
      BY <3>3 DEF Held
    <3> QED
      BY <3>2, <3>4, SameLocks
  <2> QED
    BY <1>1, <2>1, <2>2
<1>6. InvalidCommand => Quiet
  BY QuietSteps DEF InvalidCommand, StatusCodes, IInv
<1> QED
  BY <1>1, <1>2, <1>4, <1>5, <1>6

LEMMA ServerLocksNobody ==
  ASSUME IInv, Setup \/ Run \/ Stop
  PROVE  NobodyLocked
<1>1. CASE UNCHANGED <<users, sessions>>
  BY <1>1, QuietLocksNobody
<1>2. CASE LogoutUsers
  <2>1. users \in [DOMAIN users -> Row]
    BY DEF IInv, TypeOK
  <2>2. DOMAIN users' = DOMAIN users /\ \A u \in DOMAIN users : ~users'[u].online
    BY <1>2, <2>1 DEF LogoutUsers, Row
  <2> QED
    BY <2>2 DEF LockedOut, NobodyLocked
<1> QED
  BY <1>1, <1>2 DEF Setup, Run, Stop

(* For any users and tokens: whatever fails, only the end of a process and *)
(* a login that is answered with an error after it set the column lock a   *)
(* user out.                                                               *)
THEOREM LockoutsAreExplained == Spec => LockoutsHaveACause
<1>1. IInv /\ [Next]_vars =>
        [\/ LockedOut' \subseteq LockedOut
         \/ ProcessEnds
         \/ \E u \in DOMAIN users : LoginUnheard(u)]_vars
  <2> SUFFICES ASSUME IInv, Next
               PROVE  NobodyLocked \/ ProcessEnds \/ \E u \in DOMAIN users : LoginUnheard(u)
    BY DEF NobodyLocked
  <2>1. CASE Command
    BY <2>1, LoginLocks, LogoutLocksNobody, OthersLockNobody DEF Command
  <2>2. CASE Setup \/ Run \/ Stop
    BY <2>2, ServerLocksNobody
  <2>3. CASE Exit \/ Crash
    BY <2>3 DEF Exit, Crash
  <2> QED
    BY <2>1, <2>2, <2>3 DEF Next
<1> QED
  BY <1>1, Invariant, PTL DEF Spec, LockoutsHaveACause

-----------------------------------------------------------------------------
(* What the other handlers see of the accounts.                            *)

(* The user of a command comes from its session, so it has a row, or it is *)
(* the empty id that a failed authentication left behind (handler.cpp:21). *)
CommandersAreKnown ==
  \A t \in DOMAIN sessions : sessions[t].user \in DOMAIN users \cup {NoUser}

(* For any users and tokens, the commands of the other handlers are given  *)
(* by registered users or by the empty id, which is what Relations, Chats  *)
(* and Search take for granted.                                            *)
THEOREM CommandersAreRegistered == Spec => []CommandersAreKnown
<1>1. IInv => CommandersAreKnown
  BY DEF IInv, CachedLoginIsFresh, RealSessions, CommandersAreKnown
<1> QED
  BY <1>1, Invariant, PTL

NoRows == [p \in (Users \cup {NoUser}) \X (Users \cup {NoUser}) |-> 0]

(* Relations, with nothing in its tables but the users.                    *)
Others == INSTANCE Relations WITH
  registered <- DOMAIN users, requests <- NoRows, contacts <- NoRows,
  connection <- IF server = "down" THEN "up" ELSE connection,
  accepting <- {}, reply <- "none"

LEMMA OneUserAtATime ==
  ASSUME IInv, [Next]_vars
  PROVE  DOMAIN users' = DOMAIN users \/ Others!Register
<1>1. CASE UNCHANGED users
  BY <1>1
<1>2. ASSUME NEW u \in Users, NEW l \in Logins, NEW p \in Passwords, Signup(u, l, p)
      PROVE  UNCHANGED users \/ Others!Register
  <2>1. CASE UNCHANGED users
    BY <2>1
  <2>2. CASE /\ u \notin DOMAIN users /\ users' = Put(users, u, NewRow(l, p))
             /\ server = "running" /\ server' = server
             /\ connection = "up" /\ connection' \in {"up", "dead"}
    <3>1. DOMAIN users' = DOMAIN users \cup {u}
      BY <2>2 DEF Put
    <3>2. \E v \in Users \ DOMAIN users : DOMAIN users' = DOMAIN users \cup {v}
      BY <2>2, <3>1
    <3>3. /\ (IF server = "down" THEN "up" ELSE connection) = "up"
          /\ (IF server = "down" THEN "up" ELSE connection)' \in {"up", "dead"}
      BY <2>2
    <3> QED
      BY <3>2, <3>3 DEF Others!Register, Others!Idle
  <2> QED
    BY <1>2, <2>1, <2>2 DEF Signup, SignupUser, DatabaseFails, AnswerLost, Answer
<1>3. ASSUME NEW l \in Logins, NEW p \in Passwords, NEW t \in Tokens, Login(l, p, t)
      PROVE  DOMAIN users' = DOMAIN users
  BY <1>3 DEF Login, LoginUser, LoginUnheard, SetOnline, DatabaseFails, Answer
<1>4. ASSUME NEW t \in Tokens, Logout(t) PROVE DOMAIN users' = DOMAIN users
  BY <1>4 DEF Logout, SetOffline, DatabaseFails, Answer
<1>5. ASSUME NEW t \in Tokens, NEW l \in Logins \cup {Keep}, NEW p \in Passwords \cup {Keep},
             ProfileSet(t, l, p)
      PROVE  DOMAIN users' = DOMAIN users
  <2>1. UpdateProfile(sessions[t].user, l, p) => DOMAIN users' = DOMAIN users
    BY DEF UpdateProfile
  <2> QED
    BY <1>5, <2>1 DEF ProfileSet, DatabaseFails, Answer
<1>6. CASE InvalidCommand \/ \E t \in Tokens : UnknownToken(t)
  BY <1>1, <1>6 DEF InvalidCommand, UnknownToken, Answer
<1>7. CASE Setup \/ Run \/ Stop \/ Exit \/ Crash
  BY <1>7 DEF Setup, Run, Stop, LogoutUsers, Exit, Crash, ProcessEnds
<1>8. CASE UNCHANGED vars
  BY <1>1, <1>8 DEF vars
<1> QED
  BY <1>1, <1>2, <1>3, <1>4, <1>5, <1>6, <1>7, <1>8 DEF Next, Command

(* Whatever happens to accounts and sessions, the other handlers see of it *)
(* users that appear one after the other and never go: the step Register   *)
(* of Relations.                                                           *)
THEOREM OthersSeeSignups == Spec => Others!Init /\ [][Others!Register]_(DOMAIN users)
<1>1. Init => Others!Init
  BY DEF Init, Others!Init, Others!Ids, NoRows
<1>2. IInv /\ [Next]_vars => [Others!Register]_(DOMAIN users)
  BY OneUserAtATime
<1> QED
  BY <1>1, <1>2, Invariant, PTL DEF Spec
=============================================================================
