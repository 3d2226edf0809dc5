------------------------------ MODULE Accounts ------------------------------
(***************************************************************************)
(* User accounts and sessions of the FarconN server.                       *)
(*                                                                         *)
(* The users table lives in the database and survives the process; the     *)
(* session table is the unordered_map server_middleware::sessions and      *)
(* lives in the process.  The column users.online and the session map say  *)
(* the same thing in two places, and nothing but the handlers below keeps  *)
(* them in agreement.                                                      *)
(*                                                                         *)
(* server::working_flows_count is 1, so one thread executes the handlers   *)
(* one after another and a handler that writes the database once is one    *)
(* step.  server::stop joins that thread before it touches the database,   *)
(* so Stop never interleaves with a handler.                               *)
(*                                                                         *)
(* The server has one connection to the database and commits every         *)
(* statement by itself.  A statement that took effect may still throw,     *)
(* when its answer is lost; the connection it was sent on is then gone and *)
(* nothing but the setup of a new process opens another.                   *)
(***************************************************************************)
EXTENDS Functions

CONSTANTS
  Users,          (* user ids that token_generator can return              *)
  NoUser,         (* the empty id of a default-constructed client_session  *)
  Logins,         (* logins a client may send                              *)
  ValidLogins,    (* those user_login_format_validator accepts             *)
  NoLogin,        (* the empty login of a default-constructed session      *)
  Passwords,      (* passwords a client may send                           *)
  ValidPasswords, (* those user_password_format_validator accepts          *)
  Fold,           (* the form in which the database compares text          *)
  Keep,           (* a profile option the client did not send              *)
  Tokens          (* session tokens, issued or invented                    *)

ASSUME AccountsConstants ==
  /\ NoUser \notin Users
  /\ ValidLogins \subseteq Logins
  /\ ValidPasswords \subseteq Passwords
  /\ NoLogin \notin Logins
  /\ Keep \notin Logins \cup Passwords

VARIABLES
  users,     (* table users: user id -> row                                *)
  sessions,  (* server_middleware::sessions: token -> client_session       *)
  server,    (* life cycle of the process and of the server object in it   *)
  connection, (* the only connection of the pool, "up" or "dead"           *)
  reply      (* status of the last response the handler thread built       *)

vars == <<users, sessions, server, connection, reply>>

Row == [login : ValidLogins, password : ValidPasswords, online : BOOLEAN]

Session == [user : Users \cup {NoUser}, login : Logins \cup {NoLogin}]

ServerState == {"down", "ready", "running", "stopped"}

StatusCodes ==
  { "none", "SYS__OKEY", "SYS__INTERNAL_SERVER_ERROR",
    "SYS__INVALID_COMMAND_ERROR", "SYS__INVALID_TOKEN_ERROR",
    "SIGNUP__EXISTING_LOGIN_ERROR", "SIGNUP__INVALID_LOGIN_ERROR",
    "SIGNUP__INVALID_PASSWORD_ERROR", "LOGIN__INVALID_DATA_ERROR",
    "LOGIN__ALREADY_LOGGED_IN_ERROR", "PROFILE__INVALID_DATA_TO_SET_ERROR" }

(* Every variable has its type: the tables are partial functions.          *)
TypeOK ==
  /\ DOMAIN users \subseteq Users
  /\ users \in [DOMAIN users -> Row]
  /\ DOMAIN sessions \subseteq Tokens
  /\ sessions \in [DOMAIN sessions -> Session]
  /\ server \in ServerState
  /\ connection \in {"up", "dead"}
  /\ reply \in StatusCodes

-----------------------------------------------------------------------------
(* Maps and answers.                                                       *)

Put(f, k, v) == [x \in DOMAIN f \cup {k} |-> IF x = k THEN v ELSE f[x]]

Remove(f, k) == Restrict(f, DOMAIN f \ {k})

Answer(code) == reply' = code /\ UNCHANGED <<users, sessions, server, connection>>

(* The columns are varchar without a collation of their own: the default   *)
(* one of MySQL takes 'Anna' and 'ANNA' for the same text.                 *)
Same(a, b) == Fold[a] = Fold[b]

(* What an exception becomes: 500 in the responder's own catch, an invalid *)
(* command when create_ or free_query_components throws past it.           *)
Errors == {"SYS__INTERNAL_SERVER_ERROR", "SYS__INVALID_COMMAND_ERROR"}

(* A statement that failed has no effect.  The connection may be lost with *)
(* it: always when the exception leaves the responder, for the connection  *)
(* is then not put back and a later caller waits for it for ever.          *)
DatabaseFails ==
  /\ reply' \in Errors
  /\ \/ connection' = "dead"
     \/ UNCHANGED connection /\ reply' = "SYS__INTERNAL_SERVER_ERROR"
  /\ UNCHANGED <<users, sessions, server>>

(* The statement took effect and its answer did not come: the handler sees *)
(* an exception like any other.                                            *)
AnswerLost ==
  /\ connection' = "dead"
  /\ reply' \in Errors
  /\ UNCHANGED <<sessions, server>>

-----------------------------------------------------------------------------
(* handler::handle and handler::try_authenticate_user, common to every     *)
(* command.  The failing branch still evaluates sessions[token], which     *)
(* inserts a default-constructed session under the unknown token.          *)

PhantomSession == [user |-> NoUser, login |-> NoLogin]

InvalidCommand ==
  /\ server = "running"
  /\ Answer("SYS__INVALID_COMMAND_ERROR")

UnknownToken(t) ==
  /\ server = "running"
  /\ t \notin DOMAIN sessions
  /\ sessions' = Put(sessions, t, PhantomSession)
  /\ reply' = "SYS__INVALID_TOKEN_ERROR"
  /\ UNCHANGED <<users, server, connection>>

-----------------------------------------------------------------------------
(* signup                                                                  *)

LoginTaken(l, others) == \E u \in DOMAIN users \cap others : Same(users[u].login, l)

(* Mutant of NewRow: a new account starts online. *)
NewRowOnline(l, p) == [login |-> l, password |-> p, online |-> TRUE]

NewRow(l, p) == [login |-> l, password |-> p, online |-> FALSE]

SignupUser(u, l, p) ==
  \/ DatabaseFails
  \/ /\ connection = "up" /\ LoginTaken(l, Users)
     /\ Answer("SIGNUP__EXISTING_LOGIN_ERROR")
  \/ /\ connection = "up" /\ ~LoginTaken(l, Users)
     /\ u \notin DOMAIN users
     /\ users' = Put(users, u, NewRow(l, p))
     /\ \/ AnswerLost
        \/ reply' = "SYS__OKEY" /\ UNCHANGED <<sessions, server, connection>>

Signup(u, l, p) ==
  /\ server = "running"
  /\ \/ /\ l \notin ValidLogins
        /\ Answer("SIGNUP__INVALID_LOGIN_ERROR")
     \/ /\ l \in ValidLogins /\ p \notin ValidPasswords
        /\ Answer("SIGNUP__INVALID_PASSWORD_ERROR")
     \/ /\ l \in ValidLogins /\ p \in ValidPasswords
        /\ SignupUser(u, l, p)

-----------------------------------------------------------------------------
(* login: the row is selected by login and password, then set online; the  *)
(* number of CHANGED rows tells whether it was offline before.             *)

MatchingUsers(l, p) ==
  {u \in DOMAIN users : Same(users[u].login, l) /\ Same(users[u].password, p)}

SetOnline(u) == ~users[u].online /\ users' = [users EXCEPT ![u].online = TRUE]

OpenSession(u, l, t) ==
  /\ t \notin DOMAIN sessions
  /\ sessions' = Put(sessions, t, [user |-> u, login |-> l])
  /\ reply' = "SYS__OKEY"
  /\ UNCHANGED <<server, connection>>

(* The column is set and the handler does not get the id: the answer of    *)
(* the update is lost, or reading and re-encoding the id throws although   *)
(* the connection is well (db_responder.cpp:156-160).                      *)
LoginUnheard(u) ==
  /\ SetOnline(u)
  /\ \/ AnswerLost
     \/ /\ reply' = "SYS__INTERNAL_SERVER_ERROR"
        /\ UNCHANGED <<sessions, server, connection>>

(* Mutant of LoginUser: the changed-row count is ignored. *)
LoginUserUncounted(l, p, t) ==
  \/ MatchingUsers(l, p) = {} /\ Answer("LOGIN__INVALID_DATA_ERROR")
  \/ \E u \in MatchingUsers(l, p) :
       /\ connection = "up"
       /\ users' = [users EXCEPT ![u].online = TRUE]
       /\ OpenSession(u, l, t)

LoginUser(l, p, t) ==
  \/ DatabaseFails
  \/ /\ connection = "up" /\ MatchingUsers(l, p) = {}
     /\ Answer("LOGIN__INVALID_DATA_ERROR")
  \/ \E u \in MatchingUsers(l, p) :
       /\ connection = "up"
       /\ \/ users[u].online /\ Answer("LOGIN__ALREADY_LOGGED_IN_ERROR")
          \/ SetOnline(u) /\ OpenSession(u, l, t)
          \/ LoginUnheard(u)

Login(l, p, t) ==
  /\ server = "running"
  /\ \/ /\ l \notin ValidLogins \/ p \notin ValidPasswords
        /\ Answer("LOGIN__INVALID_DATA_ERROR")
     \/ /\ l \in ValidLogins /\ p \in ValidPasswords
        /\ LoginUser(l, p, t)

-----------------------------------------------------------------------------
(* logout: no changed row is an internal error and keeps the session, and  *)
(* so does an update whose answer is lost.                                 *)

Online(u) == u \in DOMAIN users /\ users[u].online

SetOffline(u) == Online(u) /\ users' = [users EXCEPT ![u].online = FALSE]

(* Mutant of Logout: the session is not erased. *)
LogoutKeepsSession(t) ==
  /\ server = "running"
  /\ t \in DOMAIN sessions
  /\ SetOffline(sessions[t].user)
  /\ reply' = "SYS__OKEY"
  /\ UNCHANGED <<sessions, server, connection>>

(* Mutant of Logout: the session is erased before the database is asked.   *)
LogoutErasesFirst(t) ==
  /\ server = "running"
  /\ t \in DOMAIN sessions
  /\ sessions' = Remove(sessions, t)
  /\ reply' = "SYS__INTERNAL_SERVER_ERROR"
  /\ UNCHANGED <<users, server, connection>>

Logout(t) ==
  /\ server = "running"
  /\ t \in DOMAIN sessions
  /\ LET u == sessions[t].user IN
       \/ DatabaseFails
       \/ /\ connection = "up" /\ ~Online(u)
          /\ Answer("SYS__INTERNAL_SERVER_ERROR")
       \/ /\ connection = "up" /\ SetOffline(u)
          /\ \/ AnswerLost
             \/ /\ sessions' = Remove(sessions, t)
                /\ reply' = "SYS__OKEY"
                /\ UNCHANGED <<server, connection>>

-----------------------------------------------------------------------------
(* profile_set with the options pl (login) and pp (password); the other    *)
(* profile fields are free text.  An update that matches no row succeeds.  *)

Chosen(new, old) == IF new = Keep THEN old ELSE new

ClashesWith(u, l) == u \in DOMAIN users /\ l # Keep /\ LoginTaken(l, Users \ {u})

UpdateProfile(u, l, p) ==
  users' = IF u \in DOMAIN users
             THEN [users EXCEPT ![u].login = Chosen(l, @),
                                ![u].password = Chosen(p, @)]
             ELSE users

(* Mutant of CacheLogin: the session is not told about the new login. *)
CacheNothing(t, l) == UNCHANGED sessions

CacheLogin(t, l) == sessions' = [sessions EXCEPT ![t].login = Chosen(l, @)]

ProfileSet(t, l, p) ==
  /\ server = "running"
  /\ t \in DOMAIN sessions
  /\ LET u == sessions[t].user IN
       \/ /\ l = Keep /\ p = Keep
          /\ Answer("SYS__OKEY")
       \/ /\ l \notin ValidLogins \cup {Keep} \/ p \notin ValidPasswords \cup {Keep}
          /\ Answer("PROFILE__INVALID_DATA_TO_SET_ERROR")
       \/ /\ l \in ValidLogins \cup {Keep} /\ p \in ValidPasswords \cup {Keep}
          /\ {l, p} # {Keep}
          /\ \/ DatabaseFails
             \/ /\ connection = "up" /\ ClashesWith(u, l)
                /\ Answer("SIGNUP__EXISTING_LOGIN_ERROR")
             \/ /\ connection = "up" /\ ~ClashesWith(u, l)
                /\ UpdateProfile(u, l, p)
                /\ \/ AnswerLost
                   \/ /\ CacheLogin(t, l)
                      /\ reply' = "SYS__OKEY"
                      /\ UNCHANGED <<server, connection>>

-----------------------------------------------------------------------------
(* The process and the server object.  setup touches no row; stop resets   *)
(* the online column (and ignores the status sys_logout_users returns) but *)
(* not the sessions; only the end of the process empties the session map.  *)

Setup ==
  /\ server = "down"
  /\ server' = "ready"
  /\ connection' = "up"
  /\ UNCHANGED <<users, sessions, reply>>

Run ==
  /\ server = "ready"
  /\ server' = "running"
  /\ UNCHANGED <<users, sessions, connection, reply>>

LogoutUsers == users' = [u \in DOMAIN users |-> [users[u] EXCEPT !.online = FALSE]]

Stop ==
  /\ server = "running"
  /\ server' = "stopped"
  /\ (connection = "up" /\ LogoutUsers) \/ UNCHANGED users
  /\ UNCHANGED <<sessions, connection, reply>>

NoSessions == [t \in {} |-> PhantomSession]

ProcessEnds ==
  /\ server' = "down"
  /\ sessions' = NoSessions
  /\ connection' = "dead"
  /\ reply' = "none"
  /\ UNCHANGED users

(* main returns once is_run() is false *)
Exit == server = "stopped" /\ ProcessEnds

Crash == server \in {"ready", "running"} /\ ProcessEnds

-----------------------------------------------------------------------------
Init ==
  /\ users = [u \in {} |-> NewRow("", "")]
  /\ sessions = NoSessions
  /\ server = "down"
  /\ connection = "dead"
  /\ reply = "none"

Command ==
  \/ InvalidCommand
  \/ \E t \in Tokens : UnknownToken(t)
  \/ \E u \in Users, l \in Logins, p \in Passwords : Signup(u, l, p)
  \/ \E l \in Logins, p \in Passwords, t \in Tokens : Login(l, p, t)
  \/ \E t \in Tokens : Logout(t)
  \/ \E t \in Tokens, l \in Logins \cup {Keep}, p \in Passwords \cup {Keep} :
       ProfileSet(t, l, p)

Next == Command \/ Setup \/ Run \/ Stop \/ Exit \/ Crash

(* The server of example/server.cpp: one run per process. *)
Spec == Init /\ [][Next]_vars

-----------------------------------------------------------------------------
(* Properties.                                                             *)

(* A session that a login opened, as opposed to one that the failed        *)
(* authentication of handler.cpp:21 left behind.                           *)
RealSessions == {t \in DOMAIN sessions : sessions[t].user # NoUser}

(* While the server runs, whoever holds a session is marked online, so     *)
(* that the changed-row count of login_user refuses a second login         *)
(* (db_responder.cpp:156-164).  The one exception is a logout whose answer *)
(* was lost: it keeps the session (logout_handler), it happens at most     *)
(* once in a process, and nobody logs in after it.                         *)
SessionMeansOnline ==
  server = "running" =>
    /\ connection = "up" => \A t \in RealSessions : Online(sessions[t].user)
    /\ \A t1, t2 \in RealSessions :
         ~Online(sessions[t1].user) /\ ~Online(sessions[t2].user) => t1 = t2

(* While the server runs no user holds two sessions: login.md hands out    *)
(* one token per login and a second login is refused.                      *)
OneSessionPerUser ==
  server = "running" =>
    \A t1, t2 \in RealSessions : sessions[t1].user = sessions[t2].user => t1 = t2

CacheAgrees(t) == Same(sessions[t].login, users[sessions[t].user].login)

(* The login cached in a session is the login of the user's row, although  *)
(* login caches what was typed and profile_set writes the two in different *)
(* places (login_handler.cpp:41, profile_set_handler.cpp:39-45): the same  *)
(* text to the database, not always the same characters.  A profile_set    *)
(* whose answer was lost leaves one cache behind, and only one.            *)
CachedLoginIsFresh ==
  /\ \A t \in RealSessions :
       /\ sessions[t].user \in DOMAIN users
       /\ connection = "up" => CacheAgrees(t)
  /\ \A t1, t2 \in RealSessions : CacheAgrees(t1) \/ CacheAgrees(t2) \/ t1 = t2

Held(u) == \E t \in DOMAIN sessions : sessions[t].user = u

(* Users marked online although nobody holds a session of theirs: every    *)
(* login of theirs is refused as "already logged in".                      *)
LockedOut == {u \in DOMAIN users : users[u].online /\ ~Held(u)}

(* A user is locked out by the end of a process that did not reset the     *)
(* online column, or by a login of its own that was answered with an error *)
(* after the column was set; no logout, no other command, no failing       *)
(* statement and no stop does it.                                          *)
LockoutsHaveACause ==
  [][LockedOut' \subseteq LockedOut \/ ProcessEnds \/ \E u \in DOMAIN users : LoginUnheard(u)]_vars

(* The promise of the account system, one state per user; an account is in *)
(* while its online column and a session agree that it is.                 *)
PresenceOf ==
  [u \in Users |->
     IF u \notin DOMAIN users THEN "unknown"
     ELSE IF users[u].online THEN (IF Held(u) THEN "in" ELSE "lost")
     ELSE (IF Held(u) /\ server = "running" THEN "stale" ELSE "out")]

Presence == INSTANCE UserPresence WITH presence <- PresenceOf

(* The two copies of "is logged in" - the column and the session map -     *)
(* move together, or apart in the two ways UserPresence names, whatever    *)
(* fails: every step is a step of UserPresence.                            *)
ImplementsPresence == Presence!Spec

(* What "the user is already logged in" says (the description of           *)
(* LOGIN__ALREADY_LOGGED_IN_ERROR): somebody holds a session of that user. *)
(* A server that starts has no sessions, so it finds nobody marked online. *)
AlreadyLoggedInIsTrue == server = "ready" => LockedOut = {}
=============================================================================
