# FarconN in TLA+

A verification project for the FarconN text-chat server (C++17, Windows, MySQL).
TLC model-checks small instances; TLAPS proves the main results for every value of
the constants. Paths below are relative to the repository; `db_responder.cpp` and
`db_queries_generator.cpp` are in `include/server/src/`, handlers in
`include/server/src/handlers/`.

## 1. The system

A client sends a line (`command -options params`), the server answers a line with a
status. One process holds one `server` object:

| part | state it keeps | operations | meets the others through |
|---|---|---|---|
| accounts and sessions (`signup`, `login`, `logout`, `profile_set` handlers, `server_middleware`) | table `users` (with the column `online`), map `sessions` | the commands, `refresh` on stop | both copies of "is logged in" must agree; every other command takes its user from `sessions` |
| invitations and contacts (`invite`, `contact_delete`, lists) | tables `requests`, `contacts`, neither with a key | create, accept, reject, cancel, delete, four selections | chats ask whether two users are contacts |
| chats (`chat_create`, `chat_add`, `chat_leave`, `chat_post`) | tables `chats` (with the column `size`), `users_in_chats`, `messages`; files on disk | the commands | contacts, users |
| listings (`chats_list`, `chat_party_list`, `chat_messages_list`, `profile_get`) | none | read-only | the tables |
| search (`search_handler`, `query_ranking_estimator`) | a cache in the session | `search` with offset and limit | contacts, requests, logins and names change under the cache |
| database access (`db_responder`, `db_queries_generator`) | a pool of one connection | one method per statement group | every handler |
| pipeline (`server`, `server_networking`, `client_networking_proxy`) | queue `commands_to_handle`, map `clients`, two flags | accept, receive, handle, send, stop | threads and event callbacks |
| socket polling and framing (`networking_storage`, `networking`, `client_networking_base`) | two maps of poll descriptors, per-client send queue | add, remove, poll, send, receive | a background thread, every client's threads |
| `multithread_context` | worker threads, run flag | run, stop | base class of five of the parts |
| protocol (`protocol_interpreter`, `command_builder`) | none | parse, build | both ends of a connection |
| console client (`client`, `client_networking`) | the queue of typed lines, flags | setup, run, stop | the server, over one connection |
| configuration, logging, encodings, token generator, `help` | files | input and output | - |
| `third_party/` | vendored libraries | - | - |

**Threads.** `server::working_flows_count` is 1 (`server.cpp:5`): a single thread runs
`handle_command`, so two handlers never interleave. What can come between two
statements of one handler is a failing statement or the end of the process. `stop`
joins that thread before it calls `refresh`. Receiving, sending, accepting and polling
run in threads of their own. The sockets are blocking: a `recv` that finds nothing and a
`send` to a peer that does not read wait, and whoever needs that thread waits with it.

**Failure.** A statement may throw `sql::SQLException`; the method returns an error and
the handler answers 500. A statement outside `setAutoCommit(false)` commits by itself,
and may throw although it took effect, when its answer is lost; the connection is lost
with it, and the pool has no other. What throws while a connection is taken or put back
passes the `catch` of the method: the client is told that the command was invalid, and
the next handler waits for a connection for ever. The process may end at any time: the
tables stay, the maps go.

**Text.** The columns have no collation of their own, so MySQL compares logins, passwords
and ids without regard to case; comparisons in C++ (a session's id with a typed one, the
estimator) are exact.

**What is hard here**: two copies of one fact (online column / session map, size column
/ membership rows, cached login / login column), tables without keys, handlers of two
statements without a transaction, a limit checked on one of two ways in, and a restart
that resets less than it should. `PROJECT.json` lists each hazard at its line.

What makes each part correct:

- accounts: whoever holds a session is online and holds one session; nobody is online
  without a session except through the end of a process or a login of his own that
  took effect in the database and failed after that.
- relations: between two users there is at most one row, whatever order invitations
  come in; contacts arise only from accepted invitations; lists divide the users.
- chats: `size` counts the members; private chats are pairs and unique per pair; limits
  hold; a chat nobody is in exists only after a fault; messages live and die with it.
- pipeline: commands of a client are answered in order and to that client, the client
  map is exactly the live connections, lost ones go, nothing is handled after stop.
- polling: live sockets stay in the descriptor maps, removed ones stay out, a worker
  reads only when there is something, and whatever arrives or is pushed gets through.
- listings: whoever pages through a chat and then asks for what is new sees every
  message that is later than those it has seen; the three listings tell the same about a
  chat.
- search: the cached pages are the matches at the time of the query, best first.
- database: a transaction is stored whole or not at all, every method finds a clean
  connection, and a failing statement costs no connection.
- protocol and framing: what the builder builds, or a user types as the manual says, the
  interpreter reads back; bytes come in order however they are cut.
- contexts, client: `stop` returns and no worker runs afterwards; a lost connection ends
  the client; typed lines are sent in order.

## 2. Modules

| module | models | abstract specification | proofs |
|---|---|---|---|
| `Accounts` | users, sessions, life cycle of the process | `UserPresence` | `AccountsProofs` |
| `Relations` | requests, contacts and the selections on them | `ContactBook` | `RelationsProofs` |
| `Chats` | chats, members, messages, files | `ChatRooms` | `ChatsProofs` |
| `ServerPipeline` | connections, client map, command queue, handler thread, stop | `RequestReply` | `PipelineProofs` |
| `NetworkingStorage` | descriptor maps and the threads that poll | - | `StorageProofs` |
| `ChatMessages` | `Chats` with message times and a reader of the listings | - | `ChatsProofs` |
| `Search` | `Relations` with names, ranking and the cache of a session | `Edits` (an edit distance) | `RelationsProofs` |
| `Protocol`, `Wire` | lines as texts; lines on their way through a connection | - | `WireProofs` |
| `Database`, `ServerStop` | connection pool and transactions; `server::stop` joining its threads | - | `ServerStopProofs` |
| `ClientProgram` | the threads of the console client | - | `ClientProofs` |

`ChatMessages` extends `Chats`, `Search` extends `Relations`, `ServerStop` extends
`Database` and `Wire` extends `Protocol`: the steps of the extended module are steps of
the extending one, together with what they do to its own variables. The modules
whose names begin with `MC` give TLC its symmetry sets and the constants a `.cfg` cannot
write. Operators whose comment starts with "Mutant of" are deliberately wrong variants of
the operator that follows; they are never used by a specification, and show that each
property can fail. The property of a run that ends in `Inv` or `TypeOK` is a conjunction
of named parts, each with a comment of its own.

### Accounts

`users` is a partial function from ids to rows (login, password, online), `sessions` one
from tokens to the user id and the cached login. An action is a whole handler: format
validators (the constants `ValidLogins`, `ValidPasswords`), statement, answer. Ids and
tokens are chosen among those not in use, as `token_generator` does with its predicate.
`UnknownToken` is the failing branch of `try_authenticate_user`, which inserts an empty
session through `operator[]`. `Stop` is `server::stop` (the status of `refresh` is
ignored, so the reset may be lost); `Exit` and `Crash` are the two ways a process ends.

`connection` is the only connection of the pool. A failing statement has no effect
(`DatabaseFails`) or an effect nobody hears of (`AnswerLost`, which kills the
connection); after either the connection may be gone, and then no statement succeeds
until another process sets up. `LoginUnheard` is the login whose update counted and whose
user id did not come; reading and re-encoding the id may throw with the connection in
order, so this one can happen more than once. `Same` is the comparison of the database:
`Fold` maps a text to the form it is compared in. A login finds its user by `Same` and
caches what was typed, so `CachedLoginIsFresh` is stated up to case.

`UserPresence` has five states per user - unknown, out, in, lost, stale - and the moves
between them; the mapping `PresenceOf` reads a user as *lost* when the column says online
and no session of the user exists, and as *stale* when a session of a running server is
left of a user who is marked as out, which is what an unheard logout leaves.

### Relations

A table without a key is a count of rows per ordered pair. `InviteAccept` is the first
statement of `handle_accept`; the invitation it deleted waits in `accepting` until
`CreateContact` (second statement), `CreateContactFails` or `Crash`. A statement that took
effect is `Committed`: answered OK, or with an error because its own answer was lost
(`AnswerLost`, with the connection). `registered` stands
for table `users`, to which the foreign keys refer. The user of a command is any
registered id, or the empty id of a session that a failed authentication left behind.
Whether two ids are the same is asked twice: the database ignores case, the `SELF` check of
`get_users_relations` does not. Whoever invites himself in other letters gets a row with
himself, can accept it and is then his own contact: `exact` in `UsersRelations` says
whether the letters agree, and the properties count rows with oneself, too.

`ContactBook` has invitations and friendships only, of one or two users; an invitation
being accepted still counts as an invitation there.

### Chats

`InsertChat` is the first statement of `create_chat`; the ids it was created for wait in
`creating` until `InsertMembers` or a fault. A statement that took effect may be answered
with an error here as well (`Committed`, `CreationUnheard`); what a lost connection does to
later statements is left to `Accounts` and `Relations`, since a statement may fail at any
time anyway. `chat_add` and `chat_leave` are transactions
and single steps: a rolled-back one is `DatabaseFails`. `SaveFile` may store the file,
silently not store it, or throw out of the handler (`create_directories`); the message
row follows from `posting`. `contacts` and `registered` are kept by the other modules
and change here by `ContactsChange` and `Register`, between two commands; the relation of a
user with himself, or with an id of his in other letters, may be either
(`MayBeContacts`, `MayBeStrangers`). Content and
titles are "fits"/"oversized" and "valid"/"malformed". `ChatRooms` has rooms that open
with all members and close with the last (a private one with either).

`Idle` in `Relations` and `Chats` says the single handler thread is between commands.

### ServerPipeline

A *peer* is one TCP connection. Its `stage` is what the server has made of it: waiting in
the backlog, accepted (`registering`, between `accept` and the insertion into `clients`),
`serving` by its worker thread, `failing` (the worker has ended; the thread of the error
event joins it and erases the entry), `erased`. `sock` is its SOCKET number, which the
operating system may hand out again after `closesocket`; `clients`, the map, is keyed by
these numbers. `commands` is `commands_to_handle`, `handling` the command taken from it,
`target` the proxy pointer that `clients[...]` has returned. The lookup and
`push_message` are two steps, because the handler thread holds no lock: the entry may go
in between, and then the call either dies or is lost (undefined behaviour). A lookup
while another thread is inside `insert` or `erase` may fail (`MapIsChanging`); a number that
is not in the map gives a null pointer and ends the process.

Assumed of Winsock: a send of no bytes fails after a reset, and succeeds after an orderly
close of the peer; the first send of data after an orderly close provokes the reset; an
orderly close alone raises no read event. `Receive` is a round of the loop of
`receive_message`: it takes any prefix of the waiting messages, as `recv` does, appends it
to `piece` and hands the piece over, or, when the buffer was full, goes into `recv` again
(`ReceiveMore`; `call` says in which call a worker is). A piece is read as a C string, so
it may be empty, and `interpret` throws on it. `ReceiveEnd` is a `recv` that returns 0: a
worker that was in `recv` when the peer closed hands over what it has, which is nothing
at all if its first flag was the uninitialized one. `SendWaits` is a `send` to a peer
that does not read. A message is a text, blank, or *void*, a search for nothing, which
ends the process as soon as somebody is to be ranked (`SearchForNothing`). What any other
command does to the tables is in the other modules; here it may never return, because the
only connection to the database is lost (`HandlerHangs`). Blank and void messages, full
buffers, deafness and bad entries in the descriptor maps (`blind`: a number used before
may not be polled) are things of `OddPeers`.

`RequestReply` shows the server to one client at a time: numbered requests are answered
in order, an answer may cover several requests that arrived in one piece, and while the
client is connected to a running server that does not stall an unanswered request is
answered in the end. A client is *stalled* while the handler or its worker waits, it does
not read, or its socket is not polled; others are answered nevertheless, unless it is the
handler that waits.

### NetworkingStorage

Both maps of poll descriptors with all threads that write them: the poller, each client
worker (it calls `update()` after every `recv` and `send`), the acceptor. `update_descs`
copies the descriptors under one lock (`Copy`) and polls and writes back under another
(`PollAndWriteBack`). The write-back uses `operator[]`, so it can leave an all-zero entry
for a socket that was removed meanwhile; such an entry polls socket 0, that is, nothing.
`add_socket` inserts a descriptor with an uninitialized `revents`: the model takes either
value. `recv` and `accept` block while nothing is there, `send` while the peer does not
read (`deaf`). `receive_message` calls `recv` again after a full buffer, without a look at
the flag (`recvMore`), and waits there for more or for the end of the stream (`ended`). The
properties name these waits and say that there are no others. The handler thread pushes
answers only to clients that have sent something (`asked`), or, as `ServerPipeline`
shows, to a new connection under an old number.

A new socket whose number still has an all-zero entry keeps that entry (`insert` does
nothing) and is never polled. The polling properties are therefore stated for the first
socket of a number (`FirstOfItsNumber`); nothing in the repository says more.

### ChatMessages

`now` is the clock of the database in milliseconds, which may also be set back, `times` the
column `time`, `late` the messages that were posted at or before a time already in their
chat. A step of
`Chats` is `Write`; `Stamp` gives an inserted message the time of its statement, and lets
no message through that violates the unique index over sender, chat and time (the insert
then fails, which is `DatabaseFails` or `PostFileMessageFails` of `Chats`). The reader is
one client that opens a chat with `-any`, counts pages on from the first one until a page
is short, and then asks with `-new` for what is later than the last message it knows. Each
of these is one handler; others post, join, leave and fail between them. Rows of one time
come in any order, and in another one the next time. `CloseChat` is the user turning away.

The manual says that `-new` selects all new messages (`docs/chat_messages_list.md:14`). The
code does not keep that: the comparison is strict, so of two messages of one millisecond
the second is never new to a reader who knows the first, and neither is one that comes
after the clock was set back. `ReadersMissOnlyTheLate` says that these are the only ones.

### Search

A text is a sequence of characters. `RawRanking` is the table of the estimator: it has one
row and one column per character, so the first row and column serve as borders
and the first characters are never compared; `Edits` is a reference definition, the
least number of edits over all ways to pair the characters in order. `SearchAfresh` ranks
all strangers and stores the result in the session; `SearchCached` answers the same query
from there, even when its statement failed the first time (`SearchFails`). An empty
query makes a table without columns and ends the process as soon as there is a user to
rank (`SearchForNothing`; the outcome of that access is undefined, the build aborts or
faults). Users sign up with a login that is their name as well; `ProfileSet` changes login,
name or both, and the ranking uses both. `touched` collects whose login, name or relation
to the searcher has changed since.

The model follows the sessions of `Searchers` only and changes relations of pairs with a
searcher only (`RelationsChange`): rows between two others are in no selection of
`search`. The empty id among them is the session of a failed authentication.

### Protocol and Wire

`Interpret` and `Build` are functions on sequences of characters, one operator per method.
The line feed is left out; neither a console line nor an answer contains one. `Wire` sends
built lines through one connection: `SendPiece` is a round of the loop of `send_message`,
which hands over as many bytes as the socket takes, `Recv` a round of the loop of
`receive_message`, which writes to the beginning of a string of `BufferSize` characters,
reads it up to a null character, and goes on while the buffer was full. Nothing marks the
end of a line, so two lines may come out as one message and one line as two. After a
full buffer the loop waits in `recv` although the message may be complete, and the next,
shorter `recv` leaves the end of the old one in the buffer: `BytesComeInOrder` therefore
holds only until some `recv` has filled it. Failing sends and lost connections are in
`ServerPipeline` and `ClientProgram`.

### Database and ServerStop

A method takes a connection out of the pool, runs its statements, with or without a
transaction, and puts the connection back. `phase` says where it is. Statements and
`commit` are inside the `try` block (`StatementThrows`, `CommitThrows`: caught, rolled
back, answered with an error); the rest throws out of the method (`Throws`), and the
connection is destroyed with the local variables. A throwing call may have taken effect:
the answer of the database is lost then. `ServerStop` adds who calls: the handler thread
in commands of up to `MaxCommandCalls` calls, and `server::stop`, which joins the
handler thread, then the acceptor, and calls `sys_logout_users` (`Refresh`). The
acceptor enters `accept` when the last poll saw a connection; another thread's poll can
set that flag again between its check and its `accept` (`Poll`), and the next `accept`
blocks. The entry of the listening socket starts with an uninitialized flag, either
value of it.

### ClientProgram

`main` sets up, runs and polls `is_run`; a detached thread reads lines and queues them; the
worker of `client_networking_base` looks at the connection, reads and sends; `client::stop`
is called by the console handler and, on a new thread, by the error event (`stopper`).
Both calls may stand in `join` on the same `std::thread` (`StopJoinsTwice`). An answer is
received whole and read with those that came in the same piece; whether a piece fills the
buffer is a choice. `run` sets `is_client_running_` last: an error event before that finds
the client not running and does nothing (`missed`), and nothing tells it again. The
worker's first look at its flag may find the uninitialized one (`looked`, `FirstReadWaits`),
and `send` waits while the server does not read (`SendWaits`, `ServerReads`); a `stop` that
joins such a worker waits with it, which `StopsGetPastTheJoin` says.

## 3. Runs

| run | question | bounds | result |
|---|---|---|---|
| `accounts` | do the two copies of "logged in" agree, through faults, lost answers and crashes? | 2 users, 4 logins (1 malformed, 2 equal up to case), 3 passwords (1 weak), 2 tokens | holds, but for what one unheard login, logout or `profile_set` leaves |
| `accounts_crash` | does "already logged in" mean somebody is? | 2 users, 2 logins, 2 tokens | violated: crash, restart, login |
| `relations` | one row per pair, agreement of the lists, `ContactBook` | 3 users and the empty id | holds |
| `chats` | size, uniqueness of private chats, orphans, `ChatRooms` | 3 users, 2 chats, 1 message, limit of 2 members | holds |
| `messages` | does a reader see all messages, do the listings agree, who posts, which files stay? | 2 users, 1 chat, 2 messages, 2 times, pages of 1 | holds, but for messages of one millisecond and late ones |
| `search` | is the ranking an edit distance, are the pages the matches? | 3 users, 1 searcher and the empty id, 3 queries, pages of 1 | holds, but for users changed since |
| `wire` | is what was built or typed read back, do bytes come in order, are lines handled? | words of up to 3 characters, 4 lines to send, 2 at a time, buffer of 3 | holds until a `recv` fills the buffer |
| `database` | transactions, clean and lost connections, does `stop` end? | 2 connections, 3 kinds of methods, 2 calls per command, 1 incoming connection | holds but for the two waits it names |
| `client` | order of lines, a worker for a running client, does a loss end it, does `stop` get past its join? | 2 lines, 2 answers | holds but for a loss before `run` ends and the waits in `recv` and `send` |
| `pipeline` | is the client map right, do answers go home, what ends the process, is stop final, are lost clients removed; `RequestReply` with its liveness | 2 connections, 2 numbers, 1 message of the one, 2 of the other, which may do everything odd | holds; liveness but for the waits it names |
| `pipeline_reused_socket` | does an answer reach the one who asked? | 2 connections, 1 number, 1 message each | violated: the asker left, its number was given away |
| `polling` | do live sockets stay polled and removed ones out, does `recv` block, does everything get through? | a client number used twice, the listener, the poller | holds but for the waits it names |

Why these bounds suffice for the question: two users and two tokens are needed for
"another session of the same user" and "the same login twice"; a phantom session takes a
token, beside at most one real one, and the proofs are for any number. Two logins that
differ in case only, and a third that does not, give every way to log in as somebody in
other letters and to take a login that is in use. Three users are needed for crossed
invitations with a third party and for a public chat that meets the limit of two
members; two chats for "a second private chat of the same pair" and for a deletion that
must not touch the other chat. In `chats` one message is enough because no statement
relates two messages there (times are in `ChatMessages`). `MaxParticipants` and
`MaxChats` are the code's 65536 and 512, made small.

Two connections are needed for an answer to go to the wrong one, two messages of one of
them for an order of answers and for a piece of two messages; with two SOCKET numbers a
second connection can also take the number of the first. One peer that may be odd
(`OddPeers`) is enough to meet the other one, an ordinary one of one message
(`TersePeers`), in the queue. In `polling` the worker and the poller
hold copies of different age, which is what a write-back can do wrong; the proofs are for
any number of clients. `MaxUnread` is 1 because `recv` takes all that is there; `MaxOpens`
is 2 because a third use of a number meets nothing that the second does not.

In `messages` two messages of two users at two times give every order of two pages, a
post between them, two posts of one millisecond and the unique index; one chat is enough
because every selection names its chat. In `search` the names are short and alike, so
that every query has a user that matches by login, one by a new login or name only, and
one that does not match. The view `AllButReply` leaves out the last status, which no
action and no property of that run reads. In `wire` a line is shorter than, as long as,
or longer than the buffer, and the code's 5120 plays no other part. In `database` two
connections show a loss that leaves another one; the code has one, and the proofs are
for any number. In `client` two lines and two answers are enough for an order and for
two answers in one piece.

`MaxCommands`, `MaxUnread`, `MaxOpens`, `MaxTime`, `MaxLines`, `MaxCommandCalls`,
`MaxIncoming`, `MaxTyped` and `MaxAnswers` are the bounds on counters; `Searchers`,
`Renamers`, `TersePeers`, `OddPeers` and `Carried` bound who acts and what is sent. All
state spaces are explored in full. The runs `pipeline`, `pipeline_reused_socket`,
`wire`, `database` and `client` disable the deadlock check, because there the process
may have died, ended or stopped, or all lines are sent and nobody says any more.

The two violated properties are disagreements of the code with its own words; each is a
finding in `PROJECT.json` with the quoted line.

Fairness. `Accounts`, `Relations`, `Chats`, `ChatMessages` and `Search` assume none:
commands come from outside. Elsewhere each thread is a loop that wakes up after one
millisecond until its flag is set (`multithread_context::run_context_loop`), and never
waits for a lock that another thread keeps; so weak fairness of a thread's steps is what
the scheduler of the operating system gives. A thread that waits in `recv`, `send` or
`accept`, or for a connection to the database, has no step that could be fair. In
`ServerPipeline` and `NetworkingStorage` that is the handler thread, each worker, the
acceptor, the poller and the error thread; a worker's reading, writing and looking at
its connection are fair one by one, because one round of `working_context` tries all
three. In `ServerStop` it is the handler, the acceptor and the two joins, and the
database answers or fails in the end. In `Wire` `send` takes bytes in the end and the
receiver's worker runs. In `ClientProgram` it is `main`, the worker and both calls of
`stop`. Nothing is assumed of peers, users, the network, Windows or the one who calls
`stop`: a peer may stop reading for ever or leave a worker waiting for the rest of a
message, and where that holds something up the property names it.

## 4. Proofs

All theorems hold for every value of the constants that satisfies the named assumption
of the module (`AccountsConstants`, `RelationsConstants`, `ChatsConstants`,
`MessagesConstants`, `SearchConstants`, `WireConstants`, `PipelineConstants`,
`StorageConstants`, `DatabaseConstants`, `StopConstants`, `ClientConstants`): the
special values and ids differ from the ordinary ones, the valid formats are among the
formats, sets whose members are counted are finite, counters are natural numbers, the
special characters of the protocol are characters and the null character is none, names
and logins are not empty, and the member limit is at least 2, since `chat_create` makes
pairs without looking at it.

- `AccountsProofs`. The inductive invariant joins the type invariant,
  `SessionMeansOnline`, `OneSessionPerUser`, `CachedLoginIsFresh` and "a process that has
  not run has no sessions". A lost answer breaks one of the agreements for one session,
  and with it the connection dies; so while the connection is up all agree, and
  afterwards only the handlers without a successful statement are left, which break no
  other. The parts need each other: a login is refused *because* the user
  is online, so uniqueness needs `SessionMeansOnline`; a logout puts the user out and
  removes one session, so `SessionMeansOnline` needs uniqueness; a cached login stays
  fresh because only the one session of a user changes it. `Refinement` shows that each
  step is a step of `UserPresence` or leaves `PresenceOf` alone; `LockoutsAreExplained`
  that only the end of the process or a login of the user's own makes a user lost.
- `RelationsProofs`. `AtMostOneRelation` with the types is inductive: an insert happens
  only when the relation is NONE, an accept turns one row into one waiting acceptance.
  From it follow that two users find each other by exactly one selection
  (`EveryUserInOneList`), that a relation ends only by a command that says so, by a cut
  acceptance or in the one deletion whose answer is lost (`RelationEndsKnowingly`), and
  the refinement of `ContactBook`. Rows with oneself are counted in all of it.
- `RelationsProofs`, second part: `Search`. `RawRankingIsLeast` says of the table of the
  estimator that its cell (i, j) is the least cost of all ways to pair the first i with
  the first j characters in order (both without their first one, the border), by
  induction over the cells in the order they are filled: a cheapest pairing ends by
  leaving out the last character of one text, of the other, or by pairing both
  (`NeighboursDone`). So the table computes `Edits` for texts of every length. On it rests
  `SearchInv`: the rows of a session are ranked and have the matches of the query but for
  `touched` users (`ResultsAreCurrent`), and what was shown is the front of the rows up to
  the offset (`PagesAreShown`). A user becomes or ceases to be a match only by a step that
  touches it. `registered` is finite in every state, hence there *is* a sequence of rows
  with every match, and pages to the end of it have shown all (`PagersSeeTheMatches`).
- `ChatsProofs`. `ChatsFit` (size, pair, limit for chats with members), `CreationFits`
  (the same for the members a half-created chat will get, and no private chat of that
  pair yet), `PosterIsMember`, uniqueness of private chats and `MessagesAreReadable`
  are inductive together: what `chat_leave` deletes is decided by `size` alone, so
  everything rests on `ChatsFit`, and that on what a creation in progress inserts.
  `OrphansOnlyByFault` and the refinement of `ChatRooms` add `CreationShape`: a public chat
  is being created for one user, a private one for two, which is how rooms open.
- `ChatsProofs`, second part: `ChatMessages`. `Reading` says of a reader with pages to
  go that every message it should see has been shown, shares its millisecond, is `late`,
  or has at least `offset` later ones. The last part is what makes paging work: a
  message alone with its millisecond stands at one place in every order the database may
  choose, the number of later messages (`PlaceOfTheAlone`), and a post can only push it
  back (`RankGrows`), never before the page to come. With the clock set back, a new
  message that is not after all others is `late` by definition, and one that is comes
  first. `ReadersMissOnlyTheLate` follows for any page size and any number of messages;
  so do `ListingsAgree` and `PostsAreSound`.
- `PipelineProofs`. The heart is `KnowsSender`: the number in a queued command is that of
  its sender or the sender has been erased. It needs `SocketsAreOwned` (no two live
  connections have one number) to survive an accept, and gives, with
  `ClientsAreTheProxies`, that the pointer the handler thread holds is the sender's or
  the sender is gone (`TargetIsRight`). `DeathHasACause` follows because a number can be
  missing from the map only after a reset (`LossesAreReal`), and because a command made of
  no message comes from a `recv` that the peer's close has ended.
- `PipelineProofs`, second part: the safety of `RequestReply`. `InOrder` follows a request
  through all the places it may be in - the socket, the queue of its client, the command
  queue, the hand of the handler thread, the outbox: in each of them, and from each to the
  one before, the requests of a peer stand in the order in which they were sent, and
  all of them come after the last one answered. So every answer that reaches its peer is
  that of a request sent and not yet passed, and every step of the pipeline is a step of
  the abstract service or none (`AnswersInOrderOfRequests`), for any number of commands,
  peers and numbers.
- `WireProofs`. `WInv` adds to `ReceptionInv` that a receiver, until some `recv` fills the
  buffer, starts with an empty one and nothing in its hands, so that what one `recv`
  brings is the whole message (`Collected`); bytes come in order for every size of the
  buffer. `LinesAreReadBackAlways` says that the interpreter reads a built line back just
  if the command is reversible, and any line typed as the manual says, for texts of
  any length over any characters. A text is *solid* when the interpreter adds it, as it
  stands, to whatever word it is in (`Solid`): characters without spaces are, a text in
  brackets is, and what the builder or the user makes of a word is. A line of solid
  words with gaps between them is read to a state with exactly these words (`Done`); one
  with an empty word to a state with fewer (`Short`), which is the "only if". Inductions
  over texts are inductions over a *set* of numbers or of texts, from the fact that a
  nonempty set of numbers has a least one, because the provers cannot instantiate the
  library's theorems about predicates.
- `StorageProofs`. `OpenSocketsArePolled` is inductive with the types and
  `UnusedIsUnknown` (a number never used is in no map and no copy), since no operation
  but `remove_socket` takes an entry away or changes an fd. `RecvDoesNotBlock` needs
  `ResultsAreTrue`: a positive flag of a client that has asked is true, or its worker is
  still before the write-back of its own `update()`, whose copy contains the socket
  (`OwnUpdateCovers`), or it is in the `recv` after a full buffer, which an `update()`
  follows.
- `ServerStopProofs`. The invariant says for each `phase` of a method in which mode the
  connection it holds is, what is pending and what is stored. `AllOrNothing` and clean
  pooled connections follow for methods of any number of statements; that every lost
  connection has its exception is a count over finite sets: one step loses at most one,
  and then `thrown` grows. `refresh` uses the database only after both joins.
- `ClientProofs`. `Lines` gives the order of what is sent for any number of lines;
  `RunningClientsWork` needs `StopHasACause`: when the worker is told to leave, the
  `stop` of the error has begun or was missed, another `stop` is under way, or the
  client has ceased to run.

What the modules assume of one another. `Relations`, `Chats` and `Search` have users and
contacts that others change, and commands whose user comes from a session. Each
assumption is a theorem about the module it is made of, stated with the assuming module
instantiated over an otherwise empty state: `OthersSeeSignups` (the domain of `users` in
`Accounts` moves by `Register` of `Relations` only), `ChatsSeePairs` (the friendships of
`Relations` move by `Register` and `ContactsChange` of `Chats` only; it needs the
refinement of `ContactBook` and that relations join registered users) and
`CommandersAreRegistered` (a session has a registered user or the empty id). In the
other direction, `SearchKeepsTheBook` and `TimedChatsAreRooms` say that the extending
modules, with their sessions, clock and reader, still implement the abstract
specifications of the modules they extend.

The theorems on `PrivateChatsHaveTwo`, `ParticipantsLimit` and the type invariants of the
first five modules are of properties that no run names, because other properties of the
runs contain or outdo them.

Only model-checked: liveness, that is `LinesAreHandled`, `LostClientsAreErased`, the
fairness part of `ImplementsRequestReply`, `TransfersHappen`, `CallsReturn`, `StopEnds`,
`LossEndsTheClient` and `StopsGetPastTheJoin`. Liveness under fairness and ENABLED are out
of the prover's reach. All other properties of the passing runs are theorems.

## 5. Plan

Done: the modules of section 2, with their abstract specifications, runs and proofs.

What the components assume of one another is proved (end of section 4), so no module
composes all of them for TLC: the product of their states is far out of its reach, and
with one handler thread a step of the product is a step of one of them. Left is the same
for the threads: that the steps of peers and acceptor in `ServerPipeline` are what
`NetworkingStorage` lets a worker see, which needs a common model of the socket numbers.

## 6. Not modelled

- `help`, configuration of server and client, logging, encodings and the token generator:
  input and output without state that a property could be about. Tokens and ids are
  values that are not in use.
- Free-text profile fields, `profile_get`, and the wording of answers.
- Paging through `chats_list` and `chat_party_list`: their selections have a limit but no
  order (`db_queries_generator.cpp:656`, `:672`), so nothing can be said of two pages.
- Vendored libraries are taken as their documentation describes them. The database is its
  tables, its statements and the possibility that any of them fails.
- A `WSAPoll` that fails: in `NetworkingStorage` it polls whatever it is given. Failing
  sends and lost connections are in `ServerPipeline` and `ClientProgram`, not in `Wire`.

Seen in the code and modelled as it is, without a run of its own:

- `contacts_list` joins the users with both columns of the contacts, so that contacts of
  others can be listed (`db_queries_generator.cpp:397`, `ContactsList`);
- ids and logins are compared without regard to case by the database and exactly by the
  server, so a user can invite and befriend himself by an id in other letters
  (`db_responder.cpp:234`), and the cached login may differ from the stored one;
- a login whose answer is lost locks its user out until a server stops cleanly
  (`db_responder.cpp:156`), and after any lost connection the handler thread waits for
  ever (`:1068`);
- `-new` does not list all new messages (`db_queries_generator.cpp:636` against
  `docs/chat_messages_list.md:14`);
- a message that fills the buffer of `recv` exactly, or a peer that does not read, keeps a
  worker waiting (`networking.cpp:68`, `:23`); a search for nothing ends the process
  (`query_ranking_estimator.cpp:15`);
- the limit of joined chats is not looked at in `chat_add` (`chat_add_handler.cpp:43`);
- a failed authentication leaves an empty session (`handler.cpp:21`);
- a file that could not be written is posted all the same (`db_responder.cpp:900`);
- a client whose loss comes before `run` has set its flag runs for ever without a worker
  (`client.cpp:34-36`), and an orderly close by the server is noticed only when a line is
  sent.

## 7. Running

    tlc -workers 2 -config MCChats.cfg MCChats
    tlapm ChatsProofs.tla
