------------------------------ MODULE Database ------------------------------
(***************************************************************************)
(* db_responder: every method takes a connection out of the pool, runs its *)
(* statements and puts the connection back.                                *)
(*                                                                         *)
(* The statements, and commit, are inside a try block; taking and giving   *)
(* back, rollback and setAutoCommit are not.  What they throw leaves the   *)
(* method, and the connection with it: it is closed, its open transaction  *)
(* is rolled back by the database, and the pool never sees it again.       *)
(***************************************************************************)
EXTENDS Naturals, FiniteSets

CONSTANTS
  Connections,  (* the connections of a process; the code has one          *)
  Methods       (* the methods: statements, and whether in a transaction   *)

Method == [transaction : BOOLEAN, statements : Nat \ {0}]

ASSUME DatabaseConstants ==
  /\ IsFiniteSet(Connections) /\ Connections # {}
  /\ Methods \subseteq Method

VARIABLES
  pool,        (* connections                                              *)
  con,         (* comps.connection: what the running method has taken      *)
  autocommit,  (* of every connection                                      *)
  pending,     (* statements of the open transaction of con                *)
  phase,       (* where the running method is; "none" when none runs       *)
  done,        (* how many of its statements were executed                 *)
  code,        (* what it is going to return                               *)
  call,        (* the last call of a method: its result, and which of its  *)
               (* statements the database has stored (auxiliary)           *)
  thrown       (* exceptions that left a method (auxiliary)                *)

dbVars == <<pool, con, autocommit, pending, phase, done, code, call, thrown>>

Codes == {"SYS__OKEY", "SYS__INTERNAL_SERVER_ERROR"}

Phases ==
  {"none", "take", "create", "begin", "execute", "commit", "rollback", "restore", "free"}

Call ==
  [method : Method, result : Codes \cup {"none", "thrown"}, stored : SUBSET Nat]

DbTypeOK ==
  /\ pool \subseteq Connections /\ con \subseteq Connections
  /\ Cardinality(con) <= 1 /\ con \cap pool = {}
  /\ autocommit \in [Connections -> BOOLEAN]
  /\ phase \in Phases /\ done \in Nat
  /\ code \in Codes
  /\ call \in Call
  /\ pending \subseteq 1 .. done + 1
  /\ thrown \in Nat
  /\ phase \in {"none", "take"} <=> con = {}

-----------------------------------------------------------------------------
Stores(statements) ==
  call' = [call EXCEPT !.stored = @ \cup statements]

Returns(result) ==
  call' = [call EXCEPT !.result = result]

Goes(next) == phase' = next

(* An exception leaves the method: the destructors of comps run. *)
Throws ==
  /\ Returns("thrown")
  /\ thrown' = thrown + 1
  /\ con' = {} /\ pending' = {} /\ Goes("none")
  /\ UNCHANGED <<pool, autocommit, done, code>>

StartCall(method) ==
  /\ phase = "none"
  /\ call' = [method |-> method, result |-> "none", stored |-> {}]
  /\ done' = 0 /\ code' = "SYS__OKEY" /\ Goes("take")
  /\ UNCHANGED <<pool, con, autocommit, pending, thrown>>

Erased(c) == pool \ {c}

(* create_query_components: wait_and_erase, then createStatement. *)
TakeConnection ==
  /\ phase = "take"
  /\ \E c \in pool : con' = {c} /\ pool' = Erased(c)
  /\ Goes("create")
  /\ UNCHANGED <<autocommit, pending, done, code, call, thrown>>

CreateStatement ==
  /\ phase = "create"
  /\ \/ Throws
     \/ /\ Goes(IF call.method.transaction THEN "begin" ELSE "execute")
        /\ UNCHANGED <<pool, con, autocommit, pending, done, code, call, thrown>>

BeginTransaction ==
  /\ phase = "begin"
  /\ \/ Throws
     \/ /\ autocommit' = [c \in Connections |-> IF c \in con THEN FALSE ELSE autocommit[c]]
        /\ Goes("execute")
        /\ UNCHANGED <<pool, con, pending, done, code, call, thrown>>

AllDone(n) == n = call.method.statements

(* A statement takes effect: at once, or when the transaction commits. *)
TakesEffect(statement) ==
  \E c \in con :
    IF autocommit[c] THEN Stores({statement}) /\ UNCHANGED pending
                     ELSE pending' = pending \cup {statement} /\ UNCHANGED call

ExecuteStatement ==
  /\ phase = "execute"
  /\ TakesEffect(done + 1)
  /\ done' = done + 1
  /\ Goes(IF ~AllDone(done + 1) THEN "execute"
          ELSE IF call.method.transaction THEN "commit" ELSE "free")
  /\ UNCHANGED <<pool, con, autocommit, code, thrown>>

Caught ==
  /\ code' = "SYS__INTERNAL_SERVER_ERROR"
  /\ Goes(IF call.method.transaction THEN "rollback" ELSE "free")
  /\ UNCHANGED <<pool, con, autocommit, thrown>>

(* It may have taken effect: the answer of the database was lost. *)
StatementThrows ==
  /\ phase = "execute"
  /\ TakesEffect(done + 1) \/ UNCHANGED <<pending, call>>
  /\ Caught
  /\ UNCHANGED done

Commit ==
  /\ phase = "commit"
  /\ Stores(pending) /\ pending' = {}
  /\ Goes("restore")
  /\ UNCHANGED <<pool, con, autocommit, done, code, thrown>>

(* Again, the answer may be lost after the commit. *)
CommitThrows ==
  /\ phase = "commit"
  /\ \/ Stores(pending) /\ pending' = {}
     \/ UNCHANGED <<pending, call>>
  /\ Caught
  /\ UNCHANGED done

(* Mutant of RollsBack: the catch block only logs.                         *)
LogsOnly == UNCHANGED pending

RollsBack == pending' = {}

Rollback ==
  /\ phase = "rollback"
  /\ \/ Throws
     \/ /\ RollsBack
        /\ Goes("restore")
        /\ UNCHANGED <<pool, con, autocommit, done, code, call, thrown>>

(* Mutant of RestoresOn: only after a commit.                              *)
RestoresCommitted(c) ==
  IF code = "SYS__OKEY" THEN autocommit' = [autocommit EXCEPT ![c] = TRUE] ELSE UNCHANGED autocommit

RestoresOn(c) == autocommit' = [autocommit EXCEPT ![c] = TRUE]

(* To switch autocommit on commits what is pending. *)
RestoreAutoCommit ==
  /\ phase = "restore"
  /\ \/ Throws
     \/ /\ \E c \in con : RestoresOn(c)
        /\ Stores(pending) /\ pending' = {}
        /\ Goes("free")
        /\ UNCHANGED <<pool, con, done, code, thrown>>

(* Mutant of Freed: the catch block returns without giving back.           *)
FreedIfOkey(c) == IF code = "SYS__OKEY" THEN pool \cup {c} ELSE pool

Freed(c) == pool \cup {c}

(* free_query_components: exec->close(), then add. *)
FreeConnection ==
  /\ phase = "free"
  /\ \/ Throws
     \/ /\ \E c \in con : pool' = Freed(c)
        /\ con' = {}
        /\ Returns(code)
        /\ Goes("none")
        /\ UNCHANGED <<autocommit, pending, done, code, thrown>>

MethodStep ==
  \/ TakeConnection
  \/ CreateStatement
  \/ BeginTransaction
  \/ ExecuteStatement
  \/ StatementThrows
  \/ Commit
  \/ CommitThrows
  \/ Rollback
  \/ RestoreAutoCommit
  \/ FreeConnection

NoCall ==
  [method |-> [transaction |-> FALSE, statements |-> 1], result |-> "none", stored |-> {}]

(* db_responder::setup of a new process: new connections. *)
DbInit ==
  /\ pool = Connections /\ con = {}
  /\ autocommit = [c \in Connections |-> TRUE]
  /\ pending = {} /\ phase = "none" /\ done = 0 /\ code = "SYS__OKEY"
  /\ call = NoCall /\ thrown = 0

(* The process ends and another is set up; the database rolls back. *)
Restart ==
  /\ pool' = Connections /\ con' = {}
  /\ autocommit' = [c \in Connections |-> TRUE]
  /\ pending' = {} /\ phase' = "none" /\ done' = 0 /\ code' = "SYS__OKEY"
  /\ thrown' = 0
  /\ UNCHANGED call

-----------------------------------------------------------------------------
(* Properties.                                                             *)

(* A method finds its connection as the first one did: in autocommit mode  *)
(* and without statements of a method before it, however that one ended    *)
(* (db_responder.cpp:698-716).                                             *)
PooledConnectionsAreClean ==
  /\ \A c \in pool : autocommit[c]
  /\ phase \in {"take", "create", "begin"} => pending = {}

(* A transaction is stored as a whole or not at all, whichever call throws *)
(* and whenever the process ends; OK is answered only when it is stored.   *)
AllOrNothing ==
  LET all == 1 .. call.method.statements IN
    /\ call.method.transaction => call.stored \in {{}, all}
    /\ call.result = "SYS__OKEY" => call.stored = all

Lost == Connections \ (pool \cup con)

(* Every lost connection is the price of one exception that left a method: *)
(* a failing statement alone, however often, costs none.                   *)
LossesWereThrown == Cardinality(Lost) <= thrown

(* All of these, whatever throws and whenever the process ends.            *)
DatabaseInv == DbTypeOK /\ PooledConnectionsAreClean /\ LossesWereThrown

(* As long as fewer exceptions left a method than there are connections,   *)
(* every call comes back; with all connections lost the next call waits    *)
(* for ever in wait_and_erase (db_responder.cpp:1068).                     *)
CallsReturn == phase # "none" ~> (phase = "none" \/ thrown >= Cardinality(Connections))
=============================================================================
