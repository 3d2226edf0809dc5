-------------------------- MODULE ServerStopProofs --------------------------
(***************************************************************************)
(* Proofs about the database methods and the stop of the server, for any   *)
(* number of connections, any methods and any number of calls.             *)
(***************************************************************************)
EXTENDS ServerStop, FiniteSetTheorems, TLAPS

-----------------------------------------------------------------------------
(* The inductive invariant.                                                *)

(* DbTypeOK without the count, which OneHeld says in another way. *)
Types ==
  /\ pool \subseteq Connections
  /\ con \cap pool = {}
  /\ autocommit \in [Connections -> BOOLEAN]
  /\ phase \in Phases /\ done \in Nat
  /\ code \in Codes
  /\ call \in Call
  /\ pending \subseteq 1 .. done + 1
  /\ thrown \in Nat
  /\ phase \in {"none", "take"} <=> con = {}

OneHeld == con = {} \/ \E c \in Connections : con = {c}

(* In which phases the connection of the method commits by itself. *)
HeldMode ==
  \A c \in con :
    /\ phase \in {"create", "begin", "free"} => autocommit[c]
    /\ phase = "execute" => autocommit[c] = ~call.method.transaction
    /\ phase \in {"commit", "rollback"} => autocommit[c] = FALSE

PoolMode == \A c \in pool : autocommit[c]

NothingPending ==
  phase \in {"none", "take", "create", "begin", "restore", "free"} => pending = {}

(* What the running method has reached. *)
Progress ==
  /\ phase # "none" => call.result = "none"
  /\ phase \in {"begin", "commit", "rollback", "restore"} => call.method.transaction
  /\ phase \in {"take", "create", "begin"} => done = 0 /\ call.stored = {}
  /\ phase \in {"take", "create", "begin", "execute", "commit"} => code = "SYS__OKEY"
  /\ phase = "execute" =>
       /\ done < call.method.statements
       /\ call.method.transaction => call.stored = {} /\ pending = 1 .. done
       /\ ~call.method.transaction => call.stored = 1 .. done /\ pending = {}
  /\ phase = "commit" =>
       pending = 1 .. call.method.statements /\ call.stored = {}
  /\ phase = "rollback" => code # "SYS__OKEY"
  /\ phase \in {"restore", "free"} /\ code = "SYS__OKEY" =>
       call.stored = 1 .. call.method.statements

DbInv ==
  /\ Types
  /\ OneHeld
  /\ HeldMode
  /\ PoolMode
  /\ NothingPending
  /\ Progress
  /\ AllOrNothing
  /\ LossesWereThrown

StopInv == 
  /\ StopTypeOK 
  /\ stage = "joinAcceptor" => handler = "off"

IInv == DbInv /\ StopInv

-----------------------------------------------------------------------------
(* Lemmas about the parts of a method.                                     *)

LEMMA StoresFields ==
  ASSUME call \in Call, NEW S \in SUBSET Nat, Stores(S)
  PROVE  /\ call' \in Call
         /\ call'.method = call.method
         /\ call'.result = call.result
         /\ call'.stored = call.stored \cup S
BY DEF Stores, Call

LEMMA ReturnsFields ==
  ASSUME call \in Call, NEW r \in Codes \cup {"none", "thrown"}, Returns(r)
  PROVE  /\ call' \in Call
         /\ call'.method = call.method
         /\ call'.result = r
         /\ call'.stored = call.stored
BY DEF Returns, Call

LEMMA CallFields ==
  ASSUME call \in Call
  PROVE  /\ call.method \in Method
         /\ call.method.transaction \in BOOLEAN
         /\ call.method.statements \in Nat /\ call.method.statements > 0
         /\ call.stored \in SUBSET Nat
         /\ call.result \in Codes \cup {"none", "thrown"}
BY DEF Call, Method

LEMMA OneMore ==
  ASSUME NEW S, NEW x, IsFiniteSet(S)
  PROVE  /\ Cardinality(S \cup {x}) \in Nat
         /\ Cardinality(S \cup {x}) <= Cardinality(S) + 1
<1>1. IsFiniteSet(S \cup {x})
  BY FS_AddElement
<1>2. Cardinality(S) \in Nat /\ Cardinality(S \cup {x}) \in Nat
  BY <1>1, FS_CardinalityType
<1>3. Cardinality(S \cup {x}) = IF x \in S THEN Cardinality(S) ELSE Cardinality(S) + 1
  BY FS_AddElement
<1> QED
  BY <1>2, <1>3

(* The counts and losses stay when the pool and what is held stay.         *)
LEMMA LossFrame ==
  ASSUME LossesWereThrown, pool' \cup con' = pool \cup con, thrown' = thrown
  PROVE  LossesWereThrown'
BY DEF LossesWereThrown, Lost

-----------------------------------------------------------------------------
(* One lemma for each step of a method.                                    *)

(* An exception that leaves the method loses at most one connection. *)
LEMMA ThrowsInv == ASSUME DbInv, phase # "none", Throws PROVE DbInv'
<1>1. call \in Call
  BY DEF DbInv, Types
<1>2. /\ call' \in Call
      /\ call'.method = call.method
      /\ call'.result = "thrown"
      /\ call'.stored = call.stored
  BY <1>1, ReturnsFields DEF Throws
<1>3. Types'
  BY <1>2 DEF DbInv, Types, Throws, Goes, Phases
<1>4. OneHeld' /\ HeldMode' /\ PoolMode' /\ NothingPending'
  BY DEF DbInv, OneHeld, HeldMode, PoolMode, NothingPending, Throws, Goes
<1>5. Progress' /\ AllOrNothing'
  BY <1>2 DEF DbInv, Progress, AllOrNothing, Throws, Goes
<1>6. LossesWereThrown'
  <2>1. IsFiniteSet(Lost)
    BY FS_Subset, DatabaseConstants DEF Lost
  <2>2. Cardinality(Lost) \in Nat
    BY <2>1, FS_CardinalityType
  <2>3. CASE con = {}
    <3>1. Lost' = Lost
      BY <2>3 DEF Lost, Throws
    <3> QED
      BY <3>1, <2>2 DEF DbInv, Types, LossesWereThrown, Throws
  <2>4. ASSUME NEW c \in Connections, con = {c} PROVE LossesWereThrown'
    <3>1. Lost' = Lost \cup {c}
      BY <2>4 DEF Lost, Throws, DbInv, Types
    <3>2. /\ Cardinality(Lost \cup {c}) \in Nat
          /\ Cardinality(Lost \cup {c}) <= Cardinality(Lost) + 1
      BY <2>1, OneMore
    <3> QED
      BY <3>1, <3>2, <2>2 DEF DbInv, Types, LossesWereThrown, Throws
  <2> QED
    BY <2>3, <2>4 DEF DbInv, OneHeld
<1> QED
  BY <1>3, <1>4, <1>5, <1>6 DEF DbInv

LEMMA StartCallInv == 
  ASSUME DbInv, NEW method \in Method, StartCall(method) PROVE DbInv'
<1>1. /\ call' \in Call
      /\ call'.method = method /\ call'.result = "none" /\ call'.stored = {}
  BY DEF StartCall, Call
<1>2. Types'
  BY <1>1 DEF DbInv, Types, StartCall, Goes, Phases, Codes, NothingPending
<1>3. OneHeld' /\ HeldMode' /\ PoolMode' /\ NothingPending'
  BY DEF DbInv, Types, OneHeld, HeldMode, PoolMode, NothingPending, StartCall, Goes
<1>4. Progress' /\ AllOrNothing'
  BY <1>1 DEF DbInv, Progress, AllOrNothing, StartCall, Goes
<1>5. LossesWereThrown'
  BY LossFrame DEF DbInv, StartCall
<1> QED
  BY <1>2, <1>3, <1>4, <1>5 DEF DbInv

LEMMA TakeConnectionInv == ASSUME DbInv, TakeConnection PROVE DbInv'
<1>1. PICK c \in pool : con' = {c} /\ pool' = pool \ {c}
  BY DEF TakeConnection, Erased
<1>2. con = {} /\ c \in Connections /\ autocommit[c]
  BY <1>1 DEF DbInv, Types, TakeConnection, PoolMode
<1>3. Types'
  BY <1>1, <1>2 DEF DbInv, Types, TakeConnection, Goes, Phases
<1>4. OneHeld' /\ HeldMode' /\ PoolMode' /\ NothingPending'
  BY <1>1, <1>2 DEF DbInv, OneHeld, HeldMode, PoolMode, NothingPending, TakeConnection, Goes
<1>5. Progress' /\ AllOrNothing'
  BY DEF DbInv, Progress, AllOrNothing, TakeConnection, Goes
<1>6. pool' \cup con' = pool \cup con
  BY <1>1, <1>2
<1>7. LossesWereThrown'
  BY <1>6, LossFrame DEF DbInv, TakeConnection
<1> QED
  BY <1>3, <1>4, <1>5, <1>7 DEF DbInv

LEMMA CreateStatementInv == ASSUME DbInv, CreateStatement PROVE DbInv'
<1>1. CASE Throws
  BY <1>1, ThrowsInv DEF CreateStatement
<1>2. CASE ~Throws
  <2>1. /\ phase = "create"
        /\ phase' = IF call.method.transaction THEN "begin" ELSE "execute"
        /\ UNCHANGED <<pool, con, autocommit, pending, done, code, call, thrown>>
    BY <1>2 DEF CreateStatement, Goes
  <2>2. call.method.transaction \in BOOLEAN /\ call.method.statements \in Nat /\ call.method.statements > 0
    BY CallFields DEF DbInv, Types
  <2>3. Types' /\ OneHeld' /\ PoolMode'
    BY <2>1 DEF DbInv, Types, OneHeld, PoolMode, Phases
  <2>4. HeldMode' /\ NothingPending'
    BY <2>1, <2>2 DEF DbInv, HeldMode, NothingPending, Types
  <2>5. 1 .. 0 = {}
    OBVIOUS
  <2>6. Progress'
    BY <2>1, <2>2, <2>5 DEF DbInv, Progress, NothingPending
  <2>7. AllOrNothing'
    BY <2>1 DEF DbInv, AllOrNothing
  <2>8. LossesWereThrown'
    BY <2>1, LossFrame DEF DbInv
  <2> QED
    BY <2>3, <2>4, <2>6, <2>7, <2>8 DEF DbInv
<1> QED
  BY <1>1, <1>2

LEMMA BeginTransactionInv == ASSUME DbInv, BeginTransaction PROVE DbInv'
<1>1. CASE Throws
  BY <1>1, ThrowsInv DEF BeginTransaction
<1>2. CASE ~Throws
  <2>1. /\ phase = "begin" /\ phase' = "execute"
        /\ autocommit' = [c \in Connections |-> IF c \in con THEN FALSE ELSE autocommit[c]]
        /\ UNCHANGED <<pool, con, pending, done, code, call, thrown>>
    BY <1>2 DEF BeginTransaction, Goes
  <2>2. call.method.transaction \in BOOLEAN /\ call.method.statements \in Nat /\ call.method.statements > 0
    BY CallFields DEF DbInv, Types
  <2>3. Types' /\ OneHeld'
    BY <2>1 DEF DbInv, Types, OneHeld, Phases
  <2>4. PoolMode'
    BY <2>1 DEF DbInv, PoolMode, Types
  <2>5. HeldMode' /\ NothingPending'
    BY <2>1, <2>2 DEF DbInv, HeldMode, NothingPending, Types, Progress, OneHeld
  <2>6. 1 .. 0 = {}
    OBVIOUS
  <2>7. Progress'
    BY <2>1, <2>2, <2>6 DEF DbInv, Progress, NothingPending
  <2>8. AllOrNothing'
    BY <2>1 DEF DbInv, AllOrNothing
  <2>9. LossesWereThrown'
    BY <2>1, LossFrame DEF DbInv
  <2> QED
    BY <2>3, <2>4, <2>5, <2>7, <2>8, <2>9 DEF DbInv
<1> QED
  BY <1>1, <1>2

(* The new statement joins what the transaction will store, or is stored. *)
LEMMA EffectFields ==
  ASSUME DbInv, phase = "execute", TakesEffect(done + 1)
  PROVE  /\ call' \in Call /\ call'.method = call.method /\ call'.result = call.result
         /\ pending' \subseteq 1 .. done + 1
         /\ call.method.transaction =>
              call'.stored = {} /\ pending' = pending \cup {done + 1}
         /\ ~call.method.transaction =>
              call'.stored = call.stored \cup {done + 1} /\ pending' = {}
<1>1. PICK c \in con :
        IF autocommit[c] THEN Stores({done + 1}) /\ UNCHANGED pending
                         ELSE pending' = pending \cup {done + 1} /\ UNCHANGED call
  BY DEF TakesEffect
<1>2. /\ call \in Call /\ done \in Nat /\ pending \subseteq 1 .. done + 1
      /\ call.method.transaction \in BOOLEAN
      /\ autocommit[c] = ~call.method.transaction
      /\ call.method.transaction => call.stored = {} /\ pending = 1 .. done
      /\ ~call.method.transaction => call.stored = 1 .. done /\ pending = {}
  BY <1>1, CallFields DEF DbInv, Types, HeldMode, Progress
<1>3. CASE call.method.transaction
  <2>1. UNCHANGED call /\ pending' = pending \cup {done + 1}
    BY <1>1, <1>2, <1>3
  <2>2. pending' \subseteq 1 .. done + 1
    BY <1>2, <2>1
  <2> QED
    BY <2>1, <2>2, <1>2, <1>3
<1>4. CASE ~call.method.transaction
  <2>1. Stores({done + 1}) /\ UNCHANGED pending
    BY <1>1, <1>2, <1>4
  <2>2. {done + 1} \in SUBSET Nat
    BY <1>2
  <2> QED
    BY <2>1, <2>2, <1>2, <1>4, StoresFields
<1> QED
  BY <1>3, <1>4

LEMMA ExecuteStatementInv == ASSUME DbInv, ExecuteStatement PROVE DbInv'
<1> DEFINE n == call.method.statements
           tx == call.method.transaction
<1>1. /\ phase = "execute" /\ done' = done + 1
      /\ phase' = IF done + 1 # n THEN "execute" ELSE IF tx THEN "commit" ELSE "free"
      /\ UNCHANGED <<pool, con, autocommit, code, thrown>>
  BY DEF ExecuteStatement, Goes, AllDone
<1>2. /\ call' \in Call /\ call'.method = call.method /\ call'.result = call.result
      /\ pending' \subseteq 1 .. done + 1
      /\ tx => call'.stored = {} /\ pending' = pending \cup {done + 1}
      /\ ~tx => call'.stored = call.stored \cup {done + 1} /\ pending' = {}
  BY EffectFields DEF ExecuteStatement
<1>3. tx \in BOOLEAN /\ n \in Nat /\ n > 0 /\ done \in Nat /\ done < n
  BY <1>1, CallFields DEF DbInv, Types, Progress
<1>4. (1 .. done) \cup {done + 1} = 1 .. done + 1
  BY <1>3
<1>5. Types'
  BY <1>1, <1>2, <1>3 DEF DbInv, Types, Phases
<1>6. OneHeld' /\ PoolMode'
  BY <1>1 DEF DbInv, OneHeld, PoolMode
<1>7. HeldMode' /\ NothingPending'
  BY <1>1, <1>2, <1>3 DEF DbInv, HeldMode, NothingPending, Types
<1>8. call.result = "none" /\ code = "SYS__OKEY"
      /\ (tx => call.stored = {} /\ pending = 1 .. done)
      /\ (~tx => call.stored = 1 .. done /\ pending = {})
  BY <1>1 DEF DbInv, Progress
<1>9. Progress'
  <2>1. CASE done + 1 # n
    <3>1. phase' = "execute" /\ done' < n /\ done + 1 = done'
      BY <1>1, <1>3, <2>1
    <3>2. tx => call'.stored = {} /\ pending' = 1 .. done'
      BY <1>2, <1>4, <1>8, <3>1
    <3>3. ~tx => call'.stored = 1 .. done' /\ pending' = {}
      BY <1>2, <1>4, <1>8, <3>1
    <3> QED
      BY <1>1, <1>2, <1>8, <3>1, <3>2, <3>3 DEF Progress
  <2>2. CASE done + 1 = n /\ tx
    <3>1. phase' = "commit"
      BY <1>1, <2>2
    <3>2. call'.stored = {} /\ pending' = 1 .. n
      BY <1>2, <1>4, <1>8, <2>2
    <3> QED
      BY <1>1, <1>2, <1>8, <2>2, <3>1, <3>2 DEF Progress
  <2>3. CASE done + 1 = n /\ ~tx
    <3>1. phase' = "free"
      BY <1>1, <2>3
    <3>2. call'.stored = 1 .. n
      BY <1>2, <1>4, <1>8, <2>3
    <3> QED
      BY <1>1, <1>2, <1>8, <2>3, <3>1, <3>2 DEF Progress
  <2> QED
    BY <1>3, <2>1, <2>2, <2>3
<1>10. AllOrNothing'
  BY <1>1, <1>2, <1>3, <1>8 DEF AllOrNothing
<1>11. LossesWereThrown'
  BY <1>1, LossFrame DEF DbInv
<1> QED
  BY <1>5, <1>6, <1>7, <1>9, <1>10, <1>11 DEF DbInv

LEMMA StatementThrowsInv == ASSUME DbInv, StatementThrows PROVE DbInv'
<1> DEFINE tx == call.method.transaction
<1>1. /\ phase = "execute" /\ done' = done /\ code' = "SYS__INTERNAL_SERVER_ERROR"
      /\ phase' = IF tx THEN "rollback" ELSE "free"
      /\ UNCHANGED <<pool, con, autocommit, thrown>>
  BY DEF StatementThrows, Goes, Caught
<1>2. /\ call' \in Call /\ call'.method = call.method /\ call'.result = "none"
      /\ pending' \subseteq 1 .. done + 1
      /\ tx => call'.stored = {}
      /\ ~tx => pending' = {}
  BY <1>1, EffectFields DEF StatementThrows, DbInv, Types, Progress
<1>3. tx \in BOOLEAN
  BY CallFields DEF DbInv, Types
<1>4. Types'
  BY <1>1, <1>2, <1>3 DEF DbInv, Types, Phases, Codes
<1>5. OneHeld' /\ PoolMode'
  BY <1>1 DEF DbInv, OneHeld, PoolMode
<1>6. HeldMode' /\ NothingPending'
  BY <1>1, <1>2, <1>3 DEF DbInv, HeldMode, NothingPending, Types
<1>7. Progress' /\ AllOrNothing'
  BY <1>1, <1>2, <1>3 DEF Progress, AllOrNothing
<1>8. LossesWereThrown'
  BY <1>1, LossFrame DEF DbInv
<1> QED
  BY <1>4, <1>5, <1>6, <1>7, <1>8 DEF DbInv

LEMMA CommitInv == ASSUME DbInv, Commit PROVE DbInv'
<1>1. /\ phase = "commit" /\ phase' = "restore" /\ pending' = {} /\ Stores(pending)
      /\ UNCHANGED <<pool, con, autocommit, done, code, thrown>>
  BY DEF Commit, Goes
<1>2. call \in Call /\ pending \in SUBSET Nat
      /\ pending = 1 .. call.method.statements /\ call.stored = {}
      /\ call.method.transaction /\ call.result = "none"
  BY <1>1 DEF DbInv, Types, Progress
<1>3. /\ call' \in Call /\ call'.method = call.method /\ call'.result = "none"
      /\ call'.stored = 1 .. call.method.statements
  BY <1>1, <1>2, StoresFields
<1>4. Types'
  BY <1>1, <1>3 DEF DbInv, Types, Phases
<1>5. OneHeld' /\ PoolMode' /\ HeldMode' /\ NothingPending'
  BY <1>1 DEF DbInv, OneHeld, PoolMode, HeldMode, NothingPending
<1>6. Progress' /\ AllOrNothing'
  BY <1>1, <1>2, <1>3 DEF Progress, AllOrNothing
<1>7. LossesWereThrown'
  BY <1>1, LossFrame DEF DbInv
<1> QED
  BY <1>4, <1>5, <1>6, <1>7 DEF DbInv

LEMMA CommitThrowsInv == ASSUME DbInv, CommitThrows PROVE DbInv'
<1>1. /\ phase = "commit" /\ done' = done /\ code' = "SYS__INTERNAL_SERVER_ERROR"
      /\ phase' = IF call.method.transaction THEN "rollback" ELSE "free"
      /\ (Stores(pending) /\ pending' = {}) \/ UNCHANGED <<pending, call>>
      /\ UNCHANGED <<pool, con, autocommit, thrown>>
  BY DEF CommitThrows, Goes, Caught
<1>2. call \in Call /\ pending \in SUBSET Nat
      /\ pending = 1 .. call.method.statements /\ call.stored = {}
      /\ call.method.transaction /\ call.result = "none"
  BY <1>1 DEF DbInv, Types, Progress
<1>3. /\ call' \in Call /\ call'.method = call.method /\ call'.result = "none"
      /\ call'.stored \in {{}, 1 .. call.method.statements}
      /\ pending' \subseteq pending
  BY <1>1, <1>2, StoresFields
<1>4. Types'
  BY <1>1, <1>2, <1>3 DEF DbInv, Types, Phases, Codes
<1>5. OneHeld' /\ PoolMode' /\ HeldMode' /\ NothingPending'
  BY <1>1, <1>2 DEF DbInv, OneHeld, PoolMode, HeldMode, NothingPending
<1>6. Progress' /\ AllOrNothing'
  BY <1>1, <1>2, <1>3 DEF Progress, AllOrNothing
<1>7. LossesWereThrown'
  BY <1>1, LossFrame DEF DbInv
<1> QED
  BY <1>4, <1>5, <1>6, <1>7 DEF DbInv

LEMMA RollbackInv == ASSUME DbInv, Rollback PROVE DbInv'
<1>1. CASE Throws
  BY <1>1, ThrowsInv DEF Rollback
<1>2. CASE ~Throws
  <2>1. /\ phase = "rollback" /\ phase' = "restore" /\ pending' = {}
        /\ UNCHANGED <<pool, con, autocommit, done, code, call, thrown>>
    BY <1>2 DEF Rollback, Goes, RollsBack
  <2>2. Types' /\ OneHeld' /\ PoolMode' /\ HeldMode' /\ NothingPending'
    BY <2>1 DEF DbInv, Types, Phases, OneHeld, PoolMode, HeldMode, NothingPending
  <2>3. Progress' /\ AllOrNothing'
    BY <2>1 DEF DbInv, Progress, AllOrNothing
  <2>4. LossesWereThrown'
    BY <2>1, LossFrame DEF DbInv
  <2> QED
    BY <2>2, <2>3, <2>4 DEF DbInv
<1> QED
  BY <1>1, <1>2

LEMMA RestoreAutoCommitInv == ASSUME DbInv, RestoreAutoCommit PROVE DbInv'
<1>1. CASE Throws
  BY <1>1, ThrowsInv DEF RestoreAutoCommit
<1>2. CASE ~Throws
  <2>1. /\ phase = "restore" /\ phase' = "free" /\ pending' = {} /\ Stores(pending)
        /\ UNCHANGED <<pool, con, done, code, thrown>>
    BY <1>2 DEF RestoreAutoCommit, Goes
  <2>2. PICK c \in con : autocommit' = [autocommit EXCEPT ![c] = TRUE]
    BY <1>2 DEF RestoreAutoCommit, RestoresOn
  <2>3. con = {c} /\ c \in Connections
    BY <2>2 DEF DbInv, OneHeld
  <2>4. call \in Call /\ pending = {} /\ {} \in SUBSET Nat
    BY <2>1 DEF DbInv, Types, NothingPending
  <2>5. /\ call' \in Call /\ call'.method = call.method /\ call'.result = call.result
        /\ call'.stored = call.stored
    BY <2>1, <2>4, StoresFields
  <2>6. Types'
    BY <2>1, <2>2, <2>3, <2>5 DEF DbInv, Types, Phases
  <2>7. OneHeld' /\ PoolMode' /\ HeldMode' /\ NothingPending'
    BY <2>1, <2>2, <2>3 DEF DbInv, Types, OneHeld, PoolMode, HeldMode, NothingPending
  <2>8. Progress' /\ AllOrNothing'
    BY <2>1, <2>5 DEF DbInv, Progress, AllOrNothing
  <2>9. LossesWereThrown'
    BY <2>1, LossFrame DEF DbInv
  <2> QED
    BY <2>6, <2>7, <2>8, <2>9 DEF DbInv
<1> QED
  BY <1>1, <1>2

LEMMA FreeConnectionInv == ASSUME DbInv, FreeConnection PROVE DbInv'
<1>1. CASE Throws
  BY <1>1, ThrowsInv DEF FreeConnection
<1>2. CASE ~Throws
  <2>1. /\ phase = "free" /\ phase' = "none" /\ con' = {} /\ Returns(code)
        /\ UNCHANGED <<autocommit, pending, done, code, thrown>>
    BY <1>2 DEF FreeConnection, Goes
  <2>2. PICK c \in con : pool' = pool \cup {c}
    BY <1>2 DEF FreeConnection, Freed
  <2>3. con = {c} /\ c \in Connections /\ autocommit[c]
    BY <2>1, <2>2 DEF DbInv, OneHeld, HeldMode
  <2>4. call \in Call /\ code \in Codes
    BY DEF DbInv, Types
  <2>5. /\ call' \in Call /\ call'.method = call.method /\ call'.result = code
        /\ call'.stored = call.stored
    BY <2>1, <2>4, ReturnsFields
  <2>6. Types'
    BY <2>1, <2>2, <2>3, <2>5 DEF DbInv, Types, Phases
  <2>7. OneHeld' /\ PoolMode' /\ HeldMode' /\ NothingPending'
    BY <2>1, <2>2, <2>3 DEF DbInv, OneHeld, PoolMode, HeldMode, NothingPending
  <2>8. Progress' /\ AllOrNothing'
    BY <2>1, <2>5 DEF DbInv, Progress, AllOrNothing
  <2>9. pool' \cup con' = pool \cup con
    BY <2>1, <2>2, <2>3
  <2>10. LossesWereThrown'
    BY <2>1, <2>9, LossFrame DEF DbInv
  <2> QED
    BY <2>6, <2>7, <2>8, <2>10 DEF DbInv
<1> QED
  BY <1>1, <1>2

LEMMA MethodStepInv == ASSUME DbInv, MethodStep PROVE DbInv'
BY TakeConnectionInv, CreateStatementInv, BeginTransactionInv, ExecuteStatementInv,
   StatementThrowsInv, CommitInv, CommitThrowsInv, RollbackInv, RestoreAutoCommitInv,
   FreeConnectionInv DEF MethodStep

(* Nobody holds a connection of a new process, and none is lost.           *)
LEMMA FreshInv ==
  ASSUME pool' = Connections, con' = {}, autocommit' = [c \in Connections |-> TRUE],
         pending' = {}, phase' = "none", done' = 0, code' = "SYS__OKEY",
         thrown' = 0, call' \in Call, AllOrNothing'
  PROVE  DbInv'
<1>1. Lost' = {}
  BY DEF Lost
<1>2. LossesWereThrown'
  BY <1>1, FS_EmptySet DEF LossesWereThrown
<1>3. Types'
  BY DEF Types, Phases, Codes
<1> QED
  BY <1>2, <1>3 DEF DbInv, OneHeld, HeldMode, PoolMode, NothingPending, Progress

LEMMA RestartInv == ASSUME DbInv, Restart PROVE DbInv'
<1>1. call' = call /\ AllOrNothing'
  BY DEF Restart, DbInv, AllOrNothing
<1> QED
  BY <1>1, FreshInv DEF Restart, DbInv, Types

LEMMA DbInitInv == DbInit => DbInv
<1> SUFFICES ASSUME DbInit PROVE DbInv
  OBVIOUS
<1>1. Lost = {}
  BY DEF Lost, DbInit
<1>2. LossesWereThrown
  BY <1>1, FS_EmptySet DEF LossesWereThrown, DbInit
<1>3. call \in Call /\ call.stored = {} /\ call.result = "none"
  BY DEF DbInit, NoCall, Call, Method
<1>4. Types
  BY <1>3 DEF Types, Phases, Codes, DbInit
<1>5. AllOrNothing
  BY <1>3 DEF AllOrNothing
<1> QED
  BY <1>2, <1>4, <1>5 DEF DbInv, DbInit, OneHeld, HeldMode, PoolMode, NothingPending, Progress

-----------------------------------------------------------------------------
(* The threads and the stop.                                               *)

LEMMA InitInv == Init => IInv
<1> SUFFICES ASSUME Init PROVE IInv
  OBVIOUS
<1>1. DbInv
  BY DbInitInv DEF Init
<1>2. StopTypeOK
  <2>1. left \in 0 .. MaxCommandCalls
    BY StopConstants DEF Init
  <2>2. backlog \in 0 .. incoming /\ incoming \in 0 .. MaxIncoming
    BY StopConstants DEF Init
  <2> QED
    BY <2>1, <2>2 DEF Init, StopTypeOK
<1>3. StopInv
  BY <1>2 DEF Init, StopInv
<1> QED
  BY <1>1, <1>3 DEF IInv

LEMMA DbFrame == ASSUME DbInv, UNCHANGED dbVars PROVE DbInv'
<1>1. LossesWereThrown'
  BY LossFrame DEF DbInv, dbVars
<1> QED
  BY <1>1 DEF DbInv, dbVars, Types, OneHeld, HeldMode, PoolMode, NothingPending, Progress,
     AllOrNothing

LEMMA NextInv == IInv /\ [Next]_vars => IInv'
<1> SUFFICES ASSUME IInv, [Next]_vars PROVE IInv'
  OBVIOUS
<1> USE StopConstants DEF StopInv, StopTypeOK, listening, handling
<1>1. ASSUME UNCHANGED dbVars, StopInv' PROVE IInv'
  BY <1>1, DbFrame DEF IInv
<1>2. CASE TakeCommand
  BY <1>2, <1>1 DEF TakeCommand, IInv
<1>3. CASE CommandCalls
  <2>1. PICK method \in Methods : StartCall(method)
    BY <1>3 DEF CommandCalls
  <2>2. DbInv'
    BY <2>1, StartCallInv, DatabaseConstants DEF IInv
  <2> QED
    BY <1>3, <2>2 DEF CommandCalls, IInv
<1>4. CASE CommandEnds
  BY <1>4, <1>1 DEF CommandEnds, IInv
<1>5. CASE HandlerLeaves
  BY <1>5, <1>1 DEF HandlerLeaves, IInv
<1>6. CASE MethodRuns
  BY <1>6, MethodStepInv DEF MethodRuns, IInv
<1>7. CASE Incoming
  BY <1>7, <1>1 DEF Incoming, IInv
<1>8. CASE Poll
  BY <1>8, <1>1 DEF Poll, IInv
<1>9. CASE AcceptorStep
  <2>1. CASE Check
    BY <2>1, <1>1 DEF Check, IInv
  <2>2. CASE Accept
    BY <2>2, <1>1 DEF Accept, IInv
  <2>3. CASE AcceptorLeaves
    BY <2>3, <1>1 DEF AcceptorLeaves, IInv
  <2> QED
    BY <1>9, <2>1, <2>2, <2>3 DEF AcceptorStep
<1>10. CASE StopBegins \/ HandlerJoined
  BY <1>10, <1>1 DEF StopBegins, HandlerJoined, Joined, IInv
<1>11. CASE AcceptorJoined
  <2>1. Refresh \in Method
    BY DEF Refresh, Method
  <2>2. DbInv'
    BY <1>11, <2>1, StartCallInv DEF AcceptorJoined, IInv
  <2> QED
    BY <1>11, <2>2 DEF AcceptorJoined, Joined, IInv
<1>12. CASE StartAgain
  <2>1. DbInv'
    BY <1>12, RestartInv DEF StartAgain, IInv
  <2>2. left' \in 0 .. MaxCommandCalls /\ backlog' \in 0 .. incoming'
    BY <1>12 DEF StartAgain, IInv
  <2>3. StopInv'
    BY <1>12, <2>2 DEF StartAgain, IInv
  <2> QED
    BY <2>1, <2>3 DEF IInv
<1>13. CASE UNCHANGED vars
  BY <1>13, <1>1 DEF vars, IInv
<1> QED
  BY <1>2, <1>3, <1>4, <1>5, <1>6, <1>7, <1>8, <1>9, <1>10, <1>11, <1>12, <1>13
     DEF Next, HandlerStep, StopStep

-----------------------------------------------------------------------------
(* In every reachable state the running method, its connection and the     *)
(* pool are in the shape the other theorems need, whatever throws.         *)
THEOREM Invariance == Spec => []IInv
  BY InitInv, NextInv, PTL DEF Spec

(* At most one connection is taken, pooled connections are in autocommit   *)
(* mode with nothing pending, each lost one has its exception, and stop    *)
(* uses the database only when both threads are joined.                    *)
THEOREM StopIsSound == Spec => []ServerStopInv
<1>1. ASSUME IInv PROVE ServerStopInv
  <2>1. Cardinality(con) <= 1
    <3>1. CASE con = {}
      BY <3>1, FS_EmptySet
    <3>2. CASE \E c \in Connections : con = {c}
      <4>1. PICK c \in Connections : con = {c}
        BY <3>2
      <4>2. Cardinality({c}) = 1
        BY FS_Singleton
      <4> QED
        BY <4>1, <4>2
    <3> QED
      BY <1>1, <3>1, <3>2 DEF IInv, DbInv, OneHeld
  <2>2. DbTypeOK
    BY <1>1, <2>1 DEF IInv, DbInv, Types, DbTypeOK, OneHeld
  <2>3. PooledConnectionsAreClean
    BY <1>1 DEF IInv, DbInv, PoolMode, NothingPending, PooledConnectionsAreClean
  <2> QED
    BY <1>1, <2>2, <2>3 DEF ServerStopInv, DatabaseInv, IInv, DbInv, StopInv
<1> QED
  BY <1>1, Invariance, PTL

(* A method in a transaction stores all its statements or none, for any    *)
(* number of statements and wherever it or the process fails; and a method *)
(* that answers OK has stored them all.                                    *)
THEOREM TransactionsAreAtomic == Spec => []AllOrNothing
<1>1. IInv => AllOrNothing
  BY DEF IInv, DbInv
<1> QED
  BY <1>1, Invariance, PTL
=============================================================================
