-------------------------- MODULE RelationsProofs ---------------------------
(***************************************************************************)
(* Proofs about Relations, for any set of users, and about Search, for any *)
(* users, texts and size of pages.                                         *)
(***************************************************************************)
EXTENDS Search, FiniteSetTheorems, SequenceTheorems, WellFoundedInduction, TLAPS

(* At most one invitation is half accepted: one thread runs the handlers.  *)
OneAcceptance == \A p, q \in accepting : p = q

(* The inductive invariant.  The half accepted invitation counts as a row  *)
(* in AtMostOneRelation, so the contact that CreateContact inserts is      *)
(* still the only row of its pair.                                         *)
IInv ==
  /\ TypeOK
  /\ OneAcceptance
  /\ AtMostOneRelation

-----------------------------------------------------------------------------
(* The empty tables satisfy the invariant. *)
LEMMA InitInv == Init => IInv
  BY DEF Init, IInv, TypeOK, OneAcceptance, AtMostOneRelation, RowsBetween, Rows, StatusCodes

(* What a step does to a pair's rows is decided by two counts. *)
LEMMA RowsAreCounted ==
  ASSUME TypeOK, NEW u \in Ids, NEW v \in Ids
  PROVE  /\ Rows(<<u, v>>) \in Nat /\ Rows(<<v, u>>) \in Nat
         /\ RowsBetween(u, v) \in Nat
         /\ RowsBetween(u, v) > 0 <=> Rows(<<u, v>>) > 0 \/ Rows(<<v, u>>) > 0
<1>1. \A p \in Ids \X Ids : Rows(p) \in Nat
  BY DEF TypeOK, Rows
<1>2. Rows(<<u, v>>) \in Nat /\ Rows(<<v, u>>) \in Nat
  BY <1>1
<1>3. CASE u = v
  BY <1>2, <1>3 DEF RowsBetween
<1>4. CASE u # v
  BY <1>2, <1>4 DEF RowsBetween
<1> QED
  BY <1>2, <1>3, <1>4

LEMMA SameRows ==
  ASSUME UNCHANGED <<requests, contacts, accepting>>, NEW u, NEW v
  PROVE  RowsBetween(u, v)' = RowsBetween(u, v)
BY DEF RowsBetween, Rows

(* A step that changes no table and no acceptance preserves the invariant. *)
LEMMA SameTablesInv ==
  ASSUME IInv, UNCHANGED <<registered, requests, contacts, accepting>>,
         reply' \in StatusCodes, connection' \in {"up", "dead"}
  PROVE  IInv'
<1>1. AtMostOneRelation'
  BY SameRows DEF IInv, AtMostOneRelation
<1> QED
  BY <1>1 DEF IInv, TypeOK, OneAcceptance

(* A step that leaves every pair with the same rows or fewer, registers    *)
(* only, and keeps the types preserves the invariant.                      *)
LEMMA FewerRowsInv ==
  ASSUME IInv, TypeOK', OneAcceptance',
         registered \subseteq registered',
         \A p \in Ids \X Ids : Rows(p)' <= Rows(p)
  PROVE  IInv'
<1>1. ASSUME NEW u \in Ids, NEW v \in Ids
      PROVE  RowsBetween(u, v) \in Nat /\ RowsBetween(u, v)' \in Nat
             /\ RowsBetween(u, v)' <= RowsBetween(u, v)
  <2>1. /\ Rows(<<u, v>>) \in Nat /\ Rows(<<v, u>>) \in Nat
        /\ Rows(<<u, v>>)' \in Nat /\ Rows(<<v, u>>)' \in Nat
        /\ RowsBetween(u, v) \in Nat /\ RowsBetween(u, v)' \in Nat
    <3>1. TypeOK
      BY DEF IInv
    <3> QED
      BY <3>1, RowsAreCounted DEF RowsBetween, Rows, TypeOK
  <2>2. Rows(<<u, v>>)' <= Rows(<<u, v>>) /\ Rows(<<v, u>>)' <= Rows(<<v, u>>)
    OBVIOUS
  <2>3. CASE u = v
    BY <2>1, <2>2, <2>3 DEF RowsBetween
  <2>4. CASE u # v
    BY <2>1, <2>2, <2>4 DEF RowsBetween
  <2> QED
    BY <2>1, <2>3, <2>4
<1> QED
  BY <1>1 DEF IInv, AtMostOneRelation

(* Answers and failed statements. *)
Quietly ==
  /\ UNCHANGED <<registered, requests, contacts, accepting>>
  /\ reply' \in StatusCodes
  /\ connection' \in {"up", "dead"}

LEMMA QuietSteps ==
  ASSUME TypeOK
  PROVE  /\ DatabaseFails => Quietly
         /\ \A code \in StatusCodes : Answer(code) => Quietly
         /\ Committed => reply' \in StatusCodes /\ connection' \in {"up", "dead"}
BY DEF TypeOK, DatabaseFails, Failed, Answer, Committed, AnswerLost, Quietly, StatusCodes

(* An invitation joins two strangers, or somebody with himself: their only *)
(* row is the new one.                                                     *)
LEMMA Inviting ==
  ASSUME IInv, NEW me \in registered \cup {NoUser}, NEW other \in Ids,
         InviteCreate(me, other), ~Quietly
  PROVE  /\ me \in registered /\ other \in registered
         /\ requests \in [Ids \X Ids -> Nat] /\ contacts \in [Ids \X Ids -> Nat]
         /\ accepting = {}
         /\ \A p \in {<<me, other>>, <<other, me>>} : requests[p] = 0 /\ contacts[p] = 0
         /\ requests' \in [Ids \X Ids -> Nat]
         /\ requests'[<<me, other>>] = 1
         /\ \A p \in Ids \X Ids : p # <<me, other>> => requests'[p] = requests[p]
         /\ Committed
         /\ UNCHANGED <<registered, contacts, accepting>>
<1>1. PICK exact \in BOOLEAN :
        /\ Idle
        /\ UsersRelations(me, other, exact) = "NONE"
        /\ ForeignKeysHold(me, other)
        /\ InsertRequest(me, other)
        /\ Committed
        /\ UNCHANGED <<registered, contacts, accepting>>
  BY QuietSteps DEF InviteCreate, IInv, StatusCodes
<1>2. /\ me \in Ids /\ other \in Ids
      /\ me \in registered /\ other \in registered
  BY <1>1 DEF IInv, TypeOK, Ids, ForeignKeysHold
<1>3. /\ requests \in [Ids \X Ids -> Nat]
      /\ contacts \in [Ids \X Ids -> Nat]
      /\ accepting = {}
  BY <1>1 DEF IInv, TypeOK, Idle
<1>4. ~ContactExists(me, other) /\ ~RequestBetween(me, other)
  <2>1. ~(me = other /\ exact)
    BY <1>1 DEF UsersRelations
  <2> QED
    BY <1>1, <2>1 DEF UsersRelations
<1>5. /\ requests[<<me, other>>] = 0 /\ requests[<<other, me>>] = 0
      /\ contacts[<<me, other>>] = 0 /\ contacts[<<other, me>>] = 0
  BY <1>2, <1>3, <1>4 DEF ContactExists, RequestBetween, RequestExists
<1>6. /\ requests' \in [Ids \X Ids -> Nat]
      /\ requests'[<<me, other>>] = 1
      /\ \A p \in Ids \X Ids : p # <<me, other>> => requests'[p] = requests[p]
  BY <1>1, <1>2, <1>3, <1>5 DEF InsertRequest
<1> QED
  BY <1>1, <1>2, <1>3, <1>5, <1>6

LEMMA InviteCreateInv ==
  ASSUME IInv, NEW me \in registered \cup {NoUser}, NEW other \in Ids,
         InviteCreate(me, other)
  PROVE  IInv'
<1>1. CASE Quietly
  BY <1>1, SameTablesInv DEF Quietly
<1>2. CASE ~Quietly
  <2>1. /\ me \in registered /\ other \in registered
        /\ requests \in [Ids \X Ids -> Nat] /\ contacts \in [Ids \X Ids -> Nat]
        /\ accepting = {}
        /\ \A p \in {<<me, other>>, <<other, me>>} : requests[p] = 0 /\ contacts[p] = 0
        /\ requests' \in [Ids \X Ids -> Nat]
        /\ requests'[<<me, other>>] = 1
        /\ \A p \in Ids \X Ids : p # <<me, other>> => requests'[p] = requests[p]
        /\ Committed
        /\ UNCHANGED <<registered, contacts, accepting>>
    BY <1>2, Inviting
  <2>2. reply' \in StatusCodes /\ connection' \in {"up", "dead"}
    BY <2>1, QuietSteps DEF IInv
  <2>3. me \in Ids /\ other \in Ids
    BY <2>1 DEF IInv, TypeOK, Ids
  <2>4. TypeOK' /\ OneAcceptance'
    BY <2>1, <2>2 DEF IInv, TypeOK, OneAcceptance
  <2>5. ASSUME NEW u \in Ids, NEW v \in Ids
        PROVE  /\ {u, v} = {me, other} => RowsBetween(u, v)' = 1
               /\ {u, v} # {me, other} => RowsBetween(u, v)' = RowsBetween(u, v)
    <3>1. CASE u = me /\ v = other
      BY <3>1, <2>1, <2>3 DEF RowsBetween, Rows
    <3>2. CASE u = other /\ v = me
      BY <3>2, <2>1, <2>3 DEF RowsBetween, Rows
    <3>3. CASE {u, v} # {me, other}
      <4>1. requests'[<<u, v>>] = requests[<<u, v>>] /\ requests'[<<v, u>>] = requests[<<v, u>>]
        BY <3>3, <2>1
      <4> QED
        BY <3>3, <4>1, <2>1 DEF RowsBetween, Rows
    <3> QED
      BY <3>1, <3>2, <3>3
  <2>6. ASSUME NEW u \in Ids, NEW v \in Ids
        PROVE  /\ RowsBetween(u, v)' <= 1
               /\ RowsBetween(u, v)' > 0 => u \in registered' /\ v \in registered'
    <3>1. CASE {u, v} = {me, other}
      <4>1. u \in registered /\ v \in registered
        BY <3>1, <2>1
      <4>2. RowsBetween(u, v)' = 1
        BY <3>1, <2>5
      <4>3. registered' = registered
        BY <2>1
      <4> QED
        BY <4>1, <4>2, <4>3
    <3>2. CASE {u, v} # {me, other}
      <4>1. RowsBetween(u, v)' = RowsBetween(u, v)
        BY <3>2, <2>5
      <4> QED
        BY <4>1, <2>1 DEF IInv, AtMostOneRelation
    <3> QED
      BY <3>1, <3>2
  <2>7. AtMostOneRelation'
    BY <2>6 DEF AtMostOneRelation
  <2> QED
    BY <2>4, <2>7 DEF IInv
<1> QED
  BY <1>1, <1>2

(* Accepting deletes the only row of the pair, which counts as one still   *)
(* unless the answer to the deletion was lost.                             *)
LEMMA Accepting ==
  ASSUME IInv, NEW me \in registered \cup {NoUser}, NEW ufrom \in Ids,
         InviteAccept(me, ufrom), ~Quietly
  PROVE  /\ me \in Ids /\ <<ufrom, me>> \in Ids \X Ids
         /\ requests \in [Ids \X Ids -> Nat] /\ contacts \in [Ids \X Ids -> Nat]
         /\ accepting = {}
         /\ requests[<<ufrom, me>>] > 0
         /\ requests' \in [Ids \X Ids -> Nat]
         /\ requests'[<<ufrom, me>>] = 0
         /\ \A p \in Ids \X Ids : p # <<ufrom, me>> => requests'[p] = requests[p]
         /\ \/ connection = "up" /\ AnswerLost /\ UNCHANGED accepting
            \/ accepting' = {<<ufrom, me>>} /\ UNCHANGED <<connection, reply>>
         /\ UNCHANGED <<registered, contacts>>
<1>1. /\ Idle
      /\ connection = "up" /\ RequestExists(ufrom, me)
      /\ DeleteRequest(ufrom, me)
      /\ \/ AnswerLost /\ UNCHANGED accepting
         \/ accepting' = {<<ufrom, me>>} /\ UNCHANGED <<connection, reply>>
      /\ UNCHANGED <<registered, contacts>>
  BY QuietSteps DEF InviteAccept, IInv, StatusCodes
<1>2. /\ me \in Ids /\ ufrom \in Ids
      /\ requests \in [Ids \X Ids -> Nat]
      /\ contacts \in [Ids \X Ids -> Nat]
      /\ accepting = {}
  BY <1>1 DEF IInv, TypeOK, Ids, Idle
<1>3. requests[<<ufrom, me>>] > 0
  BY <1>1 DEF RequestExists
<1>4. /\ requests' \in [Ids \X Ids -> Nat]
      /\ requests'[<<ufrom, me>>] = 0
      /\ \A p \in Ids \X Ids : p # <<ufrom, me>> => requests'[p] = requests[p]
  BY <1>1, <1>2 DEF DeleteRequest
<1> QED
  BY <1>1, <1>2, <1>3, <1>4

LEMMA InviteAcceptInv ==
  ASSUME IInv, NEW me \in registered \cup {NoUser}, NEW ufrom \in Ids,
         InviteAccept(me, ufrom)
  PROVE  IInv'
<1>1. CASE Quietly
  BY <1>1, SameTablesInv DEF Quietly
<1>2. CASE ~Quietly
  <2>1. /\ me \in Ids /\ <<ufrom, me>> \in Ids \X Ids
        /\ requests \in [Ids \X Ids -> Nat] /\ contacts \in [Ids \X Ids -> Nat]
        /\ accepting = {}
        /\ requests[<<ufrom, me>>] > 0
        /\ requests' \in [Ids \X Ids -> Nat]
        /\ requests'[<<ufrom, me>>] = 0
        /\ \A p \in Ids \X Ids : p # <<ufrom, me>> => requests'[p] = requests[p]
        /\ \/ connection = "up" /\ AnswerLost /\ UNCHANGED accepting
           \/ accepting' = {<<ufrom, me>>} /\ UNCHANGED <<connection, reply>>
        /\ UNCHANGED <<registered, contacts>>
    BY <1>2, Accepting
  <2>2. TypeOK' /\ OneAcceptance'
    BY <2>1 DEF IInv, TypeOK, OneAcceptance, AnswerLost, Failed, StatusCodes
  <2>3. ASSUME NEW p \in Ids \X Ids
        PROVE  Rows(p)' <= Rows(p)
    <3>1. /\ contacts[p] \in Nat /\ requests[p] \in Nat /\ requests'[p] \in Nat
      BY <2>1
    <3>2. CASE p = <<ufrom, me>>
      BY <3>1, <3>2, <2>1 DEF Rows
    <3>3. CASE p # <<ufrom, me>>
      BY <3>1, <3>3, <2>1 DEF Rows
    <3> QED
      BY <3>2, <3>3
  <2> QED
    BY <2>1, <2>2, <2>3, FewerRowsInv
<1> QED
  BY <1>1, <1>2

(* The new contact takes the place of the accepted invitation. *)
LEMMA CreateContactInv == IInv /\ CreateContact => IInv'
<1> SUFFICES ASSUME IInv, CreateContact PROVE IInv'
  OBVIOUS
<1>1. PICK p \in accepting : InsertContact(p[1], p[2])
  BY DEF CreateContact
<1>2. /\ accepting' = {} /\ reply' \in StatusCodes /\ connection' \in {"up", "dead"}
      /\ UNCHANGED <<registered, requests>>
  BY QuietSteps DEF CreateContact, IInv
<1>3. /\ p \in Ids \X Ids /\ p = <<p[1], p[2]>>
      /\ requests \in [Ids \X Ids -> Nat]
      /\ contacts \in [Ids \X Ids -> Nat]
      /\ \A q \in accepting : q = p
  BY DEF IInv, TypeOK, OneAcceptance
<1>4. /\ contacts' \in [Ids \X Ids -> Nat]
      /\ contacts'[p] = contacts[p] + 1
      /\ \A q \in Ids \X Ids : q # p => contacts'[q] = contacts[q]
  BY <1>1, <1>3 DEF InsertContact
<1>5. TypeOK' /\ OneAcceptance'
  BY <1>2, <1>4 DEF IInv, TypeOK, OneAcceptance
<1>6. ASSUME NEW q \in Ids \X Ids
      PROVE  Rows(q)' <= Rows(q)
  <2>1. contacts[q] \in Nat /\ requests[q] \in Nat
    BY <1>3
  <2>2. CASE q = p
    BY <2>1, <2>2, <1>2, <1>4 DEF Rows
  <2>3. CASE q # p
    BY <2>1, <2>3, <1>2, <1>3, <1>4 DEF Rows
  <2> QED
    BY <2>2, <2>3
<1> QED
  BY <1>2, <1>5, <1>6, FewerRowsInv

(* Losing the half accepted invitation loses its row. *)
LEMMA AcceptanceLostInv ==
  ASSUME IInv, CreateContactFails \/ Crash
  PROVE  IInv'
<1>1. /\ accepting' = {} /\ reply' \in StatusCodes /\ connection' \in {"up", "dead"}
      /\ registered' = registered /\ requests' = requests /\ contacts' = contacts
  BY DEF CreateContactFails, Crash, Failed, tables, StatusCodes, IInv, TypeOK
<1>2. TypeOK' /\ OneAcceptance'
  BY <1>1 DEF IInv, TypeOK, OneAcceptance
<1>3. ASSUME NEW p \in Ids \X Ids
      PROVE  Rows(p)' <= Rows(p)
  <2>1. contacts[p] \in Nat /\ requests[p] \in Nat
    BY DEF IInv, TypeOK
  <2> QED
    BY <1>1, <2>1 DEF Rows
<1> QED
  BY <1>1, <1>2, <1>3, FewerRowsInv

(* Withdrawing an invitation, from either side, removes its row. *)
LEMMA WithdrawRequestInv ==
  ASSUME IInv, NEW a \in Ids, NEW b \in Ids, WithdrawRequest(a, b)
  PROVE  IInv'
<1>1. CASE Quietly
  BY <1>1, SameTablesInv DEF Quietly
<1>2. CASE /\ DeleteRequest(a, b)
           /\ Committed
           /\ UNCHANGED <<registered, contacts, accepting>>
  <2>1. requests \in [Ids \X Ids -> Nat] /\ contacts \in [Ids \X Ids -> Nat]
    BY DEF IInv, TypeOK
  <2>2. /\ requests' \in [Ids \X Ids -> Nat]
        /\ \A p \in Ids \X Ids : requests'[p] <= requests[p]
    BY <1>2, <2>1 DEF DeleteRequest
  <2>3. reply' \in StatusCodes /\ connection' \in {"up", "dead"}
    BY <1>2, QuietSteps DEF IInv
  <2>4. TypeOK' /\ OneAcceptance'
    BY <1>2, <2>2, <2>3 DEF IInv, TypeOK, OneAcceptance
  <2>5. ASSUME NEW p \in Ids \X Ids
        PROVE  Rows(p)' <= Rows(p)
    <3>1. /\ contacts[p] \in Nat /\ requests[p] \in Nat /\ requests'[p] \in Nat
          /\ requests'[p] <= requests[p]
      BY <2>1, <2>2
    <3> QED
      BY <3>1, <1>2 DEF Rows
  <2> QED
    BY <1>2, <2>4, <2>5, FewerRowsInv
<1> QED
  BY <1>1, <1>2, QuietSteps DEF WithdrawRequest, IInv, StatusCodes

(* Deleting a contact removes the rows of the pair in both directions. *)
LEMMA Deleting ==
  ASSUME contacts \in [Ids \X Ids -> Nat], NEW me \in Ids, NEW other \in Ids,
         DeleteContact(me, other)
  PROVE  /\ contacts' \in [Ids \X Ids -> Nat]
         /\ \A p \in {<<me, other>>, <<other, me>>} : contacts'[p] = 0
         /\ \A p \in Ids \X Ids :
              p \notin {<<me, other>>, <<other, me>>} => contacts'[p] = contacts[p]
<1> DEFINE c == [contacts EXCEPT ![<<me, other>>] = 0]
<1>1. /\ c \in [Ids \X Ids -> Nat]
      /\ c[<<me, other>>] = 0
      /\ \A p \in Ids \X Ids : p # <<me, other>> => c[p] = contacts[p]
  OBVIOUS
<1>2. contacts' = [c EXCEPT ![<<other, me>>] = 0]
  BY DEF DeleteContact
<1> HIDE DEF c
<1>3. /\ contacts' \in [Ids \X Ids -> Nat]
      /\ contacts'[<<other, me>>] = 0
      /\ \A p \in Ids \X Ids : p # <<other, me>> => contacts'[p] = c[p]
  BY <1>1, <1>2
<1>4. contacts'[<<me, other>>] = 0
  <2>1. CASE <<me, other>> = <<other, me>>
    BY <1>3, <2>1
  <2>2. CASE <<me, other>> # <<other, me>>
    BY <1>1, <1>3, <2>2
  <2> QED
    BY <2>1, <2>2
<1> QED
  BY <1>1, <1>3, <1>4

LEMMA ContactDeleteInv ==
  ASSUME IInv, NEW me \in registered \cup {NoUser}, NEW other \in Ids,
         ContactDelete(me, other)
  PROVE  IInv'
<1>1. CASE Quietly
  BY <1>1, SameTablesInv DEF Quietly
<1>2. CASE /\ DeleteContact(me, other)
           /\ Committed
           /\ UNCHANGED <<registered, requests, accepting>>
  <2>1. /\ requests \in [Ids \X Ids -> Nat] /\ contacts \in [Ids \X Ids -> Nat]
        /\ me \in Ids
    BY DEF IInv, TypeOK, Ids
  <2>2. /\ contacts' \in [Ids \X Ids -> Nat]
        /\ \A p \in {<<me, other>>, <<other, me>>} : contacts'[p] = 0
        /\ \A p \in Ids \X Ids :
             p \notin {<<me, other>>, <<other, me>>} => contacts'[p] = contacts[p]
    BY <1>2, <2>1, Deleting
  <2>3. reply' \in StatusCodes /\ connection' \in {"up", "dead"}
    BY <1>2, QuietSteps DEF IInv
  <2>4. TypeOK' /\ OneAcceptance'
    BY <1>2, <2>2, <2>3 DEF IInv, TypeOK, OneAcceptance
  <2>5. ASSUME NEW p \in Ids \X Ids
        PROVE  Rows(p)' <= Rows(p)
    <3>1. /\ contacts[p] \in Nat /\ requests[p] \in Nat /\ contacts'[p] \in Nat
          /\ contacts'[p] <= contacts[p]
      BY <2>1, <2>2
    <3> QED
      BY <3>1, <1>2 DEF Rows
  <2> QED
    BY <1>2, <2>4, <2>5, FewerRowsInv
<1> QED
  BY <1>1, <1>2, QuietSteps DEF ContactDelete, IInv, StatusCodes

(* A signup only adds to the users. *)
LEMMA RegisterInv == IInv /\ Register => IInv'
<1> SUFFICES ASSUME IInv, Register PROVE IInv'
  OBVIOUS
<1>1. /\ registered \subseteq registered' /\ registered' \subseteq Users
      /\ connection' \in {"up", "dead"}
      /\ UNCHANGED <<requests, contacts, accepting, reply>>
  BY DEF Register, IInv, TypeOK
<1>2. TypeOK' /\ OneAcceptance'
  BY <1>1 DEF IInv, TypeOK, OneAcceptance
<1>3. AtMostOneRelation'
  <2>1. \A u, v : RowsBetween(u, v)' = RowsBetween(u, v)
    BY <1>1, SameRows
  <2> QED
    BY <1>1, <2>1 DEF IInv, AtMostOneRelation
<1> QED
  BY <1>2, <1>3 DEF IInv

(* One step. *)
LEMMA NextInv == IInv /\ [Next]_vars => IInv'
<1> SUFFICES ASSUME IInv, [Next]_vars PROVE IInv'
  OBVIOUS
<1>1. ASSUME NEW me \in registered \cup {NoUser}, NEW other \in Ids, Command(me, other)
      PROVE  IInv'
  <2>1. me \in Ids
    BY DEF IInv, TypeOK, Ids
  <2> QED
    BY <1>1, <2>1, InviteCreateInv, InviteAcceptInv, WithdrawRequestInv, ContactDeleteInv
       DEF Command, InviteReject, InviteCancel
<1>2. CASE CreateContact
  BY <1>2, CreateContactInv
<1>3. CASE CreateContactFails \/ Crash
  BY <1>3, AcceptanceLostInv
<1>4. CASE Register
  BY <1>4, RegisterInv
<1>5. CASE UNCHANGED vars
  BY <1>5, SameTablesInv DEF vars, IInv, TypeOK
<1> QED
  BY <1>1, <1>2, <1>3, <1>4, <1>5 DEF Next

(* The inductive invariant holds. *)
THEOREM Invariant == Spec => []IInv
<1> QED
  BY InitInv, NextInv, PTL DEF Spec

(* The tables keep their types. *)
THEOREM TypeCorrect == Spec => []TypeOK
<1>1. IInv => TypeOK
  BY DEF IInv
<1> QED
  BY <1>1, Invariant, PTL

(* For any number of users, two of them never have more than one row       *)
(* between them, although no table has a unique key, the server compares   *)
(* ids otherwise than the database, and an answer may get lost.            *)
THEOREM RelationsAreUnique == Spec => []AtMostOneRelation
<1>1. IInv => AtMostOneRelation
  BY DEF IInv
<1> QED
  BY <1>1, Invariant, PTL

-----------------------------------------------------------------------------
(* The selections.                                                         *)

(* Between two commands the rows of two different ids are four counts of   *)
(* which at most one is not zero.                                          *)
LEMMA CountsOfPair ==
  ASSUME IInv, Idle, NEW u \in Ids, NEW v \in Ids, u # v
  PROVE  /\ requests[<<u, v>>] \in Nat /\ requests[<<v, u>>] \in Nat
         /\ contacts[<<u, v>>] \in Nat /\ contacts[<<v, u>>] \in Nat
         /\ requests[<<u, v>>] + requests[<<v, u>>] + contacts[<<u, v>>] + contacts[<<v, u>>] <= 1
<1>1. RowsBetween(u, v) <= 1
  BY DEF IInv, AtMostOneRelation
<1>2. /\ requests[<<u, v>>] \in Nat /\ requests[<<v, u>>] \in Nat
      /\ contacts[<<u, v>>] \in Nat /\ contacts[<<v, u>>] \in Nat
  BY DEF IInv, TypeOK
<1> QED
  BY <1>1, <1>2 DEF RowsBetween, Rows, Idle

(* Between two commands any two registered users find each other by        *)
(* exactly one of search, the invitation lists and the contact check.      *)
THEOREM ListsAgree == Spec => []EveryUserInOneList
<1>1. ASSUME IInv PROVE EveryUserInOneList
  <2> SUFFICES ASSUME Idle, NEW me \in registered, NEW u \in registered \ {me}
               PROVE  LET found == << u \in SearchingList(me), u \in IncomingInvites(me),
                                      u \in OutcomingInvites(me), ContactExists(me, u) >>
                      IN  /\ \E i \in 1 .. 4 : \A j \in 1 .. 4 : found[j] <=> i = j
                          /\ found[4] => u \in ContactsList(me)
    BY DEF EveryUserInOneList
  <2> USE <1>1
  <2>1. me \in Ids /\ u \in Ids /\ u # me
    BY DEF IInv, TypeOK, Ids
  <2> DEFINE rm == requests[<<me, u>>]
             ru == requests[<<u, me>>]
             cm == contacts[<<me, u>>]
             cu == contacts[<<u, me>>]
             one == u \in SearchingList(me)
             two == u \in IncomingInvites(me)
             three == u \in OutcomingInvites(me)
             four == ContactExists(me, u)
  <2>2. rm \in Nat /\ ru \in Nat /\ cm \in Nat /\ cu \in Nat /\ rm + ru + cm + cu <= 1
    BY <2>1, CountsOfPair
  <2>3. one <=> ~(cu > 0) /\ ~(cm > 0) /\ ~(ru > 0) /\ ~(rm > 0)
    BY <2>1 DEF SearchingList
  <2>4. two <=> ru > 0
    BY DEF IncomingInvites, RequestExists
  <2>5. three <=> rm > 0
    BY DEF OutcomingInvites, RequestExists
  <2>6. four <=> cm + cu > 0
    BY DEF ContactExists
  <2>7. four => u \in ContactsList(me)
    BY <2>1, <2>2, <2>6 DEF ContactsList
  <2>8. \/ one /\ ~two /\ ~three /\ ~four
        \/ ~one /\ two /\ ~three /\ ~four
        \/ ~one /\ ~two /\ three /\ ~four
        \/ ~one /\ ~two /\ ~three /\ four
    <3> HIDE DEF rm, ru, cm, cu, one, two, three, four
    <3> QED
      BY <2>2, <2>3, <2>4, <2>5, <2>6
  <2> HIDE DEF one, two, three, four
  <2>9. \E i \in 1 .. 4 : \A j \in 1 .. 4 : <<one, two, three, four>>[j] <=> i = j
    BY <2>8
  <2> QED
    BY <2>7, <2>9 DEF one, two, three, four
<1> QED
  BY <1>1, Invariant, PTL

-----------------------------------------------------------------------------
(* How a relation ends.                                                    *)

(* An accepted invitation goes on to count as a row, unless the answer to  *)
(* its deletion was lost.                                                  *)
LEMMA AcceptKeepsRows ==
  ASSUME IInv, NEW me \in registered \cup {NoUser}, NEW ufrom \in Ids,
         InviteAccept(me, ufrom), NEW u \in Ids, NEW v \in Ids,
         RowsBetween(u, v) > 0, RowsBetween(u, v)' = 0
  PROVE  connection = "up" /\ AnswerLost
<1>1. CASE Quietly
  BY <1>1, SameRows DEF Quietly
<1>2. CASE ~Quietly
  <2>1. /\ requests \in [Ids \X Ids -> Nat] /\ contacts \in [Ids \X Ids -> Nat]
        /\ accepting = {}
        /\ requests' \in [Ids \X Ids -> Nat]
        /\ \A p \in Ids \X Ids : p # <<ufrom, me>> => requests'[p] = requests[p]
        /\ \/ connection = "up" /\ AnswerLost /\ UNCHANGED accepting
           \/ accepting' = {<<ufrom, me>>} /\ UNCHANGED <<connection, reply>>
        /\ UNCHANGED <<registered, contacts>>
    BY <1>2, Accepting
  <2>2. CASE accepting' = {<<ufrom, me>>}
    <3>1. ASSUME NEW p \in Ids \X Ids, Rows(p) > 0 PROVE Rows(p)' > 0
      <4>1. requests'[p] \in Nat /\ contacts[p] \in Nat /\ requests[p] \in Nat
        BY <2>1
      <4>2. CASE p = <<ufrom, me>>
        BY <2>1, <2>2, <4>1, <4>2 DEF Rows
      <4>3. CASE p # <<ufrom, me>>
        BY <2>1, <2>2, <3>1, <4>1, <4>3 DEF Rows
      <4> QED
        BY <4>2, <4>3
    <3>2. Rows(<<u, v>>) > 0 \/ Rows(<<v, u>>) > 0
      BY RowsAreCounted DEF IInv
    <3>3. Rows(<<u, v>>)' > 0 \/ Rows(<<v, u>>)' > 0
      BY <3>1, <3>2
    <3>4. Rows(<<u, v>>)' \in Nat /\ Rows(<<v, u>>)' \in Nat
      BY <2>1 DEF Rows
    <3>5. CASE u = v
      BY <3>3, <3>4, <3>5 DEF RowsBetween
    <3>6. CASE u # v
      BY <3>3, <3>4, <3>6 DEF RowsBetween
    <3> QED
      BY <3>5, <3>6
  <2> QED
    BY <2>1, <2>2
<1> QED
  BY <1>1, <1>2

(* How a step may end the relation of u and v. *)
Knowingly(u, v) ==
  \/ reply' = "SYS__OKEY"
  \/ accepting \cap {<<u, v>>, <<v, u>>} # {} /\ (CreateContactFails \/ Crash)
  \/ connection = "up" /\ AnswerLost

(* Every step says OK, loses an answer or a half done acceptance, or ends  *)
(* nothing.                                                                *)
LEMMA StepEndsKnowingly ==
  ASSUME IInv, Next, NEW u \in Ids, NEW v \in Ids,
         RowsBetween(u, v) > 0, RowsBetween(u, v)' = 0
  PROVE  Knowingly(u, v)
<1>1. ASSUME UNCHANGED <<requests, contacts, accepting>> PROVE FALSE
  BY <1>1, SameRows
<1>2. ~Quietly
  BY <1>1 DEF Quietly
<1>3. ASSUME Committed PROVE Knowingly(u, v)
  BY <1>3 DEF Committed, Knowingly
<1>4. ASSUME NEW me \in registered \cup {NoUser}, NEW other \in Ids, Command(me, other)
      PROVE  Knowingly(u, v)
  <2>1. CASE InviteCreate(me, other)
    BY <2>1, <1>2, <1>3, Inviting
  <2>2. CASE InviteAccept(me, other)
    BY <2>2, AcceptKeepsRows DEF Knowingly
  <2>3. CASE InviteReject(me, other) \/ InviteCancel(me, other)
    BY <2>3, <1>2, <1>3, QuietSteps
       DEF InviteReject, InviteCancel, WithdrawRequest, IInv, StatusCodes
  <2>4. CASE ContactDelete(me, other)
    BY <2>4, <1>2, <1>3, QuietSteps DEF ContactDelete, IInv, StatusCodes
  <2> QED
    BY <1>4, <2>1, <2>2, <2>3, <2>4 DEF Command
<1>5. CASE CreateContact
  BY <1>3, <1>5 DEF CreateContact
<1>6. CASE CreateContactFails \/ Crash
  <2>1. CASE accepting \cap {<<u, v>>, <<v, u>>} = {}
    <3>1. RowsBetween(u, v)' = RowsBetween(u, v)
      BY <1>6, <2>1 DEF CreateContactFails, Crash, tables, RowsBetween, Rows
    <3> QED
      BY <3>1
  <2> QED
    BY <1>6, <2>1 DEF Knowingly
<1>7. CASE Register
  BY <1>7, <1>1 DEF Register
<1> QED
  BY <1>4, <1>5, <1>6, <1>7 DEF Next

(* For any users, no relation ends behind their backs: only an OK ends it, *)
(* an acceptance that was cut between its two statements, or an answer of  *)
(* the database that was lost.                                             *)
THEOREM EndsAreKnown == Spec => RelationEndsKnowingly
<1> DEFINE Ends ==
      \A u, v \in Ids :
        (RowsBetween(u, v) > 0 /\ RowsBetween(u, v)' = 0) =>
           \/ reply' = "SYS__OKEY"
           \/ accepting \cap {<<u, v>>, <<v, u>>} # {} /\ (CreateContactFails \/ Crash)
           \/ connection = "up" /\ AnswerLost
<1>1. IInv /\ [Next]_vars => [Ends]_vars
  BY StepEndsKnowingly DEF Knowingly
<1> QED
  BY <1>1, Invariant, PTL DEF Spec, RelationEndsKnowingly

-----------------------------------------------------------------------------
(* The refinement of ContactBook.                                          *)

LEMMA FriendsAreContacts ==
  ASSUME IInv, NEW u \in Ids, NEW v \in Ids
  PROVE  {u, v} \in Friends <=> contacts[<<u, v>>] > 0 \/ contacts[<<v, u>>] > 0
<1>1. ASSUME NEW p \in Ids \X Ids, {u, v} = {p[1], p[2]}
      PROVE  p = <<u, v>> \/ p = <<v, u>>
  BY <1>1
<1> QED
  BY <1>1 DEF Friends

LEMMA InitRefines == Init => Book!Init
BY DEF Init, Book!Init, Invited, Friends

(* A step that keeps the tables and the acceptance is a stutter. *)
LEMMA SameBook ==
  ASSUME UNCHANGED <<requests, contacts, accepting>>
  PROVE  UNCHANGED <<Invited, Friends>>
BY DEF Invited, Friends

LEMMA InviteCreateRefines ==
  ASSUME IInv, NEW me \in registered \cup {NoUser}, NEW other \in Ids,
         InviteCreate(me, other)
  PROVE  Book!Next \/ UNCHANGED <<Invited, Friends>>
<1>1. CASE Quietly
  BY <1>1, SameBook DEF Quietly
<1>2. CASE ~Quietly
  <2>1. /\ me \in registered /\ other \in registered
        /\ requests \in [Ids \X Ids -> Nat] /\ contacts \in [Ids \X Ids -> Nat]
        /\ accepting = {}
        /\ \A p \in {<<me, other>>, <<other, me>>} : requests[p] = 0 /\ contacts[p] = 0
        /\ requests' \in [Ids \X Ids -> Nat]
        /\ requests'[<<me, other>>] = 1
        /\ \A p \in Ids \X Ids : p # <<me, other>> => requests'[p] = requests[p]
        /\ Committed
        /\ UNCHANGED <<registered, contacts, accepting>>
    BY <1>2, Inviting
  <2>2. me \in Ids /\ other \in Ids
    BY <2>1 DEF IInv, TypeOK, Ids
  <2>3. <<me, other>> \notin Invited /\ <<other, me>> \notin Invited
    BY <2>1, <2>2 DEF Invited
  <2>4. {me, other} \notin Friends
    BY <2>1, <2>2, FriendsAreContacts
  <2>5. Invited' = Invited \cup {<<me, other>>}
    BY <2>1, <2>2 DEF Invited
  <2>6. Friends' = Friends
    BY <2>1 DEF Friends
  <2>7. Book!Invite(me, other)
    BY <2>3, <2>4, <2>5, <2>6 DEF Book!Invite, Book!Strangers
  <2> QED
    BY <2>2, <2>7 DEF Book!Next
<1> QED
  BY <1>1, <1>2

(* The deleted request lives on as the half done acceptance, or it is the  *)
(* invitation that is lost.                                                *)
LEMMA InviteAcceptRefines ==
  ASSUME IInv, NEW me \in registered \cup {NoUser}, NEW ufrom \in Ids,
         InviteAccept(me, ufrom)
  PROVE  Book!Next \/ UNCHANGED <<Invited, Friends>>
<1>1. CASE Quietly
  BY <1>1, SameBook DEF Quietly
<1>2. CASE ~Quietly
  <2>1. /\ me \in Ids /\ <<ufrom, me>> \in Ids \X Ids
        /\ requests \in [Ids \X Ids -> Nat] /\ contacts \in [Ids \X Ids -> Nat]
        /\ accepting = {}
        /\ requests[<<ufrom, me>>] > 0
        /\ requests' \in [Ids \X Ids -> Nat]
        /\ requests'[<<ufrom, me>>] = 0
        /\ \A p \in Ids \X Ids : p # <<ufrom, me>> => requests'[p] = requests[p]
        /\ \/ connection = "up" /\ AnswerLost /\ UNCHANGED accepting
           \/ accepting' = {<<ufrom, me>>} /\ UNCHANGED <<connection, reply>>
        /\ UNCHANGED <<registered, contacts>>
    BY <1>2, Accepting
  <2>2. Friends' = Friends
    BY <2>1 DEF Friends
  <2>3. CASE accepting' = {<<ufrom, me>>}
    <3>1. Invited' = Invited
      BY <2>1, <2>3 DEF Invited
    <3> QED
      BY <2>2, <3>1
  <2>4. CASE accepting' = accepting
    <3>1. <<ufrom, me>> \in Invited /\ Invited' = Invited \ {<<ufrom, me>>}
      BY <2>1, <2>4 DEF Invited
    <3>2. Book!Withdraw(ufrom, me)
      BY <2>2, <3>1 DEF Book!Withdraw
    <3> QED
      BY <2>1, <3>2 DEF Book!Next
  <2> QED
    BY <2>1, <2>3, <2>4
<1> QED
  BY <1>1, <1>2

(* The only request of a pair is gone when its acceptance is half done. *)
LEMMA HalfHasNoRequest ==
  ASSUME IInv, NEW p \in accepting
  PROVE  /\ p \in Ids \X Ids /\ accepting = {p}
         /\ requests[p] = 0
         /\ Invited' = {q \in Ids \X Ids : requests'[q] > 0} \cup accepting'
<1>1. p \in Ids \X Ids /\ accepting = {p}
  BY DEF IInv, TypeOK, OneAcceptance
<1>2. PICK u \in Ids, v \in Ids : p = <<u, v>>
  BY <1>1
<1>3. /\ Rows(<<u, v>>) \in Nat /\ Rows(<<v, u>>) \in Nat
      /\ requests[p] \in Nat /\ contacts[p] \in Nat
  BY <1>1, RowsAreCounted DEF IInv, TypeOK
<1>4. Rows(<<u, v>>) <= 1
  <2>1. RowsBetween(u, v) <= 1
    BY DEF IInv, AtMostOneRelation
  <2>2. CASE u = v
    BY <1>3, <2>1, <2>2 DEF RowsBetween
  <2>3. CASE u # v
    BY <1>3, <2>1, <2>3 DEF RowsBetween
  <2> QED
    BY <2>2, <2>3
<1>5. requests[p] = 0
  BY <1>2, <1>3, <1>4 DEF Rows
<1> QED
  BY <1>1, <1>5 DEF Invited

LEMMA CreateContactRefines ==
  ASSUME IInv, CreateContact
  PROVE  Book!Next
<1>1. PICK p \in accepting : InsertContact(p[1], p[2])
  BY DEF CreateContact
<1>2. accepting' = {} /\ requests' = requests
  BY DEF CreateContact
<1>3. /\ p \in Ids \X Ids /\ accepting = {p} /\ requests[p] = 0
      /\ Invited' = {q \in Ids \X Ids : requests'[q] > 0} \cup accepting'
  BY HalfHasNoRequest
<1>4. PICK u \in Ids, v \in Ids : p = <<u, v>>
  BY <1>3
<1>5. /\ contacts \in [Ids \X Ids -> Nat] /\ contacts' \in [Ids \X Ids -> Nat]
      /\ contacts'[<<u, v>>] > 0
      /\ \A q \in Ids \X Ids : q # <<u, v>> => contacts'[q] = contacts[q]
  BY <1>1, <1>4 DEF InsertContact, IInv, TypeOK
<1>6. <<u, v>> \in Invited /\ Invited' = Invited \ {<<u, v>>}
  BY <1>2, <1>3, <1>4 DEF Invited
<1>7. Friends' = Friends \cup {{u, v}}
  <2>1. Friends' = {{q[1], q[2]} : q \in {r \in Ids \X Ids : contacts'[r] > 0}}
    BY DEF Friends
  <2>2. ASSUME NEW f \in Friends', f \notin Friends PROVE f = {u, v}
    <3>1. PICK q \in Ids \X Ids : contacts'[q] > 0 /\ f = {q[1], q[2]}
      BY <2>1
    <3>2. q = <<u, v>>
      BY <3>1, <2>2, <1>5 DEF Friends
    <3> QED
      BY <3>1, <3>2
  <2>3. Friends \subseteq Friends'
    <3>1. \A q \in Ids \X Ids : contacts[q] > 0 => contacts'[q] > 0
      BY <1>5
    <3> QED
      BY <3>1, <2>1 DEF Friends
  <2>4. {u, v} \in Friends'
    <3>1. <<u, v>> \in {r \in Ids \X Ids : contacts'[r] > 0}
      BY <1>5
    <3>2. {<<u, v>>[1], <<u, v>>[2]} \in Friends'
      BY <3>1, <2>1
    <3> QED
      BY <3>2
  <2> QED
    BY <2>2, <2>3, <2>4
<1>8. Book!Befriend(u, v)
  BY <1>6, <1>7 DEF Book!Befriend
<1> QED
  BY <1>8 DEF Book!Next

(* A lost acceptance is a withdrawn invitation. *)
LEMMA AcceptanceLostRefines ==
  ASSUME IInv, CreateContactFails \/ Crash
  PROVE  Book!Next \/ UNCHANGED <<Invited, Friends>>
<1>1. accepting' = {} /\ requests' = requests /\ contacts' = contacts
  BY DEF CreateContactFails, Crash, tables
<1>2. CASE accepting = {}
  BY <1>1, <1>2, SameBook
<1>3. ASSUME NEW p \in accepting PROVE Book!Next
  <2>1. /\ p \in Ids \X Ids /\ accepting = {p} /\ requests[p] = 0
        /\ Invited' = {q \in Ids \X Ids : requests'[q] > 0} \cup accepting'
    BY HalfHasNoRequest
  <2>2. PICK u \in Ids, v \in Ids : p = <<u, v>>
    BY <2>1
  <2>3. <<u, v>> \in Invited /\ Invited' = Invited \ {<<u, v>>}
    BY <1>1, <2>1, <2>2 DEF Invited
  <2>4. Friends' = Friends
    BY <1>1 DEF Friends
  <2>5. Book!Withdraw(u, v)
    BY <2>3, <2>4 DEF Book!Withdraw
  <2> QED
    BY <2>5 DEF Book!Next
<1> QED
  BY <1>2, <1>3

LEMMA WithdrawRequestRefines ==
  ASSUME IInv, NEW a \in Ids, NEW b \in Ids, WithdrawRequest(a, b)
  PROVE  Book!Next \/ UNCHANGED <<Invited, Friends>>
<1>1. CASE Quietly
  BY <1>1, SameBook DEF Quietly
<1>2. CASE /\ Idle
           /\ RequestExists(a, b)
           /\ DeleteRequest(a, b)
           /\ UNCHANGED <<contacts, accepting>>
  <2>1. requests \in [Ids \X Ids -> Nat] /\ accepting = {} /\ accepting' = {}
    BY <1>2 DEF IInv, TypeOK, Idle
  <2>2. /\ requests' \in [Ids \X Ids -> Nat]
        /\ requests[<<a, b>>] > 0 /\ requests'[<<a, b>>] = 0
        /\ \A q \in Ids \X Ids : q # <<a, b>> => requests'[q] = requests[q]
    BY <1>2, <2>1 DEF DeleteRequest, RequestExists
  <2>3. <<a, b>> \in Invited /\ Invited' = Invited \ {<<a, b>>}
    BY <2>1, <2>2 DEF Invited
  <2>4. Friends' = Friends
    BY <1>2 DEF Friends
  <2>5. Book!Withdraw(a, b)
    BY <2>3, <2>4 DEF Book!Withdraw
  <2> QED
    BY <2>5 DEF Book!Next
<1> QED
  BY <1>1, <1>2, QuietSteps DEF WithdrawRequest, IInv, StatusCodes

LEMMA ContactDeleteRefines ==
  ASSUME IInv, NEW me \in registered \cup {NoUser}, NEW other \in Ids,
         ContactDelete(me, other)
  PROVE  Book!Next \/ UNCHANGED <<Invited, Friends>>
<1>1. CASE Quietly
  BY <1>1, SameBook DEF Quietly
<1>2. CASE /\ ContactExists(me, other)
           /\ DeleteContact(me, other)
           /\ UNCHANGED <<requests, accepting>>
  <2>1. contacts \in [Ids \X Ids -> Nat] /\ me \in Ids
    BY DEF IInv, TypeOK, Ids
  <2>2. {me, other} \in Friends
    <3>1. contacts[<<me, other>>] > 0 \/ contacts[<<other, me>>] > 0
      BY <1>2, <2>1 DEF ContactExists
    <3> QED
      BY <2>1, <3>1, FriendsAreContacts
  <2>3. /\ contacts' \in [Ids \X Ids -> Nat]
        /\ \A p \in {<<me, other>>, <<other, me>>} : contacts'[p] = 0
        /\ \A p \in Ids \X Ids :
             p \notin {<<me, other>>, <<other, me>>} => contacts'[p] = contacts[p]
    BY <1>2, <2>1, Deleting
  <2>4. Friends' = Friends \ {{me, other}}
    <3>1. Friends' = {{q[1], q[2]} : q \in {r \in Ids \X Ids : contacts'[r] > 0}}
      BY DEF Friends
    <3>2. ASSUME NEW f \in Friends', f \notin Friends \ {{me, other}} PROVE FALSE
      <4>1. PICK q \in Ids \X Ids : contacts'[q] > 0 /\ f = {q[1], q[2]}
        BY <3>1, <3>2
      <4>2. PICK u \in Ids, v \in Ids : q = <<u, v>>
        OBVIOUS
      <4>3. q \notin {<<me, other>>, <<other, me>>}
        BY <4>1, <2>3
      <4>4. contacts[q] > 0 /\ f # {me, other}
        BY <4>1, <4>2, <4>3, <2>3
      <4> QED
        BY <4>1, <4>4, <3>2 DEF Friends
    <3>3. ASSUME NEW f \in Friends, f # {me, other} PROVE f \in Friends'
      <4>1. PICK q \in Ids \X Ids : contacts[q] > 0 /\ f = {q[1], q[2]}
        BY DEF Friends
      <4>2. PICK u \in Ids, v \in Ids : q = <<u, v>>
        OBVIOUS
      <4>3. q \notin {<<me, other>>, <<other, me>>}
        BY <4>1, <4>2, <3>3
      <4>4. contacts'[q] > 0
        BY <4>1, <4>3, <2>3
      <4> QED
        BY <4>1, <4>4, <3>1
    <3> QED
      BY <3>2, <3>3
  <2>5. Invited' = Invited
    BY <1>2 DEF Invited
  <2>6. Book!Part(me, other)
    BY <2>2, <2>4, <2>5 DEF Book!Part
  <2> QED
    BY <2>1, <2>6 DEF Book!Next
<1> QED
  BY <1>1, <1>2, QuietSteps DEF ContactDelete, IInv, StatusCodes

(* Every step of the handlers is a step of the contact book or none. *)
LEMMA NextRefines ==
  ASSUME IInv, [Next]_vars
  PROVE  Book!Next \/ UNCHANGED <<Invited, Friends>>
<1>1. ASSUME NEW me \in registered \cup {NoUser}, NEW other \in Ids, Command(me, other)
      PROVE  Book!Next \/ UNCHANGED <<Invited, Friends>>
  <2>1. me \in Ids
    BY DEF IInv, TypeOK, Ids
  <2> QED
    BY <1>1, <2>1, InviteCreateRefines, InviteAcceptRefines, WithdrawRequestRefines,
       ContactDeleteRefines DEF Command, InviteReject, InviteCancel
<1>2. CASE CreateContact
  BY <1>2, CreateContactRefines
<1>3. CASE CreateContactFails \/ Crash
  BY <1>3, AcceptanceLostRefines
<1>4. CASE Register \/ UNCHANGED vars
  BY <1>4, SameBook DEF Register, vars
<1> QED
  BY <1>1, <1>2, <1>3, <1>4 DEF Next

(* For any users, every step of the handlers is a step of the contact book *)
(* or leaves it alone, failing statements and the end of the process       *)
(* included.                                                               *)
THEOREM Refinement == Spec => ImplementsContactBook
<1>1. IInv /\ [Next]_vars => [Book!Next]_<<Invited, Friends>>
  BY NextRefines
<1> QED
  BY <1>1, InitRefines, Invariant, PTL DEF Spec, ImplementsContactBook, Book!Spec, Book!vars

-----------------------------------------------------------------------------
(* What the chat handlers see of the contacts.                             *)

Nothing == [x \in {} |-> x]

(* Pairs of two different users; Chats does not follow the others. *)
PairsOfTwo == {f \in Friends : \E u, v \in f : u # v}

(* Chats, with nothing in its tables but users and contacts. *)
Rooms == INSTANCE Chats WITH
  ChatIds <- {}, MessageIds <- {}, MaxChats <- 0, MaxParticipants <- 2,
  contacts <- PairsOfTwo, chats <- Nothing, members <- {}, messages <- Nothing,
  files <- {}, creating <- {}, posting <- {}, reply <- "none"

LEMMA RelatedAreRegistered ==
  ASSUME IInv, NEW u \in Ids, NEW v \in Ids, <<u, v>> \in Invited \/ {u, v} \in Friends
  PROVE  u \in registered /\ v \in registered
<1>1. RowsBetween(u, v) > 0
  <2>1. requests \in [Ids \X Ids -> Nat] /\ contacts \in [Ids \X Ids -> Nat]
    BY DEF IInv, TypeOK
  <2>2. /\ requests[<<u, v>>] \in Nat /\ requests[<<v, u>>] \in Nat
        /\ contacts[<<u, v>>] \in Nat /\ contacts[<<v, u>>] \in Nat
    BY <2>1
  <2>3. \/ requests[<<u, v>>] > 0 \/ <<u, v>> \in accepting
        \/ contacts[<<u, v>>] > 0 \/ contacts[<<v, u>>] > 0
    BY FriendsAreContacts DEF Invited
  <2>4. Rows(<<u, v>>) > 0 \/ Rows(<<v, u>>) > 0
    BY <2>2, <2>3 DEF Rows
  <2> QED
    BY <2>4, RowsAreCounted DEF IInv
<1> QED
  BY <1>1 DEF IInv, AtMostOneRelation

(* One friendship more or less is one pair more or less, or none. *)
LEMMA OnePairChanges ==
  ASSUME NEW u, NEW v,
         \/ Friends' = Friends \ {{u, v}} /\ {u, v} \in Friends
         \/ Friends' = Friends \cup {{u, v}}
  PROVE  \/ PairsOfTwo' = PairsOfTwo
         \/ u # v /\ PairsOfTwo' = IF {u, v} \in PairsOfTwo THEN PairsOfTwo \ {{u, v}}
                                                       ELSE PairsOfTwo \cup {{u, v}}
<1>1. PairsOfTwo' = {f \in Friends' : \E a, b \in f : a # b}
  BY DEF PairsOfTwo
<1>2. CASE u = v
  <2>1. ~ \E a, b \in {u, v} : a # b
    BY <1>2
  <2>2. PairsOfTwo' = PairsOfTwo
    BY <1>1, <2>1 DEF PairsOfTwo
  <2> QED
    BY <2>2
<1>3. CASE u # v
  <2>1. \E a, b \in {u, v} : a # b
    BY <1>3
  <2>2. {u, v} \in PairsOfTwo <=> {u, v} \in Friends
    BY <2>1 DEF PairsOfTwo
  <2>3. CASE Friends' = Friends \ {{u, v}} /\ {u, v} \in Friends
    <3>1. PairsOfTwo' = PairsOfTwo \ {{u, v}}
      BY <1>1, <2>3 DEF PairsOfTwo
    <3> QED
      BY <1>3, <2>2, <2>3, <3>1
  <2>4. CASE Friends' = Friends \cup {{u, v}}
    <3>1. PairsOfTwo' = PairsOfTwo \cup {{u, v}}
      BY <1>1, <2>1, <2>4 DEF PairsOfTwo
    <3> QED
      BY <1>3, <2>2, <2>4, <3>1
  <2> QED
    BY <2>3, <2>4
<1> QED
  BY <1>2, <1>3

LEMMA ContactsChangeInPairs ==
  ASSUME IInv, [Next]_vars
  PROVE  Rooms!Register \/ Rooms!ContactsChange \/ UNCHANGED <<registered, PairsOfTwo>>
<1>1. CASE Register
  <2>1. PairsOfTwo' = PairsOfTwo
    BY <1>1, SameBook DEF Register, PairsOfTwo
  <2> QED
    BY <1>1, <2>1 DEF Register, Rooms!Register, Rooms!Idle, Rooms!rooms, Rooms!jobs
<1>2. CASE registered' = registered
  <2>1. CASE Friends' = Friends
    <3>1. PairsOfTwo' = PairsOfTwo
      BY <2>1 DEF PairsOfTwo
    <3> QED
      BY <1>2, <3>1
  <2>2. ASSUME NEW u \in Ids, NEW v \in Ids, Book!Befriend(u, v) \/ Book!Part(u, v)
        PROVE  Rooms!ContactsChange \/ UNCHANGED <<registered, PairsOfTwo>>
    <3>1. u \in registered /\ v \in registered
      BY <2>2, RelatedAreRegistered DEF Book!Befriend, Book!Part
    <3>2. \/ Friends' = Friends \ {{u, v}} /\ {u, v} \in Friends
          \/ Friends' = Friends \cup {{u, v}}
      BY <2>2 DEF Book!Befriend, Book!Part
    <3>3. \/ PairsOfTwo' = PairsOfTwo
          \/ u # v /\ PairsOfTwo' = IF {u, v} \in PairsOfTwo THEN PairsOfTwo \ {{u, v}}
                                                        ELSE PairsOfTwo \cup {{u, v}}
      BY <3>2, OnePairChanges
    <3> QED
      BY <1>2, <3>1, <3>3 DEF Rooms!ContactsChange, Rooms!Idle, Rooms!rooms, Rooms!jobs
  <2>3. Book!Next => \E u, v \in Ids : Friends' = Friends \/ Book!Befriend(u, v) \/ Book!Part(u, v)
    BY DEF Book!Next, Book!Invite, Book!Withdraw
  <2> QED
    BY <2>1, <2>2, <2>3, NextRefines
<1>3. registered' = registered \/ Register
  BY DEF vars, Next, Command, InviteCreate, InviteAccept, InviteReject, InviteCancel, WithdrawRequest,
     ContactDelete, DatabaseFails, Answer, CreateContact, CreateContactFails, Crash, tables
<1> QED
  BY <1>1, <1>2, <1>3

(* However invitations are made, accepted, cut and taken back, the chat    *)
(* handlers see of it friendships of two registered users that come and go *)
(* one by one: the steps Register and ContactsChange of Chats.  A contact  *)
(* of a user with himself is no such pair.                                 *)
THEOREM ChatsSeePairs ==
  Spec => Rooms!Init /\ [][Rooms!Register \/ Rooms!ContactsChange]_<<registered, PairsOfTwo>>
<1>1. Init => Rooms!Init
  BY InitRefines DEF Init, Book!Init, Rooms!Init, Rooms!Empty, Nothing, PairsOfTwo, Friends
<1>2. IInv /\ [Next]_vars => [Rooms!Register \/ Rooms!ContactsChange]_<<registered, PairsOfTwo>>
  BY ContactsChangeInPairs
<1> QED
  BY <1>1, <1>2, Invariant, PTL DEF Spec

-----------------------------------------------------------------------------
(* Search: the estimator's table holds an edit distance.                   *)

(* The pairs of a pairing that differ. *)
Unequal(s, q, P) == {p \in P : s[p[1]] # q[p[2]]}

(* What it costs to make q of s, the first characters aside, if the        *)
(* characters of P are paired.                                             *)
Cost(s, q, i, j, P) ==
  i + j - 2 * Cardinality(P) + Cardinality(Unequal(s, q, P))

(* d is the least cost for the first i + 1 and j + 1 characters. *)
IsLeast(s, q, i, j, d) ==
  /\ d \in 0 .. i + j
  /\ \E P \in Pairings(i + 1, j + 1) : Cost(s, q, i, j, P) = d
  /\ \A P \in Pairings(i + 1, j + 1) : d <= Cost(s, q, i, j, P)

(* A pairing has finitely many pairs. *)
LEMMA PairingsAreFinite ==
  ASSUME NEW i \in Nat, NEW j \in Nat, NEW P \in Pairings(i + 1, j + 1), NEW s, NEW q
  PROVE  /\ IsFiniteSet(P) /\ Cardinality(P) \in Nat
         /\ IsFiniteSet(Unequal(s, q, P)) /\ Cardinality(Unequal(s, q, P)) \in Nat
<1>1. IsFiniteSet(2 .. i + 1) /\ IsFiniteSet(2 .. j + 1)
  BY FS_Interval
<1>2. IsFiniteSet((2 .. i + 1) \X (2 .. j + 1))
  BY <1>1, FS_Product
<1>3. P \in SUBSET ((2 .. i + 1) \X (2 .. j + 1))
  BY DEF Pairings
<1>4. IsFiniteSet(P)
  BY <1>2, <1>3, FS_Subset
<1>5. Unequal(s, q, P) \in SUBSET P
  BY DEF Unequal
<1>6. IsFiniteSet(Unequal(s, q, P))
  BY <1>4, <1>5, FS_Subset
<1> QED BY <1>4, <1>6, FS_CardinalityType

(* Without a second character nothing is paired. *)
LEMMA CostOfNothing ==
  ASSUME NEW i \in Nat, NEW j \in Nat, i = 0 \/ j = 0, NEW s, NEW q
  PROVE  IsLeast(s, q, i, j, i + j)
<1>1. Pairings(i + 1, j + 1) = {{}}
  <2>1. 2 .. i + 1 = {} \/ 2 .. j + 1 = {}
    OBVIOUS
  <2>2. (2 .. i + 1) \X (2 .. j + 1) = {}
    BY <2>1
  <2> QED BY <2>2 DEF Pairings
<1>2. Cost(s, q, i, j, {}) = i + j
  <2>1. Unequal(s, q, {}) = {}
    BY DEF Unequal
  <2> QED BY <2>1, FS_EmptySet DEF Cost
<1> QED BY <1>1, <1>2 DEF IsLeast

(* A pairing of fewer characters is one of more. *)
LEMMA PairingsGrow ==
  ASSUME NEW i \in Nat, NEW j \in Nat, NEW k \in Nat, NEW l \in Nat, i <= k, j <= l,
         NEW P \in Pairings(i, j)
  PROVE  P \in Pairings(k, l)
<1>1. 2 .. i \subseteq 2 .. k /\ 2 .. j \subseteq 2 .. l
  OBVIOUS
<1>2. (2 .. i) \X (2 .. j) \subseteq (2 .. k) \X (2 .. l)
  BY <1>1
<1> QED BY <1>2 DEF Pairings

(* One more unpaired character costs one more. *)
LEMMA CostOfUnpaired ==
  ASSUME NEW i \in Nat, NEW j \in Nat, NEW P \in Pairings(i + 1, j + 1), NEW s, NEW q
  PROVE  /\ Cost(s, q, i + 1, j, P) = Cost(s, q, i, j, P) + 1
         /\ Cost(s, q, i, j + 1, P) = Cost(s, q, i, j, P) + 1
<1>1. Cardinality(P) \in Nat /\ Cardinality(Unequal(s, q, P)) \in Nat
  BY PairingsAreFinite
<1> QED BY <1>1 DEF Cost

Differ(a, b) == IF a = b THEN 0 ELSE 1

(* With the pair of the next two characters. *)
Paired(P, i, j) == P \cup {<<i + 2, j + 2>>}

LEMMA CostOfPaired ==
  ASSUME NEW i \in Nat, NEW j \in Nat, NEW P \in Pairings(i + 1, j + 1), NEW s, NEW q
  PROVE  /\ Paired(P, i, j) \in Pairings(i + 2, j + 2)
         /\ Cost(s, q, i + 1, j + 1, Paired(P, i, j)) =
              Cost(s, q, i, j, P) + Differ(s[i + 2], q[j + 2])
<1> DEFINE top == <<i + 2, j + 2>>
           D   == Unequal(s, q, P)
           Q   == P \cup {top}
           E   == Unequal(s, q, Q)
<1>1. \A p \in P : p \in (2 .. i + 1) \X (2 .. j + 1)
  BY DEF Pairings
<1>2. \A p \in P : p[1] \in Nat /\ p[2] \in Nat /\ p[1] < i + 2 /\ p[2] < j + 2
  BY <1>1
<1>3. top \notin P /\ top[1] = i + 2 /\ top[2] = j + 2
  BY <1>2
<1>4. Q \in Pairings(i + 2, j + 2)
  <2>1. Q \in SUBSET ((2 .. i + 2) \X (2 .. j + 2))
    BY <1>1
  <2>2. \A p, r \in P : p[1] < r[1] <=> p[2] < r[2]
    BY DEF Pairings
  <2>3. \A p \in P : (p[1] < top[1] <=> p[2] < top[2]) /\ (top[1] < p[1] <=> top[2] < p[2])
    BY <1>2, <1>3
  <2>4. top[1] < top[1] <=> top[2] < top[2]
    BY <1>3
  <2> HIDE DEF top
  <2>5. \A p, r \in Q : p[1] < r[1] <=> p[2] < r[2]
    BY <2>2, <2>3, <2>4
  <2> HIDE DEF Q
  <2> QED BY <2>1, <2>5 DEF Pairings
<1>5. IsFiniteSet(P) /\ Cardinality(P) \in Nat /\ IsFiniteSet(D) /\ Cardinality(D) \in Nat
  BY PairingsAreFinite
<1>6. Cardinality(Q) = Cardinality(P) + 1
  BY <1>3, <1>5, FS_AddElement
<1>7. CASE s[i + 2] = q[j + 2]
  <2>1. E = D
    BY <1>3, <1>7 DEF Unequal
  <2> HIDE DEF E, D, Q, top
  <2>2. Cost(s, q, i + 1, j + 1, Q) = (i + 1) + (j + 1) - 2 * Cardinality(Q) + Cardinality(E)
    BY DEF Cost, E
  <2>3. Cost(s, q, i, j, P) = i + j - 2 * Cardinality(P) + Cardinality(D)
    BY DEF Cost, D
  <2>4. Differ(s[i + 2], q[j + 2]) = 0
    BY <1>7 DEF Differ
  <2>5. Cost(s, q, i + 1, j + 1, Q) = Cost(s, q, i, j, P) + Differ(s[i + 2], q[j + 2])
    BY <1>5, <1>6, <2>1, <2>2, <2>3, <2>4
  <2> QED BY <2>5, <1>4 DEF Q, top, Paired
<1>8. CASE s[i + 2] # q[j + 2]
  <2>1. E = D \cup {top}
    BY <1>3, <1>8 DEF Unequal
  <2>2. top \notin D
    BY <1>3 DEF Unequal
  <2>6. Cardinality(E) = Cardinality(D) + 1
    BY <1>5, <2>1, <2>2, FS_AddElement
  <2> HIDE DEF E, D, Q, top
  <2>3. Cost(s, q, i + 1, j + 1, Q) = (i + 1) + (j + 1) - 2 * Cardinality(Q) + Cardinality(E)
    BY DEF Cost, E
  <2>4. Cost(s, q, i, j, P) = i + j - 2 * Cardinality(P) + Cardinality(D)
    BY DEF Cost, D
  <2>5. Differ(s[i + 2], q[j + 2]) = 1
    BY <1>8 DEF Differ
  <2>7. Cost(s, q, i + 1, j + 1, Q) = Cost(s, q, i, j, P) + Differ(s[i + 2], q[j + 2])
    BY <1>5, <1>6, <2>3, <2>4, <2>5, <2>6
  <2> QED BY <2>7, <1>4 DEF Q, top, Paired
<1> QED BY <1>7, <1>8

(* A pairing ends with the pair of the last two characters or leaves one   *)
(* of them alone.                                                          *)
LEMMA LastCharacters ==
  ASSUME NEW i \in Nat, NEW j \in Nat, NEW P \in Pairings(i + 2, j + 2)
  PROVE  \/ P \in Pairings(i + 1, j + 2)
         \/ P \in Pairings(i + 2, j + 1)
         \/ \E R \in Pairings(i + 1, j + 1) : P = Paired(R, i, j)
<1>1. /\ P \in SUBSET ((2 .. i + 2) \X (2 .. j + 2))
      /\ \A p, r \in P : p[1] < r[1] <=> p[2] < r[2]
  BY DEF Pairings
<1>2. \A p \in P : /\ p[1] \in 2 .. i + 2 /\ p[2] \in 2 .. j + 2
                   /\ p = <<p[1], p[2]>>
  BY <1>1
<1>3. CASE \A p \in P : p[1] # i + 2
  <2>1. \A p \in P : p[1] \in 2 .. i + 1
    BY <1>2, <1>3
  <2>2. P \in SUBSET ((2 .. i + 1) \X (2 .. j + 2))
    BY <1>2, <2>1
  <2> QED BY <1>1, <2>2 DEF Pairings
<1>4. CASE \A p \in P : p[2] # j + 2
  <2>1. \A p \in P : p[2] \in 2 .. j + 1
    BY <1>2, <1>4
  <2>2. P \in SUBSET ((2 .. i + 2) \X (2 .. j + 1))
    BY <1>2, <2>1
  <2> QED BY <1>1, <2>2 DEF Pairings
<1>5. CASE (\E p \in P : p[1] = i + 2) /\ (\E r \in P : r[2] = j + 2)
  <2>1. PICK p \in P : p[1] = i + 2
    BY <1>5
  <2>2. PICK r \in P : r[2] = j + 2
    BY <1>5
  <2>3. ~(r[1] < p[1] /\ ~(r[2] < p[2]))
    BY <1>1
  <2>4. p[1] = i + 2 /\ p[2] = j + 2
    BY <1>2, <2>1, <2>2, <2>3, <1>1
  <2>5. p = <<i + 2, j + 2>>
    BY <1>2, <2>4
  <2> DEFINE R == P \ {p}
  <2>6. P = Paired(R, i, j)
    BY <2>5 DEF Paired
  <2>7. ASSUME NEW x \in R PROVE x[1] \in 2 .. i + 1 /\ x[2] \in 2 .. j + 1
    <3>1. x \in P /\ x # p
      OBVIOUS
    <3>2. (x[1] < p[1] <=> x[2] < p[2])
      BY <1>1, <3>1
    <3>3. x[1] \in 2 .. i + 2 /\ x[2] \in 2 .. j + 2 /\ x = <<x[1], x[2]>>
      BY <1>2, <3>1
    <3>4. ~(x[1] = i + 2 /\ x[2] = j + 2)
      BY <3>1, <3>3, <2>5
    <3> QED BY <2>4, <3>2, <3>3, <3>4
  <2>8. R \in SUBSET ((2 .. i + 1) \X (2 .. j + 1))
    BY <1>2, <2>7
  <2>9. R \in Pairings(i + 1, j + 1)
    <3>1. \A x, y \in R : x[1] < y[1] <=> x[2] < y[2]
      BY <1>1
    <3> HIDE DEF R
    <3> QED BY <2>8, <3>1 DEF Pairings
  <2> QED BY <2>6, <2>9
<1> QED BY <1>3, <1>4, <1>5

(* There is one least cost. *)
LEMMA LeastIsOne ==
  ASSUME NEW s, NEW q, NEW i \in Nat, NEW j \in Nat, NEW d, NEW e,
         IsLeast(s, q, i, j, d), IsLeast(s, q, i, j, e)
  PROVE  d = e
<1>1. d \in Nat /\ e \in Nat
  BY DEF IsLeast
<1>2. d <= e /\ e <= d
  BY DEF IsLeast
<1> QED BY <1>1, <1>2

LEMMA LeastType == \A a, b \in Nat : Least(a, b) \in Nat
  BY DEF Least

(* The least cost of longer texts from that of shorter ones. *)
LEMMA LeastOfLonger ==
  ASSUME NEW s, NEW q, NEW i \in Nat, NEW j \in Nat, NEW a, NEW b, NEW c,
         IsLeast(s, q, i, j, a), IsLeast(s, q, i, j + 1, b), IsLeast(s, q, i + 1, j, c)
  PROVE  IsLeast(s, q, i + 1, j + 1, Least(a + Differ(s[i + 2], q[j + 2]), Least(b + 1, c + 1)))
<1> DEFINE m == Differ(s[i + 2], q[j + 2])
           d == Least(a + m, Least(b + 1, c + 1))
<1>1. /\ a \in 0 .. i + j /\ b \in 0 .. i + (j + 1) /\ c \in 0 .. (i + 1) + j
      /\ m \in 0 .. 1
  BY DEF IsLeast, Differ
<1>0. (i + 1) + 1 = i + 2 /\ (j + 1) + 1 = j + 2
  OBVIOUS
<1> HIDE DEF m
<1>2. /\ d \in 0 .. (i + 1) + (j + 1)
      /\ d <= a + m /\ d <= b + 1 /\ d <= c + 1
      /\ d = a + m \/ d = b + 1 \/ d = c + 1
  BY <1>1 DEF Least
<1> HIDE DEF d
<1>3. \E P \in Pairings(i + 2, j + 2) : Cost(s, q, i + 1, j + 1, P) = a + m
  <2>1. PICK P \in Pairings(i + 1, j + 1) : Cost(s, q, i, j, P) = a
    BY DEF IsLeast
  <2>2. Paired(P, i, j) \in Pairings(i + 2, j + 2)
    BY CostOfPaired
  <2>3. Cost(s, q, i + 1, j + 1, Paired(P, i, j)) = Cost(s, q, i, j, P) + Differ(s[i + 2], q[j + 2])
    BY CostOfPaired
  <2>4. Cost(s, q, i + 1, j + 1, Paired(P, i, j)) = a + m
    BY <2>1, <2>3 DEF m
  <2> QED BY <2>2, <2>4
<1>4. \E P \in Pairings(i + 2, j + 2) : Cost(s, q, i + 1, j + 1, P) = b + 1
  <2>1. PICK P \in Pairings(i + 1, j + 2) : Cost(s, q, i, j + 1, P) = b
    BY <1>0 DEF IsLeast
  <2>2. P \in Pairings(i + 2, j + 2)
    BY <1>0, PairingsGrow
  <2>3. Cost(s, q, i + 1, j + 1, P) = b + 1
    BY <1>0, <2>1, CostOfUnpaired
  <2> QED BY <2>2, <2>3
<1>5. \E P \in Pairings(i + 2, j + 2) : Cost(s, q, i + 1, j + 1, P) = c + 1
  <2>1. PICK P \in Pairings(i + 2, j + 1) : Cost(s, q, i + 1, j, P) = c
    BY <1>0 DEF IsLeast
  <2>2. P \in Pairings(i + 2, j + 2)
    BY <1>0, PairingsGrow
  <2>3. Cost(s, q, i + 1, j + 1, P) = c + 1
    BY <1>0, <2>1, CostOfUnpaired
  <2> QED BY <2>2, <2>3
<1>6. ASSUME NEW P \in Pairings(i + 2, j + 2) PROVE d <= Cost(s, q, i + 1, j + 1, P)
  <2>1. CASE P \in Pairings(i + 1, j + 2)
    <3>1. P \in Pairings(i + 1, (j + 1) + 1)
      BY <1>0, <2>1
    <3>2. b <= Cost(s, q, i, j + 1, P) /\ Cost(s, q, i + 1, j + 1, P) = Cost(s, q, i, j + 1, P) + 1
      BY <3>1, CostOfUnpaired DEF IsLeast
    <3>3. Cost(s, q, i, j + 1, P) \in Int
      BY <3>1, PairingsAreFinite DEF Cost
    <3> QED BY <1>1, <1>2, <3>2, <3>3
  <2>2. CASE P \in Pairings(i + 2, j + 1)
    <3>1. P \in Pairings((i + 1) + 1, j + 1)
      BY <1>0, <2>2
    <3>2. c <= Cost(s, q, i + 1, j, P) /\ Cost(s, q, i + 1, j + 1, P) = Cost(s, q, i + 1, j, P) + 1
      BY <3>1, CostOfUnpaired DEF IsLeast
    <3>3. Cost(s, q, i + 1, j, P) \in Int
      BY <3>1, PairingsAreFinite DEF Cost
    <3> QED BY <1>1, <1>2, <3>2, <3>3
  <2>3. CASE \E R \in Pairings(i + 1, j + 1) : P = Paired(R, i, j)
    <3>1. PICK R \in Pairings(i + 1, j + 1) : P = Paired(R, i, j)
      BY <2>3
    <3>2. a <= Cost(s, q, i, j, R) /\ Cost(s, q, i + 1, j + 1, P) = Cost(s, q, i, j, R) + m
      BY <3>1, CostOfPaired DEF IsLeast, m
    <3>3. Cost(s, q, i, j, R) \in Int
      BY PairingsAreFinite DEF Cost
    <3> QED BY <1>1, <1>2, <3>2, <3>3
  <2> QED BY <2>1, <2>2, <2>3, LastCharacters
<1>7. \E P \in Pairings(i + 2, j + 2) : Cost(s, q, i + 1, j + 1, P) = d
  BY <1>2, <1>3, <1>4, <1>5
<1>8. IsLeast(s, q, i + 1, j + 1, d)
  BY <1>0, <1>2, <1>6, <1>7 DEF IsLeast
<1> QED BY <1>8 DEF d, m

(* A set with zero and every successor has all natural numbers. *)
LEMMA Induction ==
  ASSUME NEW S, 0 \in S, \A n \in Nat : n \in S => n + 1 \in S
  PROVE  \A n \in Nat : n \in S
<1> DEFINE R == OpToRel(<, Nat)
           T == Nat \ S
<1>1. IsWellFoundedOn(R, Nat)
  BY NatLessThanWellFounded
<1> SUFFICES ASSUME T # {} PROVE FALSE
  OBVIOUS
<1> HIDE DEF R
<1>2. PICK n \in T : \A m \in T : ~ (<<m, n>> \in R)
  BY <1>1, WFMin
<1>3. \A m \in T : ~(m < n)
  BY <1>2 DEF R, OpToRel
<1> QED BY <1>3

(* Every pair of beginnings has a least cost. *)
LEMMA LeastExists ==
  ASSUME NEW s, NEW q
  PROVE  \A i, j \in Nat : \E d : IsLeast(s, q, i, j, d)
<1> DEFINE RowsDone == {i \in Nat : \A j \in Nat : \E d : IsLeast(s, q, i, j, d)}
<1>1. 0 \in RowsDone
  BY CostOfNothing
<1>2. ASSUME NEW i \in Nat, i \in RowsDone PROVE i + 1 \in RowsDone
  <2> DEFINE Columns == {j \in Nat : \E d : IsLeast(s, q, i + 1, j, d)}
  <2>1. 0 \in Columns
    BY CostOfNothing
  <2>2. ASSUME NEW j \in Nat, j \in Columns PROVE j + 1 \in Columns
    <3>1. PICK a : IsLeast(s, q, i, j, a)
      BY <1>2
    <3>2. PICK b : IsLeast(s, q, i, j + 1, b)
      BY <1>2
    <3>3. PICK c : IsLeast(s, q, i + 1, j, c)
      BY <2>2
    <3>4. IsLeast(s, q, i + 1, j + 1,
                  Least(a + Differ(s[i + 2], q[j + 2]), Least(b + 1, c + 1)))
      BY <3>1, <3>2, <3>3, LeastOfLonger
    <3> QED BY <3>4
  <2> HIDE DEF Columns
  <2>3. \A j \in Nat : j \in Columns
    BY <2>1, <2>2, Induction
  <2> QED BY <2>3 DEF Columns
<1> HIDE DEF RowsDone
<1>3. \A i \in Nat : i \in RowsDone
  BY <1>1, <1>2, Induction
<1> QED BY <1>3 DEF RowsDone

LeastCost(s, q, i, j) == CHOOSE d : IsLeast(s, q, i, j, d)

LEMMA LeastCostIsLeast ==
  ASSUME NEW s, NEW q
  PROVE  \A i, j \in Nat : IsLeast(s, q, i, j, LeastCost(s, q, i, j))
BY LeastExists DEF LeastCost

LEMMA LeastCostType ==
  ASSUME NEW s, NEW q
  PROVE  \A i, j \in Nat : LeastCost(s, q, i, j) \in Nat
BY LeastCostIsLeast DEF IsLeast

LEMMA LeastCostOfNothing ==
  ASSUME NEW s, NEW q, NEW i \in Nat, NEW j \in Nat, i = 0 \/ j = 0
  PROVE  LeastCost(s, q, i, j) = i + j
<1> DEFINE d == LeastCost(s, q, i, j)
           e == i + j
<1>1. IsLeast(s, q, i, j, d)
  BY LeastCostIsLeast
<1>2. IsLeast(s, q, i, j, e)
  BY CostOfNothing
<1> HIDE DEF d, e
<1>3. d = e
  BY <1>1, <1>2, LeastIsOne
<1> QED BY <1>3 DEF d, e

(* How least costs follow from those of shorter texts. *)
LEMMA LeastCostOfLonger ==
  ASSUME NEW s, NEW q, NEW i \in Nat, NEW j \in Nat
  PROVE  LeastCost(s, q, i + 1, j + 1) =
              Least(LeastCost(s, q, i, j) + Differ(s[i + 2], q[j + 2]),
                    Least(LeastCost(s, q, i, j + 1) + 1, LeastCost(s, q, i + 1, j) + 1))
<1> DEFINE x == LeastCost(s, q, i + 1, j + 1)
           y == Least(LeastCost(s, q, i, j) + Differ(s[i + 2], q[j + 2]),
                      Least(LeastCost(s, q, i, j + 1) + 1, LeastCost(s, q, i + 1, j) + 1))
<1>1. i + 1 \in Nat /\ j + 1 \in Nat
  OBVIOUS
<1>2. /\ IsLeast(s, q, i, j, LeastCost(s, q, i, j))
      /\ IsLeast(s, q, i, j + 1, LeastCost(s, q, i, j + 1))
      /\ IsLeast(s, q, i + 1, j, LeastCost(s, q, i + 1, j))
      /\ IsLeast(s, q, i + 1, j + 1, x)
  BY <1>1, LeastCostIsLeast
<1>3. IsLeast(s, q, i + 1, j + 1, y)
  BY <1>2, LeastOfLonger
<1> HIDE DEF x, y
<1>4. x = y
  BY <1>1, <1>2, <1>3, LeastIsOne
<1> QED BY <1>4 DEF x, y

(* A cell of the table, from its neighbours. *)
Cell(s, q, f, i, j) ==
  IF i = 0 THEN Penalty * j
  ELSE IF j = 0 THEN Penalty * i
  ELSE Least(f[i - 1][j - 1] + Mismatch(s[i + 1], q[j + 1]),
             Least(f[i - 1][j] + Penalty, f[i][j - 1] + Penalty))

CellCost(s, q, i, j) == Penalty * LeastCost(s, q, i, j)

(* The cells before have the least costs. *)
NeighboursDone(s, q, f, i, j) ==
  i > 0 /\ j > 0 => /\ f[i - 1][j - 1] = CellCost(s, q, i - 1, j - 1)
                   /\ f[i - 1][j] = CellCost(s, q, i - 1, j)
                   /\ f[i][j - 1] = CellCost(s, q, i, j - 1)

(* f is the table for texts with n + 1 and m + 1 characters. *)
Fills(s, q, n, m, f) == f = [i \in 0 .. n |-> [j \in 0 .. m |-> Cell(s, q, f, i, j)]]

Costs(s, q, n, m) == [i \in 0 .. n |-> [j \in 0 .. m |-> CellCost(s, q, i, j)]]

LEMMA CostsOfCells ==
  ASSUME NEW s, NEW q, NEW f, NEW i \in Nat, NEW j \in Nat,
         NeighboursDone(s, q, f, i, j)
  PROVE  Cell(s, q, f, i, j) = CellCost(s, q, i, j)
<1>1. CASE i = 0 \/ j = 0
  <2>1. LeastCost(s, q, i, j) = i + j
    BY <1>1, LeastCostOfNothing
  <2> QED BY <1>1, <2>1 DEF Cell, CellCost, Penalty
<1>2. CASE i # 0 /\ j # 0
  <2>1. PICK k \in Nat : i = k + 1
    <3>1. i - 1 \in Nat /\ i = (i - 1) + 1
      BY <1>2
    <3> QED BY <3>1
  <2>2. PICK l \in Nat : j = l + 1
    <3>1. j - 1 \in Nat /\ j = (j - 1) + 1
      BY <1>2
    <3> QED BY <3>1
  <2>3. i - 1 = k /\ j - 1 = l /\ i + 1 = k + 2 /\ j + 1 = l + 2
    BY <2>1, <2>2
  <2> DEFINE a == LeastCost(s, q, k, l)
             b == LeastCost(s, q, k, j)
             c == LeastCost(s, q, i, l)
             d == Differ(s[k + 2], q[l + 2])
             e == Mismatch(s[k + 2], q[l + 2])
  <2>4. LeastCost(s, q, i, j) = Least(a + d, Least(b + 1, c + 1))
    BY <2>1, <2>2, LeastCostOfLonger
  <2>5. a \in Nat /\ b \in Nat /\ c \in Nat
    BY LeastCostType
  <2>6. d \in {0, 1} /\ e = Penalty * d
    BY DEF Differ, Mismatch, Penalty
  <2>7. f[k][l] = Penalty * a /\ f[k][j] = Penalty * b /\ f[i][l] = Penalty * c
    BY <1>2, <2>3 DEF NeighboursDone, CellCost
  <2>8. Cell(s, q, f, i, j) = Least(Penalty * a + e, Least(Penalty * b + Penalty, Penalty * c + Penalty))
    BY <1>2, <2>3, <2>7 DEF Cell
  <2> HIDE DEF a, b, c, d, e
  <2>9. Least(Penalty * a + e, Least(Penalty * b + Penalty, Penalty * c + Penalty))
          = Penalty * Least(a + d, Least(b + 1, c + 1))
    BY <2>5, <2>6 DEF Least, Penalty
  <2> QED BY <2>4, <2>8, <2>9 DEF CellCost
<1> QED BY <1>1, <1>2

LEMMA TableExists ==
  ASSUME NEW s, NEW q, NEW n \in Nat, NEW m \in Nat
  PROVE  Fills(s, q, n, m, Costs(s, q, n, m))
<1> DEFINE g == Costs(s, q, n, m)
<1>1. ASSUME NEW i \in 0 .. n, NEW j \in 0 .. m
      PROVE  g[i][j] = CellCost(s, q, i, j)
  BY DEF Costs
<1> HIDE DEF g
<1>2. ASSUME NEW i \in 0 .. n, NEW j \in 0 .. m
      PROVE  Cell(s, q, g, i, j) = CellCost(s, q, i, j)
  <2>1. i > 0 /\ j > 0 => i - 1 \in 0 .. n /\ j - 1 \in 0 .. m
    OBVIOUS
  <2>2. NeighboursDone(s, q, g, i, j)
    BY <1>1, <2>1 DEF NeighboursDone
  <2>3. i \in Nat /\ j \in Nat
    OBVIOUS
  <2> QED BY <2>2, <2>3, CostsOfCells
<1>3. g = [i \in 0 .. n |-> [j \in 0 .. m |-> Cell(s, q, g, i, j)]]
  <2>1. g = [i \in 0 .. n |-> [j \in 0 .. m |-> CellCost(s, q, i, j)]]
    BY DEF g, Costs
  <2>2. \A i \in 0 .. n : [j \in 0 .. m |-> CellCost(s, q, i, j)] = [j \in 0 .. m |-> Cell(s, q, g, i, j)]
    BY <1>2
  <2>3. [i \in 0 .. n |-> [j \in 0 .. m |-> CellCost(s, q, i, j)]]
          = [i \in 0 .. n |-> [j \in 0 .. m |-> Cell(s, q, g, i, j)]]
    BY <2>2
  <2> QED BY <2>1, <2>3
<1>4. Fills(s, q, n, m, g)
  BY <1>3 DEF Fills
<1> QED BY <1>4 DEF g

(* Every table of the texts has the least costs in its cells. *)
LEMMA TableOfCosts ==
  ASSUME NEW s, NEW q, NEW n \in Nat, NEW m \in Nat, NEW f, Fills(s, q, n, m, f)
  PROVE  \A i \in 0 .. n, j \in 0 .. m : f[i][j] = CellCost(s, q, i, j)
<1>1. ASSUME NEW i \in 0 .. n, NEW j \in 0 .. m PROVE f[i][j] = Cell(s, q, f, i, j)
  <2>1. f[i] = [y \in 0 .. m |-> Cell(s, q, f, i, y)]
    BY DEF Fills
  <2> QED BY <2>1
<1> DEFINE RowsDone == {i \in Nat : i <= n => \A j \in 0 .. m : f[i][j] = CellCost(s, q, i, j)}
<1>2. 0 \in RowsDone
  <2>1. ASSUME NEW j \in 0 .. m PROVE f[0][j] = CellCost(s, q, 0, j)
    <3>1. 0 \in 0 .. n /\ j \in Nat /\ NeighboursDone(s, q, f, 0, j)
      BY DEF NeighboursDone
    <3>2. Cell(s, q, f, 0, j) = CellCost(s, q, 0, j)
      BY <3>1, CostsOfCells
    <3> QED BY <1>1, <3>1, <3>2
  <2> QED BY <2>1
<1>3. ASSUME NEW i \in Nat, i \in RowsDone PROVE i + 1 \in RowsDone
  <2> SUFFICES ASSUME i + 1 <= n
               PROVE  \A j \in 0 .. m : f[i + 1][j] = CellCost(s, q, i + 1, j)
    OBVIOUS
  <2>0. i \in 0 .. n /\ i + 1 \in 0 .. n /\ i + 1 \in Nat /\ (i + 1) - 1 = i
    OBVIOUS
  <2>1. \A j \in 0 .. m : f[i][j] = CellCost(s, q, i, j)
    BY <1>3
  <2> HIDE DEF RowsDone
  <2> DEFINE Columns == {j \in Nat : j <= m => f[i + 1][j] = CellCost(s, q, i + 1, j)}
  <2>2. 0 \in Columns
    <3>1. 0 \in 0 .. m /\ NeighboursDone(s, q, f, i + 1, 0)
      BY DEF NeighboursDone
    <3>2. Cell(s, q, f, i + 1, 0) = CellCost(s, q, i + 1, 0)
      BY <2>0, <3>1, CostsOfCells
    <3> QED BY <1>1, <2>0, <3>1, <3>2
  <2>3. ASSUME NEW j \in Nat, j \in Columns PROVE j + 1 \in Columns
    <3> SUFFICES ASSUME j + 1 <= m
                 PROVE  f[i + 1][j + 1] = CellCost(s, q, i + 1, j + 1)
      OBVIOUS
    <3>1. j \in 0 .. m /\ j + 1 \in 0 .. m /\ j + 1 \in Nat /\ (j + 1) - 1 = j
      OBVIOUS
    <3>2. f[i + 1][j] = CellCost(s, q, i + 1, j)
      BY <2>3, <3>1
    <3> HIDE DEF Columns
    <3>3. NeighboursDone(s, q, f, i + 1, j + 1)
      BY <2>0, <2>1, <3>1, <3>2 DEF NeighboursDone
    <3>4. Cell(s, q, f, i + 1, j + 1) = CellCost(s, q, i + 1, j + 1)
      BY <2>0, <3>1, <3>3, CostsOfCells
    <3> QED BY <1>1, <2>0, <3>1, <3>4
  <2> HIDE DEF Columns
  <2>4. \A j \in Nat : j \in Columns
    BY <2>2, <2>3, Induction
  <2> QED BY <2>4 DEF Columns
<1> HIDE DEF RowsDone
<1>4. \A i \in Nat : i \in RowsDone
  BY <1>2, <1>3, Induction
<1> QED BY <1>4 DEF RowsDone

(* What the estimator computes. *)
LEMMA RawRankingIsLeast ==
  ASSUME NEW T, NEW s \in Seq(T) \ {<<>>}, NEW q \in Seq(T) \ {<<>>}
  PROVE  RawRanking(s, q) = CellCost(s, q, Len(s) - 1, Len(q) - 1)
<1> DEFINE n == Len(s) - 1
           m == Len(q) - 1
           f == CHOOSE f : Fills(s, q, n, m, f)
<1>1. n \in Nat /\ m \in Nat
  <2>1. Len(s) \in Nat /\ Len(s) # 0 /\ Len(q) \in Nat /\ Len(q) # 0
    BY EmptySeq, LenProperties
  <2> QED BY <2>1
<1>2. RawRanking(s, q) = f[n][m]
  BY DEF RawRanking, Fills, Cell
<1> HIDE DEF n, m
<1>3. Fills(s, q, n, m, f)
  BY <1>1, TableExists
<1> HIDE DEF f
<1>4. n \in 0 .. n /\ m \in 0 .. m
  BY <1>1
<1>5. f[n][m] = CellCost(s, q, n, m)
  BY <1>1, <1>3, <1>4, TableOfCosts
<1> QED BY <1>2, <1>5 DEF n, m

LEMMA TextsAreWords ==
  /\ \A s \in Texts : s \in Seq(STRING) \ {<<>>}
  /\ \A q \in Queries \ {<<>>} : q \in Seq(STRING) \ {<<>>}
BY SearchConstants DEF Texts

(* The table gives the number of edits, 20 for each. *)
LEMMA TableGivesEdits ==
  ASSUME NEW s \in Texts, NEW q \in Queries \ {<<>>}
  PROVE  /\ Edits[s][q] \in Nat
         /\ RawRanking(s, q) = Penalty * Edits[s][q]
<1> DEFINE n == Len(s) - 1
           m == Len(q) - 1
           e == LeastCost(s, q, n, m)
           Optimal(d) == /\ \E P \in Pairings(n + 1, m + 1) : Cost(s, q, n, m, P) = d
                         /\ \A P \in Pairings(n + 1, m + 1) : d <= Cost(s, q, n, m, P)
<1>1. s \in Seq(STRING) \ {<<>>} /\ q \in Seq(STRING) \ {<<>>}
  BY TextsAreWords
<1>2. n \in Nat /\ m \in Nat /\ Len(s) = n + 1 /\ Len(q) = m + 1
  <2>1. Len(s) \in Nat /\ Len(s) # 0 /\ Len(q) \in Nat /\ Len(q) # 0
    BY <1>1, EmptySeq, LenProperties
  <2> QED BY <2>1
<1>3. RawRanking(s, q) = Penalty * e
  BY <1>1, RawRankingIsLeast DEF CellCost
<1>4. Edits[s][q] = CHOOSE d \in 0 .. Len(s) + Len(q) : Optimal(d)
  <2>1. Edits[s][q] =
          CHOOSE d \in 0 .. Len(s) + Len(q) :
            /\ \E P \in Pairings(Len(s), Len(q)) :
                 (Len(s) - 1) + (Len(q) - 1) - 2 * Cardinality(P) + Cardinality(Unequal(s, q, P)) = d
            /\ \A P \in Pairings(Len(s), Len(q)) :
                 d <= (Len(s) - 1) + (Len(q) - 1) - 2 * Cardinality(P) + Cardinality(Unequal(s, q, P))
    BY DEF Edits, Unequal
  <2> QED BY <2>1, <1>2 DEF Cost
<1> HIDE DEF n, m
<1>5. IsLeast(s, q, n, m, e)
  BY <1>2, LeastCostIsLeast
<1> HIDE DEF e
<1>6. e \in 0 .. n + m /\ Optimal(e)
  BY <1>5 DEF IsLeast
<1>7. e \in 0 .. Len(s) + Len(q)
  BY <1>2, <1>6
<1>8. Edits[s][q] \in 0 .. Len(s) + Len(q) /\ Optimal(Edits[s][q])
  <2> HIDE DEF Optimal
  <2> QED BY <1>4, <1>6, <1>7
<1>9. Edits[s][q] = e
  <2>1. Edits[s][q] \in Int /\ e \in Int
    BY <1>2, <1>6, <1>8
  <2>2. Edits[s][q] <= e /\ e <= Edits[s][q]
    BY <1>6, <1>8
  <2> QED BY <2>1, <2>2
<1> QED BY <1>2, <1>3, <1>6, <1>9

(* The relevance of a row is what the edits leave of the query. *)
LEMMA RelevanceOfEdits ==
  ASSUME NEW row \in CachedUser, NEW q \in Queries \ {<<>>}
  PROVE  /\ Len(q) \in Nat \ {0}
         /\ UserEdits(row, q) \in Nat
         /\ Relevance(row, q) =
              (IF UserEdits(row, q) > Len(q) THEN 0
               ELSE Penalty * (Len(q) - UserEdits(row, q)))
<1> DEFINE a == Edits[row.login][q]
           b == Edits[row.name][q]
           l == Len(q)
<1>1. l \in Nat \ {0}
  <2>1. q \in Seq(STRING) \ {<<>>}
    BY TextsAreWords
  <2> QED BY <2>1, EmptySeq, LenProperties
<1>2. row.login \in Texts /\ row.name \in Texts
  BY DEF CachedUser, Texts
<1>3. a \in Nat /\ b \in Nat
  BY <1>2, TableGivesEdits
<1>4. /\ Ranking[row.login][q] = IF Penalty * a > Penalty * l THEN 0 ELSE Penalty * l - Penalty * a
      /\ Ranking[row.name][q] = IF Penalty * b > Penalty * l THEN 0 ELSE Penalty * l - Penalty * b
  <2>1. \A s \in Texts : Ranking[s][q] = IF RawRanking(s, q) > WorstPenalty(q) THEN 0
                                         ELSE WorstPenalty(q) - RawRanking(s, q)
    BY DEF Ranking
  <2> QED BY <1>2, <2>1, TableGivesEdits DEF WorstPenalty
<1>5. UserEdits(row, q) = Least(a, b)
  BY DEF UserEdits
<1>6. Relevance(row, q) = IF Ranking[row.login][q] > Ranking[row.name][q]
                          THEN Ranking[row.login][q] ELSE Ranking[row.name][q]
  BY DEF Relevance
<1> HIDE DEF a, b, l
<1>7. Relevance(row, q) = IF Least(a, b) > l THEN 0 ELSE Penalty * (l - Least(a, b))
  BY <1>1, <1>3, <1>4, <1>6 DEF Least, Penalty
<1>8. Least(a, b) \in Nat
  BY <1>3 DEF Least
<1> QED BY <1>1, <1>5, <1>7, <1>8 DEF l

(* Who is relevant resembles the query. *)
LEMMA RelevantResembles ==
  ASSUME NEW row \in CachedUser, NEW q \in Queries \ {<<>>}
  PROVE  IsRelevant(row, q) <=> Resembles(row, q)
<1> DEFINE e == UserEdits(row, q)
           l == Len(q)
<1>1. l \in Nat \ {0} /\ e \in Nat
  BY RelevanceOfEdits
<1>2. Relevance(row, q) = IF e > l THEN 0 ELSE Penalty * (l - e)
  BY RelevanceOfEdits
<1>3. /\ IsRelevant(row, q) <=> 10 * Relevance(row, q) >= 3 * (Penalty * l)
      /\ Resembles(row, q) <=> 10 * (l - e) >= 3 * l
  BY DEF IsRelevant, Resembles, WorstPenalty
<1> HIDE DEF e, l
<1> QED BY <1>1, <1>2, <1>3 DEF Penalty

(* Of two that resemble the query, the more relevant has fewer edits. *)
LEMMA RelevanceOrders ==
  ASSUME NEW q \in Queries \ {<<>>}, NEW x \in CachedUser, NEW y \in CachedUser,
         IsRelevant(x, q), IsRelevant(y, q), Relevance(x, q) >= Relevance(y, q)
  PROVE  UserEdits(x, q) <= UserEdits(y, q)
<1> DEFINE a == UserEdits(x, q)
           b == UserEdits(y, q)
           l == Len(q)
<1>1. l \in Nat \ {0} /\ a \in Nat /\ b \in Nat
  BY RelevanceOfEdits
<1>2. /\ Relevance(x, q) = IF a > l THEN 0 ELSE Penalty * (l - a)
      /\ Relevance(y, q) = IF b > l THEN 0 ELSE Penalty * (l - b)
  BY RelevanceOfEdits
<1>3. 10 * Relevance(x, q) >= 3 * (Penalty * l) /\ 10 * Relevance(y, q) >= 3 * (Penalty * l)
  BY DEF IsRelevant, WorstPenalty
<1> HIDE DEF a, b, l
<1>4. a <= b
  BY <1>1, <1>2, <1>3 DEF Penalty
<1> QED BY <1>4 DEF a, b

-----------------------------------------------------------------------------
(* Search: the session and its cache.                                      *)

(* The users in the first n rows of a result. *)
Front(results, n) == {results[i].id : i \in {k \in DOMAIN results : k <= n}}

(* The rows of a session s are of registered users, each once.             *)
RowsFit(s, users) ==
  /\ s \in Session
  /\ \A i, j \in DOMAIN s.results :
       /\ s.results[i].id = s.results[j].id => i = j
       /\ s.results[i].id \in users \ {s.user}
  /\ s.query = <<>> \/ ~s.known => s.results = <<>>

RowsAreRanked(s) ==
  s.query # <<>> =>
    \A i \in DOMAIN s.results :
      /\ Resembles(s.results[i], s.query)
      /\ \A j \in i .. Len(s.results) :
           UserEdits(s.results[i], s.query)
             <= UserEdits(s.results[j], s.query)

(* The client was shown the rows up to where it stands. *)
PagesAreShown(s) ==
  /\ s.shown = Front(s.results, s.next)
  /\ s.ended => s.next > Len(s.results)

(* Who has not been touched is in the results if and only if it matches. *)
ResultsAreCurrent(s) ==
  \A u \in Users \ touched :
    u \in Front(s.results, Len(s.results)) <=> u \in Matches(s.user, s.query)

(* The inductive invariant of search: the cache stays complete, but for    *)
(* the touched, and the pages shown are its beginning, so at the end they  *)
(* are all of it.                                                          *)
SearchInv ==
  /\ IInv
  /\ IsFiniteSet(registered)
  /\ profile \in [registered -> Profile]
  /\ touched \subseteq Users
  /\ session # NoSession => RowsFit(session, registered) /\ RowsAreRanked(session)
  /\ Filled => ResultsAreCurrent(session) /\ PagesAreShown(session)

-----------------------------------------------------------------------------
(* Every step of search is one of the relations or keeps the tables.       *)
LEMMA SearchKeepsRelations ==
  ASSUME SearchInv, [SearchNext]_searchVars
  PROVE  IInv' /\ IsFiniteSet(registered') /\ registered \subseteq registered'
<1>0. IInv /\ IsFiniteSet(registered)
  BY DEF SearchInv
<1>1. CASE Quietly
  <2>1. IInv'
    BY <1>0, <1>1, SameTablesInv DEF Quietly
  <2> QED BY <1>0, <1>1, <2>1 DEF Quietly
<1>2. CASE [Next]_vars
  <2>1. IInv'
    BY <1>0, <1>2, NextInv
  <2>2. registered' = registered \/ \E u \in Users : registered' = registered \cup {u}
    BY <1>2 DEF vars, Next, Command, InviteCreate, InviteAccept, InviteReject, InviteCancel, WithdrawRequest,
       ContactDelete, DatabaseFails, Answer, CreateContact, CreateContactFails, Register, Crash, tables
  <2>3. IsFiniteSet(registered') /\ registered \subseteq registered'
    BY <1>0, <2>2, FS_AddElement
  <2> QED BY <2>1, <2>3
<1>3. CASE \E query \in Queries : SearchAfresh(query) \/ SearchFails(query)
  BY <1>1, <1>3, QuietSteps, <1>0 DEF SearchAfresh, SearchFails, Quietly, tables, StatusCodes, IInv, TypeOK
<1>4. CASE SearchCached
  BY <1>0, <1>1, <1>4 DEF SearchCached, Quietly, tables, StatusCodes, IInv, TypeOK
<1>5. CASE SearchForNothing \/ ProcessEnds
  BY <1>2, <1>5 DEF SearchForNothing, ProcessEnds, Next
<1>6. CASE NewSession
  BY <1>2, <1>6 DEF NewSession
<1>9. CASE ProfileSet
  BY <1>0, <1>1, <1>9, QuietSteps DEF ProfileSet, Quietly, tables, IInv
<1>7. CASE RelationsChange
  <2>1. Users \subseteq Ids
    BY DEF Ids
  <2> QED BY <1>2, <1>7, <2>1 DEF RelationsChange, Next
<1>8. CASE UNCHANGED searchVars
  BY <1>2, <1>8 DEF searchVars
<1> QED BY <1>3, <1>4, <1>5, <1>6, <1>7, <1>8, <1>9 DEF SearchNext

-----------------------------------------------------------------------------
(* Pages.                                                                  *)

(* What a page changes in a session. *)
LEMMA PageIsShown ==
  ASSUME NEW s \in Session, NEW offset \in Nat, NEW t, t = Paged(s, offset)
  PROVE  /\ t \in Session
         /\ t.user = s.user /\ t.query = s.query /\ t.results = s.results /\ t.known = s.known
         /\ (offset # 0 => s.shown = Front(s.results, offset)) => PagesAreShown(t)
<1> DEFINE r    == s.results
           l    == Len(r)
           rows == Page(r, offset)
           ids  == {rows[i].id : i \in DOMAIN rows}
           top  == Least(l, offset + PageSize)
<1>0. PageSize \in Nat \ {0}
  BY SearchConstants
<1>1. r \in Seq(CachedUser) /\ s.shown \in SUBSET Users
  BY DEF Session
<1>2. l \in Nat /\ DOMAIN r = 1 .. l /\ \A i \in 1 .. l : r[i] \in CachedUser
  BY <1>1, LenProperties, ElementOfSeq
<1>3. /\ top \in Nat /\ top <= l /\ top <= offset + PageSize
      /\ top = l \/ top = offset + PageSize
  BY <1>0, <1>2 DEF Least
<1>4. rows = SubSeq(r, offset + 1, top)
  BY DEF Page
<1> HIDE DEF r, l, top, rows
<1>5. /\ Len(rows) = IF offset + 1 <= top THEN top - offset ELSE 0
      /\ DOMAIN rows = 1 .. Len(rows)
      /\ \A i \in 1 .. Len(rows) : rows[i] = r[offset + i]
  <2>1. \A i \in offset + 1 .. top : r[i] \in CachedUser
    BY <1>2, <1>3
  <2>2. /\ rows \in Seq(CachedUser)
        /\ Len(rows) = IF offset + 1 <= top THEN top - (offset + 1) + 1 ELSE 0
        /\ \A i \in 1 .. top - (offset + 1) + 1 : rows[i] = r[(offset + 1) + i - 1]
    BY <1>3, <1>4, <2>1, SubSeqProperties
  <2>3. DOMAIN rows = 1 .. Len(rows)
    BY <2>2, LenProperties
  <2>4. ASSUME NEW i \in 1 .. Len(rows) PROVE rows[i] = r[offset + i]
    <3>1. i \in 1 .. top - (offset + 1) + 1 /\ (offset + 1) + i - 1 = offset + i
      BY <1>3, <2>2
    <3> QED BY <2>2, <3>1
  <2> QED BY <1>3, <2>2, <2>3, <2>4
<1> DEFINE short == Len(rows) < PageSize
           seen  == IF offset = 0 THEN ids ELSE s.shown \cup ids
           next  == offset + PageSize
<1>6. t = [s EXCEPT !.next = next, !.shown = seen, !.ended = short]
  BY DEF Paged, rows, r
<1>7. ids = {r[k].id : k \in {k \in 1 .. l : offset < k /\ k <= offset + PageSize}}
  <2>1. ASSUME NEW i \in DOMAIN rows
        PROVE  \E k \in 1 .. l : offset < k /\ k <= offset + PageSize /\ rows[i] = r[k]
    <3>1. i \in 1 .. Len(rows) /\ rows[i] = r[offset + i]
      BY <1>5
    <3>2. offset + i \in 1 .. l /\ offset < offset + i /\ offset + i <= offset + PageSize
      BY <1>0, <1>2, <1>3, <1>5, <3>1
    <3> QED BY <3>1, <3>2
  <2>2. ASSUME NEW k \in 1 .. l, offset < k, k <= offset + PageSize
        PROVE  \E i \in DOMAIN rows : rows[i] = r[k]
    <3>1. k <= top
      BY <1>2, <1>3, <2>2
    <3>2. k - offset \in 1 .. Len(rows) /\ offset + (k - offset) = k
      BY <1>2, <1>3, <1>5, <2>2, <3>1
    <3> QED BY <1>5, <3>2
  <2> QED BY <2>1, <2>2
<1>8. ids \subseteq Users
  BY <1>2, <1>7 DEF CachedUser
<1>9. short \in BOOLEAN /\ seen \in SUBSET Users /\ next \in Nat
  <2> HIDE DEF ids
  <2> QED BY <1>0, <1>1, <1>8
<1>14. next > l \/ ~short
  BY <1>0, <1>2, <1>3, <1>5
<1> HIDE DEF ids, short, seen, next
<1>10. t \in Session
  BY <1>6, <1>9 DEF Session
<1>11. /\ t.user = s.user /\ t.query = s.query /\ t.results = s.results /\ t.known = s.known
       /\ t.next = next /\ t.ended = short /\ t.shown = seen
  BY <1>6 DEF Session
<1>12. ASSUME offset # 0 => s.shown = Front(s.results, offset)
       PROVE  t.shown = Front(t.results, t.next)
  <2>1. Front(r, offset + PageSize) = Front(r, offset) \cup ids
    BY <1>0, <1>2, <1>7 DEF Front
  <2>2. offset = 0 => Front(r, offset) = {}
    BY <1>2 DEF Front
  <2>3. offset # 0 => s.shown = Front(r, offset)
    BY <1>12 DEF r
  <2> QED BY <1>11, <2>1, <2>2, <2>3 DEF r, seen, next
<1>13. t.ended => t.next > Len(t.results)
  <2>1. Len(t.results) = l
    BY <1>11 DEF l, r
  <2> QED BY <1>11, <1>14, <2>1
<1> QED BY <1>10, <1>11, <1>12, <1>13 DEF PagesAreShown

-----------------------------------------------------------------------------
(* The rows that a search finds are copies of rows of strangers. *)
LEMMA FoundRows ==
  ASSUME SearchInv, NEW me
  PROVE  /\ IsFiniteSet(Found(me))
         /\ \A row \in Found(me) :
              /\ row \in CachedUser /\ row.id \in SearchingList(me)
              /\ row.id \in registered \ {me} /\ row = Row(row.id)
         /\ \A u \in SearchingList(me) : Row(u) \in Found(me)
         /\ \A x, y \in Found(me) : x.id = y.id => x = y
<1> DEFINE S == SearchingList(me)
           f == [u \in S |-> Row(u)]
<1>1. S \subseteq registered \ {me}
  BY DEF SearchingList
<1>2. IsFiniteSet(registered) /\ registered \subseteq Users /\ profile \in [registered -> Profile]
  BY DEF SearchInv, IInv, TypeOK
<1>3. IsFiniteSet(S)
  BY <1>1, <1>2, FS_Subset
<1> HIDE DEF S
<1>4. Found(me) = {Row(u) : u \in S}
  BY DEF Found, S
<1>5. f \in Surjection(S, Found(me))
  BY <1>4 DEF Surjection
<1>6. IsFiniteSet(Found(me))
  <2> HIDE DEF f
  <2> QED BY <1>3, <1>5, FS_Surjection
<1>7. ASSUME NEW row \in Found(me)
      PROVE  row \in CachedUser /\ row.id \in S /\ row.id \in registered \ {me} /\ row = Row(row.id)
  <2>1. PICK u \in S : row = Row(u)
    BY <1>4
  <2>2. u \in registered \ {me} /\ profile[u] \in Profile
    BY <1>1, <1>2
  <2>3. profile[u].login \in Texts /\ profile[u].name \in Texts
    BY <2>2 DEF Profile
  <2>4. u \in Users /\ row = [id |-> u, login |-> profile[u].login, name |-> profile[u].name]
    BY <1>2, <2>1, <2>2 DEF Row
  <2>5. row.id = u /\ row \in CachedUser
    BY <2>3, <2>4 DEF CachedUser
  <2> QED BY <2>1, <2>2, <2>5
<1>8. \A x, y \in Found(me) : x.id = y.id => x = y
  BY <1>7
<1> QED BY <1>4, <1>6, <1>7, <1>8 DEF S

(* The library counts like the model. *)
LEMMA SameCount == ASSUME NEW S PROVE SequenceOps!Cardinality(S) = Cardinality(S)
  BY DEF SequenceOps!Cardinality, Cardinality, SequenceOps!IsFiniteSet, IsFiniteSet

(* What is stored of them. *)
LEMMA RankedRows ==
  ASSUME SearchInv, NEW me, NEW query \in Queries \ {<<>>}, NEW results \in Ranked(me, query)
  PROVE  /\ results \in Seq(CachedUser)
         /\ \A i \in DOMAIN results : results[i] \in Found(me) /\ IsRelevant(results[i], query)
         /\ \A i, j \in DOMAIN results : results[i].id = results[j].id => i = j
         /\ \A i, j \in DOMAIN results :
              i < j => Relevance(results[i], query) >= Relevance(results[j], query)
         /\ \A row \in Found(me) :
              IsRelevant(row, query) => \E i \in DOMAIN results : results[i] = row
<1> DEFINE S == {user \in Found(me) : IsRelevant(user, query)}
           n == Cardinality(S)
<1>1. S \in SUBSET Found(me)
  OBVIOUS
<1>2. IsFiniteSet(S) /\ n \in Nat
  <2>1. IsFiniteSet(S)
    BY <1>1, FoundRows, FS_Subset
  <2> HIDE DEF S
  <2> QED BY <2>1, FS_CardinalityType
<1>3. results \in SequenceOps!SetToSeqs(S)
  BY DEF Ranked
<1>4. \A i, j \in DOMAIN results : i < j => Relevance(results[i], query) >= Relevance(results[j], query)
  BY DEF Ranked
<1>5. \A row \in S : row \in Found(me) /\ IsRelevant(row, query) /\ row \in CachedUser
  BY FoundRows
<1>6. \A row \in Found(me) : IsRelevant(row, query) => row \in S
  OBVIOUS
<1> HIDE DEF S
<1>7. results \in [1 .. n -> S] /\ \A i, j \in 1 .. n : i # j => results[i] # results[j]
  BY <1>3, SameCount DEF SequenceOps!SetToSeqs
<1> HIDE DEF n
<1>8. results \in Surjection(1 .. n, S)
  <2>1. results \in Injection(1 .. n, S)
    BY <1>7 DEF Injection, IsInjective
  <2>2. Cardinality(1 .. n) = n
    BY <1>2, FS_Interval
  <2> QED BY <1>2, <2>1, <2>2, FS_Injection DEF n
<1>9. results \in Seq(CachedUser)
  BY <1>2, <1>5, <1>7
<1>10. DOMAIN results = 1 .. n /\ \A i \in 1 .. n : results[i] \in S
  BY <1>7
<1>11. \A i, j \in DOMAIN results : results[i].id = results[j].id => i = j
  BY <1>5, <1>7, <1>10, FoundRows
<1>12. \A row \in S : \E i \in 1 .. n : results[i] = row
  BY <1>8 DEF Surjection
<1> QED BY <1>4, <1>5, <1>6, <1>9, <1>10, <1>11, <1>12

(* Between two commands, the strangers of search are those without a row. *)
LEMMA StrangersHaveNoRow ==
  ASSUME IInv, Idle, NEW me \in Ids, NEW u \in registered \ {me}
  PROVE  u \in SearchingList(me) <=> RowsBetween(me, u) = 0
<1>1. u \in Ids /\ <<u, me>> \in Ids \X Ids /\ <<me, u>> \in Ids \X Ids
  BY DEF IInv, TypeOK, Ids
<1>2. /\ requests[<<u, me>>] \in Nat /\ requests[<<me, u>>] \in Nat
      /\ contacts[<<u, me>>] \in Nat /\ contacts[<<me, u>>] \in Nat
  BY <1>1 DEF IInv, TypeOK
<1>3. u \in SearchingList(me) <=> /\ ~(contacts[<<u, me>>] > 0) /\ ~(contacts[<<me, u>>] > 0)
                                  /\ ~(requests[<<u, me>>] > 0) /\ ~(requests[<<me, u>>] > 0)
  BY <1>1 DEF SearchingList
<1>4. RowsBetween(me, u) = requests[<<me, u>>] + requests[<<u, me>>] + contacts[<<me, u>>] + contacts[<<u, me>>] + 0
  BY <1>2 DEF RowsBetween, Rows, Idle
<1> DEFINE a == requests[<<me, u>>]
           b == requests[<<u, me>>]
           c == contacts[<<me, u>>]
           d == contacts[<<u, me>>]
<1>5. /\ a \in Nat /\ b \in Nat /\ c \in Nat /\ d \in Nat
      /\ RowsBetween(me, u) = a + b + c + d + 0
      /\ u \in SearchingList(me) <=> ~(d > 0) /\ ~(c > 0) /\ ~(b > 0) /\ ~(a > 0)
  BY <1>2, <1>3, <1>4
<1> HIDE DEF a, b, c, d
<1>6. RowsBetween(me, u) = 0 <=> ~(d > 0) /\ ~(c > 0) /\ ~(b > 0) /\ ~(a > 0)
  BY <1>5
<1> QED BY <1>5, <1>6

-----------------------------------------------------------------------------
(* The steps.                                                              *)

(* A copy of a row resembles what the row does. *)
LEMMA RowResembles == ASSUME NEW u, NEW q PROVE Resembles(Row(u), q) <=> Resembles(profile[u], q)
<1>1. Row(u).login = profile[u].login /\ Row(u).name = profile[u].name
  BY DEF Row
<1> QED BY <1>1 DEF Resembles, UserEdits

(* What a search for a query stores is ranked and current. *)
LEMMA RankedIsCurrent ==
  ASSUME SearchInv, Idle, NEW me \in Ids, NEW query \in Queries \ {<<>>},
         NEW results \in Ranked(me, query)
  PROVE  /\ \A i \in DOMAIN results :
              /\ Resembles(results[i], query)
              /\ \A j \in i .. Len(results) :
                   UserEdits(results[i], query)
                     <= UserEdits(results[j], query)
         /\ \A u \in Users : u \in Front(results, Len(results)) <=> u \in Matches(me, query)
<1>0. /\ results \in Seq(CachedUser)
      /\ \A i \in DOMAIN results : results[i] \in Found(me) /\ IsRelevant(results[i], query)
      /\ \A i, j \in DOMAIN results : results[i].id = results[j].id => i = j
      /\ \A i, j \in DOMAIN results :
           i < j => Relevance(results[i], query) >= Relevance(results[j], query)
      /\ \A row \in Found(me) :
           IsRelevant(row, query) => \E i \in DOMAIN results : results[i] = row
  BY RankedRows
<1>1. /\ Len(results) \in Nat /\ DOMAIN results = 1 .. Len(results)
      /\ \A i \in DOMAIN results : results[i] \in CachedUser
  BY <1>0, LenProperties, ElementOfSeq
<1>2. ASSUME NEW i \in DOMAIN results
      PROVE  /\ Resembles(results[i], query)
             /\ \A j \in i .. Len(results) :
                  UserEdits(results[i], query)
                    <= UserEdits(results[j], query)
  <2>1. Resembles(results[i], query)
    BY <1>0, <1>1, RelevantResembles
  <2>2. ASSUME NEW j \in i .. Len(results)
        PROVE  UserEdits(results[i], query)
                 <= UserEdits(results[j], query)
    <3>1. j \in DOMAIN results /\ i \in Nat /\ j \in Nat
      BY <1>1
    <3>2. CASE i < j
      <4>1. Relevance(results[i], query) >= Relevance(results[j], query)
        BY <1>0, <3>1, <3>2
      <4> QED BY <1>0, <1>1, <3>1, <4>1, RelevanceOrders
    <3>3. CASE i = j
      <4>1. UserEdits(results[i], query) \in Nat
        BY <1>1, RelevanceOfEdits
      <4> QED BY <3>3, <4>1
    <3> QED BY <3>1, <3>2, <3>3
  <2> QED BY <2>1, <2>2
<1>3. ASSUME NEW u \in Users, u \in Front(results, Len(results))
      PROVE  u \in Matches(me, query)
  <2>1. PICK i \in DOMAIN results : u = results[i].id
    BY <1>3 DEF Front
  <2>2. /\ results[i] \in CachedUser /\ u \in SearchingList(me) /\ u \in registered \ {me}
        /\ results[i] = Row(u)
    BY <1>0, <2>1, FoundRows
  <2>3. Resembles(profile[u], query)
    BY <1>2, <2>1, <2>2, RowResembles
  <2>4. RowsBetween(me, u) = 0
    BY <2>2, StrangersHaveNoRow DEF SearchInv
  <2> QED BY <2>2, <2>3, <2>4 DEF Matches
<1>4. ASSUME NEW u \in Users, u \in Matches(me, query)
      PROVE  u \in Front(results, Len(results))
  <2>1. u \in registered \ {me} /\ RowsBetween(me, u) = 0 /\ Resembles(profile[u], query)
    BY <1>4 DEF Matches
  <2>2. u \in SearchingList(me)
    BY <2>1, StrangersHaveNoRow DEF SearchInv
  <2> DEFINE row == Row(u)
  <2>3. row \in Found(me)
    BY <2>2, FoundRows
  <2>4. row.id = u /\ Resembles(row, query)
    BY <2>1, RowResembles DEF Row
  <2> HIDE DEF row
  <2>5. row \in CachedUser
    BY <2>3, FoundRows
  <2>6. IsRelevant(row, query)
    BY <2>4, <2>5, RelevantResembles
  <2>7. PICK i \in DOMAIN results : results[i] = row
    BY <1>0, <2>3, <2>6
  <2>8. i <= Len(results)
    BY <1>1
  <2> QED BY <2>4, <2>7, <2>8 DEF Front
<1> QED BY <1>2, <1>3, <1>4

(* Matches are the same in tables and names that are. *)
LEMMA SameMatches ==
  ASSUME UNCHANGED <<registered, requests, contacts, accepting, profile>>, NEW me, NEW q
  PROVE  Matches(me, q)' = Matches(me, q)
  BY DEF Matches, RowsBetween, Rows

LEMMA SearchAfreshInv ==
  ASSUME SearchInv, NEW query \in Queries, SearchAfresh(query)
  PROVE  SearchInv'
<1> DEFINE me == session.user
<1>1. /\ session # NoSession /\ Idle /\ touched' = {}
      /\ UNCHANGED <<registered, requests, contacts, accepting, profile>>
  BY DEF SearchAfresh, tables
<1>2. IInv' /\ IsFiniteSet(registered')
  BY SearchKeepsRelations DEF SearchNext
<1>3. PICK results \in IF query = <<>> THEN {<<>>} ELSE Ranked(me, query) :
        session' = Paged([session EXCEPT !.query = query, !.known = TRUE, !.results = results], 0)
  BY DEF SearchAfresh, Stored
<1>4. RowsFit(session, registered) /\ session \in Session /\ me \in Ids
  BY <1>1 DEF SearchInv, RowsFit, Session
<1> HIDE DEF me
<1>5. /\ results \in Seq(CachedUser)
      /\ \A i, j \in DOMAIN results :
           /\ results[i].id = results[j].id => i = j
           /\ results[i].id \in registered \ {me}
      /\ query = <<>> => results = <<>>
  <2>1. CASE query = <<>>
    BY <1>3, <2>1
  <2>2. CASE query # <<>>
    <3>1. query \in Queries \ {<<>>} /\ results \in Ranked(me, query)
      BY <1>3, <2>2
    <3>2. /\ results \in Seq(CachedUser)
          /\ \A i \in DOMAIN results : results[i] \in Found(me)
          /\ \A i, j \in DOMAIN results : results[i].id = results[j].id => i = j
      BY <3>1, RankedRows
    <3> QED BY <2>2, <3>2, FoundRows
  <2> QED BY <2>1, <2>2
<1> DEFINE b == [session EXCEPT !.query = query, !.known = TRUE, !.results = results]
<1>6. /\ b \in Session
      /\ b.user = me /\ b.query = query /\ b.results = results /\ b.known = TRUE
  BY <1>4, <1>5 DEF Session, me
<1> HIDE DEF b
<1>7. /\ session' \in Session
      /\ session'.user = me /\ session'.query = query /\ session'.results = results
      /\ session'.known = TRUE /\ PagesAreShown(session')
  <2>1. session' = Paged(b, 0)
    BY <1>3 DEF b
  <2> QED BY <1>6, <2>1, PageIsShown
<1>8. RowsFit(session', registered')
  BY <1>1, <1>5, <1>7 DEF RowsFit
<1>9. RowsAreRanked(session')
  <2> SUFFICES ASSUME query # <<>> PROVE RowsAreRanked(session')
    BY <1>7 DEF RowsAreRanked
  <2>1. query \in Queries \ {<<>>} /\ results \in Ranked(me, query)
    BY <1>3
  <2> QED BY <1>1, <1>4, <1>7, <2>1, RankedIsCurrent DEF RowsAreRanked
<1>10. Filled' => ResultsAreCurrent(session)'
  <2> SUFFICES ASSUME query # <<>> PROVE ResultsAreCurrent(session)'
    BY <1>7 DEF Filled
  <2>1. query \in Queries \ {<<>>} /\ results \in Ranked(me, query)
    BY <1>3
  <2>2. \A u \in Users : u \in Front(results, Len(results)) <=> u \in Matches(me, query)
    BY <1>1, <1>4, <2>1, RankedIsCurrent
  <2>3. Matches(session.user, session.query)' = Matches(me, query)
    BY <1>1, <1>7 DEF Matches, RowsBetween, Rows
  <2> QED BY <1>7, <2>2, <2>3 DEF ResultsAreCurrent
<1>11. (profile \in [registered -> Profile] /\ touched \subseteq Users)'
  BY <1>1 DEF SearchInv
<1> QED BY <1>2, <1>7, <1>8, <1>9, <1>10, <1>11 DEF SearchInv

LEMMA SearchFailsInv ==
  ASSUME SearchInv, NEW query \in Queries, SearchFails(query)
  PROVE  SearchInv'
<1>1. /\ session # NoSession /\ touched' = {}
      /\ UNCHANGED <<registered, requests, contacts, accepting, profile>>
      /\ session' = [session EXCEPT !.query = query, !.known = FALSE, !.results = <<>>,
                                    !.next = 0, !.shown = {}, !.ended = FALSE]
  BY DEF SearchFails, DatabaseFails, Answer
<1>2. IInv' /\ IsFiniteSet(registered')
  BY SearchKeepsRelations DEF SearchNext
<1>3. session \in Session
  BY <1>1 DEF SearchInv, RowsFit
<1>4. session' \in Session /\ session'.results = <<>> /\ session'.known = FALSE
  <2>1. <<>> \in Seq(CachedUser) /\ {} \in SUBSET Users /\ 0 \in Nat
    BY EmptySeq
  <2> QED BY <1>1, <1>3, <2>1 DEF Session
<1>5. RowsFit(session', registered') /\ RowsAreRanked(session') /\ ~Filled'
  BY <1>4 DEF RowsFit, RowsAreRanked, Filled
<1>6. (profile \in [registered -> Profile] /\ touched \subseteq Users)'
  BY <1>1 DEF SearchInv
<1> QED BY <1>2, <1>5, <1>6 DEF SearchInv

LEMMA SearchCachedInv ==
  ASSUME SearchInv, SearchCached
  PROVE  SearchInv'
<1>1. /\ session # NoSession
      /\ UNCHANGED <<registered, requests, contacts, accepting, profile, touched>>
  BY DEF SearchCached, tables
<1>2. IInv' /\ IsFiniteSet(registered')
  BY SearchKeepsRelations DEF SearchNext
<1>3. RowsFit(session, registered) /\ RowsAreRanked(session) /\ session \in Session
  BY <1>1 DEF SearchInv, RowsFit
<1>4. PICK offset \in {0} \cup (IF session.ended THEN {} ELSE {session.next}) :
        session' = Paged(session, offset)
  BY DEF SearchCached
<1>5. offset \in Nat /\ (offset = 0 \/ offset = session.next)
  BY <1>3, <1>4 DEF Session
<1>6. /\ session' \in Session
      /\ session'.user = session.user /\ session'.query = session.query
      /\ session'.results = session.results /\ session'.known = session.known
  BY <1>3, <1>4, <1>5, PageIsShown
<1>7. RowsFit(session', registered') /\ RowsAreRanked(session')
  BY <1>1, <1>3, <1>6 DEF RowsFit, RowsAreRanked
<1>8. ASSUME Filled' PROVE ResultsAreCurrent(session)' /\ PagesAreShown(session')
  <2>1. Filled
    BY <1>1, <1>6, <1>8 DEF Filled
  <2>2. PagesAreShown(session) /\ ResultsAreCurrent(session)
    BY <2>1 DEF SearchInv
  <2>3. PagesAreShown(session')
    BY <1>3, <1>4, <1>5, <2>2, PageIsShown DEF PagesAreShown
  <2>4. Matches(session.user, session.query)' = Matches(session.user, session.query)
    BY <1>1, <1>6 DEF Matches, RowsBetween, Rows
  <2> QED BY <1>1, <1>6, <2>2, <2>3, <2>4 DEF ResultsAreCurrent
<1>9. (profile \in [registered -> Profile] /\ touched \subseteq Users)'
  BY <1>1 DEF SearchInv
<1> QED BY <1>2, <1>7, <1>8, <1>9 DEF SearchInv

LEMMA NoSessionInv ==
  ASSUME SearchInv, ProcessEnds \/ SearchForNothing
  PROVE  SearchInv'
<1>1. IInv' /\ IsFiniteSet(registered')
  BY SearchKeepsRelations DEF SearchNext
<1>2. session' = NoSession /\ touched' = {} /\ UNCHANGED <<registered, profile>>
  BY DEF SearchForNothing, ProcessEnds, Crash, tables
<1> QED BY <1>1, <1>2 DEF SearchInv, Filled

LEMMA NewSessionInv ==
  ASSUME SearchInv, NewSession
  PROVE  SearchInv'
<1>1. IInv' /\ IsFiniteSet(registered')
  BY SearchKeepsRelations DEF SearchNext
<1>2. PICK u \in Ids :
        session' = [user |-> u, query |-> <<>>, results |-> <<>>, known |-> FALSE,
                    next |-> 0, shown |-> {}, ended |-> FALSE]
  BY SearchConstants DEF NewSession
<1>3. touched' = {} /\ UNCHANGED <<registered, profile>>
  BY DEF NewSession, vars
<1>4. session' \in Session /\ session'.results = <<>> /\ session'.known = FALSE
  BY <1>2, SearchConstants DEF Session
<1>5. RowsFit(session', registered') /\ RowsAreRanked(session') /\ ~Filled'
  BY <1>4 DEF RowsFit, RowsAreRanked, Filled
<1> QED BY <1>1, <1>3, <1>5 DEF SearchInv

LEMMA ProfileSetInv ==
  ASSUME SearchInv, ProfileSet
  PROVE  SearchInv'
<1>1. PICK u \in registered \cap Renamers :
        \E l \in NewLogins \cup {profile[u].login}, n \in NewNames \cup {profile[u].name} :
          /\ profile' = [profile EXCEPT ![u] = [login |-> l, name |-> n]]
          /\ touched' = IF [login |-> l, name |-> n] = profile[u] \/ ~Filled
                        THEN touched ELSE touched \cup {u}
  BY DEF ProfileSet
<1>2. UNCHANGED <<registered, requests, contacts, accepting, session>>
  BY DEF ProfileSet, tables
<1>3. IInv' /\ IsFiniteSet(registered')
  BY SearchKeepsRelations DEF SearchNext
<1>4. registered \subseteq Users /\ profile \in [registered -> Profile]
  BY DEF SearchInv, IInv, TypeOK
<1>5. PICK new \in Profile :
        /\ profile' = [profile EXCEPT ![u] = new]
        /\ touched' = IF new = profile[u] \/ ~Filled THEN touched ELSE touched \cup {u}
  <2>1. PICK l \in NewLogins \cup {profile[u].login}, n \in NewNames \cup {profile[u].name} :
          /\ profile' = [profile EXCEPT ![u] = [login |-> l, name |-> n]]
          /\ touched' = IF [login |-> l, name |-> n] = profile[u] \/ ~Filled
                        THEN touched ELSE touched \cup {u}
    BY <1>1
  <2>2. l \in Texts /\ n \in Texts
    BY <1>4 DEF Texts, Profile
  <2>3. [login |-> l, name |-> n] \in Profile
    BY <2>2 DEF Profile
  <2> QED BY <2>1, <2>3
<1>6. (profile \in [registered -> Profile] /\ touched \subseteq Users)'
  BY <1>2, <1>4, <1>5 DEF SearchInv
<1>7. session' # NoSession => RowsFit(session', registered') /\ RowsAreRanked(session')
  BY <1>2 DEF SearchInv
<1>8. ASSUME Filled' PROVE ResultsAreCurrent(session)' /\ PagesAreShown(session')
  <2>1. Filled
    BY <1>2, <1>8 DEF Filled
  <2>2. PagesAreShown(session') /\ ResultsAreCurrent(session)
    BY <1>2, <2>1 DEF SearchInv
  <2>3. ASSUME NEW v \in Users \ touched'
        PROVE  v \in Matches(session.user, session.query)' <=> v \in Matches(session.user, session.query)
    <3>1. v \in registered => profile'[v] = profile[v]
      BY <1>4, <1>5, <2>1
    <3> QED BY <1>2, <3>1 DEF Matches, RowsBetween, Rows
  <2>4. touched \subseteq touched'
    BY <1>5
  <2> QED BY <1>2, <2>2, <2>3, <2>4 DEF ResultsAreCurrent
<1> QED BY <1>3, <1>6, <1>7, <1>8 DEF SearchInv

LEMMA RelationsChangeInv ==
  ASSUME SearchInv, RelationsChange
  PROVE  SearchInv'
<1>1. IInv' /\ IsFiniteSet(registered') /\ registered \subseteq registered'
  BY SearchKeepsRelations DEF SearchNext
<1>2. /\ profile' = [u \in registered' |->
           IF u \in registered THEN profile[u]
           ELSE [login |-> FirstLogin[u], name |-> FirstLogin[u]]]
      /\ session' = session
      /\ touched' =
           IF ~Filled THEN {}
           ELSE touched \cup (registered' \ registered)
                  \cup {u \in registered : \E me \in {session.user} :
                                             RowsBetween(me, u)' # RowsBetween(me, u)}
  BY DEF RelationsChange
<1>3. registered \subseteq Users /\ registered' \subseteq Users /\ profile \in [registered -> Profile]
  BY <1>1 DEF SearchInv, IInv, TypeOK
<1>4. \A u \in Users : [login |-> FirstLogin[u], name |-> FirstLogin[u]] \in Profile
  BY DEF Texts, Profile
<1>5. profile' \in [registered' -> Profile]
  BY <1>2, <1>3, <1>4
<1>6. touched' \subseteq Users
  BY <1>2, <1>3 DEF SearchInv
<1>7. session' # NoSession => RowsFit(session', registered') /\ RowsAreRanked(session')
  BY <1>1, <1>2 DEF SearchInv, RowsFit
<1>8. ASSUME Filled' PROVE ResultsAreCurrent(session)' /\ PagesAreShown(session')
  <2>1. Filled
    BY <1>2, <1>8 DEF Filled
  <2>2. PagesAreShown(session') /\ ResultsAreCurrent(session)
    BY <1>2, <2>1 DEF SearchInv
  <2>3. ASSUME NEW v \in Users \ touched'
        PROVE  v \in Matches(session.user, session.query)' <=> v \in Matches(session.user, session.query)
    <3>1. v \in registered' <=> v \in registered
      BY <1>1, <1>2, <2>1
    <3>2. v \in registered => profile'[v] = profile[v]
      BY <1>2, <3>1
    <3>3. v \in registered =>
            \A me \in {session.user} : RowsBetween(me, v)' = RowsBetween(me, v)
      BY <1>2, <2>1
    <3>4. v \in registered => (RowsBetween(session.user, v))' = RowsBetween(session.user, v)
      BY <1>2, <3>3 DEF RowsBetween, Rows
    <3> QED BY <1>2, <3>1, <3>2, <3>4 DEF Matches
  <2>4. touched \subseteq touched'
    BY <1>2, <2>1
  <2> QED BY <1>2, <2>2, <2>3, <2>4 DEF ResultsAreCurrent
<1> QED BY <1>1, <1>5, <1>6, <1>7, <1>8 DEF SearchInv

LEMMA SearchNextInv == SearchInv /\ [SearchNext]_searchVars => SearchInv'
<1> SUFFICES ASSUME SearchInv, [SearchNext]_searchVars PROVE SearchInv'
  OBVIOUS
<1>1. CASE UNCHANGED searchVars
  <2>1. IInv' /\ IsFiniteSet(registered')
    BY SearchKeepsRelations
  <2>2. UNCHANGED <<registered, requests, contacts, accepting, profile, session, touched>>
    BY <1>1 DEF searchVars, vars
  <2>3. ResultsAreCurrent(session)' <=> ResultsAreCurrent(session)
    BY <2>2 DEF ResultsAreCurrent, Matches, RowsBetween, Rows
  <2>4. Filled' <=> Filled
    BY <2>2 DEF Filled
  <2> QED BY <2>1, <2>2, <2>3, <2>4 DEF SearchInv
<1> QED
  BY <1>1, SearchAfreshInv, SearchFailsInv, SearchCachedInv, NoSessionInv, NewSessionInv, ProfileSetInv,
     RelationsChangeInv DEF SearchNext

LEMMA SearchInitInv == SearchInit => SearchInv
<1> SUFFICES ASSUME SearchInit PROVE SearchInv
  OBVIOUS
<1>1. IInv
  BY InitInv DEF SearchInit
<1>2. registered = {} /\ IsFiniteSet(registered)
  BY FS_EmptySet DEF SearchInit, Init
<1> QED BY <1>1, <1>2 DEF SearchInit, SearchInv, Filled

(* The cache of a session is in step with the tables, but for the touched. *)
THEOREM SearchInvariant == SearchSpec => []SearchInv
  BY SearchInitInv, SearchNextInv, PTL DEF SearchSpec

(* The cache of a session holds every user at most once and ranked by an   *)
(* edit distance, for texts of any length over any characters.             *)
THEOREM CacheIsSound == SearchSpec => []CacheInv
<1>1. SearchInv => CacheInv
  BY DEF SearchInv, CacheInv, SearchTypeOK, ResultsAreRanked, RowsFit, RowsAreRanked
<1> QED BY <1>1, SearchInvariant, PTL

(* For any number of users and any size of pages, a client that pages to   *)
(* the end has been shown exactly the matches, but for users touched       *)
(* meanwhile.                                                              *)
THEOREM PagersSeeTheMatches == SearchSpec => []SearchShowsTheMatches
<1>1. ASSUME SearchInv, Filled, session.ended, NEW u \in Users \ touched
      PROVE  u \in session.shown <=> u \in Matches(session.user, session.query)
  <2>1. ResultsAreCurrent(session) /\ PagesAreShown(session) /\ session \in Session
    BY <1>1 DEF SearchInv, Filled, RowsFit
  <2>2. Len(session.results) \in Nat /\ DOMAIN session.results = 1 .. Len(session.results) /\ session.next \in Nat
    <3>1. session.results \in Seq(CachedUser) /\ session.next \in Nat
      BY <2>1 DEF Session
    <3> QED BY <3>1, LenProperties
  <2>3. Front(session.results, session.next) = Front(session.results, Len(session.results))
    BY <1>1, <2>1, <2>2 DEF PagesAreShown, Front
  <2> QED BY <2>1, <2>3 DEF ResultsAreCurrent, PagesAreShown
<1>2. SearchInv => SearchShowsTheMatches
  BY <1>1 DEF SearchShowsTheMatches
<1> QED BY <1>2, SearchInvariant, PTL

(* A step of search is a step of the relations, or one that keeps the      *)
(* tables.                                                                 *)
LEMMA SearchStep ==
  ASSUME [SearchNext]_searchVars
  PROVE  [Next]_vars \/ UNCHANGED <<tables, accepting>>
<1>1. CASE \E query \in Queries : SearchAfresh(query) \/ SearchFails(query)
  BY <1>1 DEF SearchAfresh, SearchFails, DatabaseFails, Answer, tables
<1>2. CASE SearchCached
  BY <1>2 DEF SearchCached
<1>3. CASE SearchForNothing \/ ProcessEnds
  BY <1>3 DEF SearchForNothing, ProcessEnds, Next
<1>4. CASE NewSession \/ ProfileSet \/ UNCHANGED searchVars
  BY <1>4 DEF NewSession, ProfileSet, searchVars
<1>5. CASE RelationsChange
  <2>1. Users \subseteq Ids
    BY DEF Ids
  <2> QED BY <1>5, <2>1 DEF RelationsChange, Next
<1> QED BY <1>1, <1>2, <1>3, <1>4, <1>5 DEF SearchNext

(* With searches between the commands, and with the process ending in the  *)
(* middle of one, the tables are still the contact book.                   *)
THEOREM SearchKeepsTheBook == SearchSpec => ImplementsContactBook
<1>1. SearchInv /\ [SearchNext]_searchVars => [Book!Next]_<<Invited, Friends>>
  <2> SUFFICES ASSUME SearchInv, [SearchNext]_searchVars
               PROVE  Book!Next \/ UNCHANGED <<Invited, Friends>>
    OBVIOUS
  <2>1. IInv
    BY DEF SearchInv
  <2> QED BY <2>1, SearchStep, NextRefines, SameBook DEF tables
<1>2. SearchInit => Book!Init
  BY InitRefines DEF SearchInit
<1> QED
  BY <1>1, <1>2, SearchInvariant, PTL DEF SearchSpec, ImplementsContactBook, Book!Spec, Book!vars
=============================================================================
