----------------------------- MODULE Relations ------------------------------
(***************************************************************************)
(* Invitations and contacts (commands invite, contact_delete and the lists *)
(* built from the same tables).                                            *)
(*                                                                         *)
(* Neither table has a key: contacts and requests may hold any number of   *)
(* equal rows, so a table is a count of rows per pair of ids.  That two    *)
(* users never have more than one row between them rests on the handlers   *)
(* alone.  One thread runs the handlers; accepting an invitation is the    *)
(* only handler here with two writing statements, each of which commits by *)
(* itself, so a failure or the end of the process may come between them.   *)
(* A statement may also take effect and throw, when its answer is lost;    *)
(* the only connection is lost with it until another process starts.       *)
(*                                                                         *)
(* Ids are compared in two ways.  The database ignores case; the one       *)
(* comparison the server makes itself, of a typed id with the id of the    *)
(* session, does not.                                                      *)
(***************************************************************************)
EXTENDS Naturals

CONSTANTS
  Users,   (* user ids that token_generator can return                     *)
  NoUser   (* the empty id: a session created by a failed authentication   *)

ASSUME RelationsConstants == NoUser \notin Users

VARIABLES
  registered, (* ids with a row in table users                             *)
  requests,   (* table requests: rows per <<u_from, u_to>>                 *)
  contacts,   (* table contacts: rows per <<u_from, u_to>>                 *)
  connection, (* the only connection to the database, "up" or "dead"       *)
  accepting,  (* the invitation whose row handle_accept has just deleted   *)
  reply       (* status of the last response the handler thread built      *)

tables == <<registered, requests, contacts>>
vars == <<registered, requests, contacts, connection, accepting, reply>>

Ids == Users \cup {NoUser}

StatusCodes ==
  { "none", "SYS__OKEY", "SYS__INTERNAL_SERVER_ERROR",
    "REQUEST__NONEXISTEN_REQUEST_ERROR", "REQUEST__IMPOSSIBLE_TO_CREATE_ERROR",
    "CONTACT__NONEXISTEN_CONTACT_ERROR" }

(* Tables count rows, and at most one handler is half done. *)
TypeOK ==
  /\ registered \subseteq Users
  /\ requests \in [Ids \X Ids -> Nat]
  /\ contacts \in [Ids \X Ids -> Nat]
  /\ connection \in {"up", "dead"}
  /\ accepting \subseteq Ids \X Ids
  /\ reply \in StatusCodes

-----------------------------------------------------------------------------
(* The statements of db_queries_generator.                                 *)

Answer(code) ==
  reply' = code /\ UNCHANGED <<registered, requests, contacts, connection, accepting>>

(* 500 from the responder's own catch; it stands for 400 as well, which is *)
(* the answer when the pool's bookkeeping throws past that catch.          *)
Failed == reply' = "SYS__INTERNAL_SERVER_ERROR"

(* A statement that failed has no effect; the connection may go with it. *)
DatabaseFails ==
  /\ Failed
  /\ connection' \in {connection, "dead"}
  /\ UNCHANGED <<registered, requests, contacts, accepting>>

(* What the handler makes of a statement that took effect: it answers OK,  *)
(* or with an error because the answer of the database was lost.           *)
AnswerLost == connection' = "dead" /\ Failed

Committed ==
  /\ connection = "up"
  /\ AnswerLost \/ (reply' = "SYS__OKEY" /\ UNCHANGED connection)

ContactExists(u, v) == contacts[<<u, v>>] + contacts[<<v, u>>] > 0

RequestExists(ufrom, uto) == requests[<<ufrom, uto>>] > 0

(* Mutant of RequestBetween: only the invitations u sent are looked up. *)
RequestFromFirst(u, v) == RequestExists(u, v)

RequestBetween(u, v) == RequestExists(u, v) \/ RequestExists(v, u)

(* users_relations_type of a pair.  SELF is decided before any query, by   *)
(* comparing the texts; v may be u in other letters, which is not SELF.    *)
UsersRelations(u, v, exact) ==
  CASE u = v /\ exact -> "SELF"
    [] ~(u = v /\ exact) /\ ContactExists(u, v) -> "CONTACTS"
    [] ~(u = v /\ exact) /\ ~ContactExists(u, v) /\ RequestBetween(u, v) -> "REQUESTS"
    [] OTHER -> "NONE"

(* Both columns are foreign keys into users. *)
ForeignKeysHold(u, v) == u \in registered /\ v \in registered

InsertRequest(ufrom, uto) ==
  requests' = [requests EXCEPT ![<<ufrom, uto>>] = @ + 1]

DeleteRequest(ufrom, uto) ==
  requests' = [requests EXCEPT ![<<ufrom, uto>>] = 0]

InsertContact(ufrom, uto) ==
  contacts' = [contacts EXCEPT ![<<ufrom, uto>>] = @ + 1]

(* Mutant of DeleteContact: the where clause forgets the second user. *)
DeleteContactsOfUser(u, v) ==
  contacts' = [p \in Ids \X Ids |-> IF u \in {p[1], p[2]} THEN 0 ELSE contacts[p]]

DeleteContact(u, v) ==
  contacts' = [contacts EXCEPT ![<<u, v>>] = 0, ![<<v, u>>] = 0]

-----------------------------------------------------------------------------
(* invite_handler; me is the user of the session.                          *)

Idle == accepting = {}

InviteCreate(me, uto) ==
  /\ Idle
  /\ \/ DatabaseFails
     \/ \E exact \in BOOLEAN :
          LET rels == UsersRelations(me, uto, exact) IN
            \/ /\ rels # "NONE"
               /\ connection = "up" \/ rels = "SELF"
               /\ Answer("REQUEST__IMPOSSIBLE_TO_CREATE_ERROR")
            \/ /\ rels = "NONE"
               /\ ForeignKeysHold(me, uto)
               /\ InsertRequest(me, uto)
               /\ Committed
               /\ UNCHANGED <<registered, contacts, accepting>>

InviteAccept(me, ufrom) ==
  /\ Idle
  /\ \/ DatabaseFails
     \/ /\ connection = "up" /\ ~RequestExists(ufrom, me)
        /\ Answer("REQUEST__NONEXISTEN_REQUEST_ERROR")
     \/ /\ connection = "up" /\ RequestExists(ufrom, me)
        /\ DeleteRequest(ufrom, me)
        /\ \/ AnswerLost /\ UNCHANGED accepting
           \/ accepting' = {<<ufrom, me>>} /\ UNCHANGED <<connection, reply>>
        /\ UNCHANGED <<registered, contacts>>

(* The second statement of handle_accept. *)
CreateContact ==
  \E p \in accepting :
    /\ InsertContact(p[1], p[2])
    /\ accepting' = {}
    /\ Committed
    /\ UNCHANGED <<registered, requests>>

CreateContactFails ==
  /\ accepting # {}
  /\ accepting' = {}
  /\ Failed
  /\ connection' \in {connection, "dead"}
  /\ UNCHANGED tables

(* Mutant of WithdrawRequest: the row is gone although the answer is 500. *)
WithdrawRequestUnsure(ufrom, uto) ==
  /\ Idle
  /\ RequestExists(ufrom, uto)
  /\ DeleteRequest(ufrom, uto)
  /\ Failed
  /\ UNCHANGED <<registered, contacts, connection, accepting>>

(* handle_reject serves both sides: the invited user rejects, the inviting *)
(* user cancels.                                                           *)
WithdrawRequest(ufrom, uto) ==
  /\ Idle
  /\ \/ DatabaseFails
     \/ /\ connection = "up" /\ ~RequestExists(ufrom, uto)
        /\ Answer("REQUEST__NONEXISTEN_REQUEST_ERROR")
     \/ /\ RequestExists(ufrom, uto)
        /\ DeleteRequest(ufrom, uto)
        /\ Committed
        /\ UNCHANGED <<registered, contacts, accepting>>

InviteReject(me, ufrom) == WithdrawRequest(ufrom, me)

InviteCancel(me, uto) == WithdrawRequest(me, uto)

ContactDelete(me, other) ==
  /\ Idle
  /\ \/ DatabaseFails
     \/ /\ connection = "up" /\ ~ContactExists(me, other)
        /\ Answer("CONTACT__NONEXISTEN_CONTACT_ERROR")
     \/ /\ ContactExists(me, other)
        /\ DeleteContact(me, other)
        /\ Committed
        /\ UNCHANGED <<registered, requests, accepting>>

-----------------------------------------------------------------------------
(* The selections of the list commands, as sets of ids.                    *)

IncomingInvites(me) == {u \in registered : RequestExists(u, me)}

OutcomingInvites(me) == {u \in registered : RequestExists(me, u)}

(* Mutant of SearchingList: one arm of the union is missing. *)
SearchingListOneWay(me) ==
  (registered \ {me})
    \ UNION { {u \in Ids : contacts[<<u, me>>] > 0}, {u \in Ids : contacts[<<me, u>>] > 0},
              {u \in Ids : requests[<<me, u>>] > 0} }

(* search offers everybody who occurs in no row together with me. *)
SearchingList(me) ==
  (registered \ {me})
    \ UNION { {u \in Ids : contacts[<<u, me>>] > 0}, {u \in Ids : contacts[<<me, u>>] > 0},
              {u \in Ids : requests[<<u, me>>] > 0}, {u \in Ids : requests[<<me, u>>] > 0} }

(* contacts_list joins users with BOTH columns of every contacts row and   *)
(* filters the result by "id <> me" only.                                  *)
ContactsList(me) ==
  {u \in registered \ {me} : \E v \in Ids : contacts[<<u, v>>] > 0 \/ contacts[<<v, u>>] > 0}

-----------------------------------------------------------------------------
(* The world around the handlers.                                          *)

(* A signup, heard of or not: users are never deleted. *)
Register ==
  /\ Idle
  /\ \E u \in Users \ registered : registered' = registered \cup {u}
  /\ connection = "up" /\ connection' \in {"up", "dead"}
  /\ UNCHANGED <<requests, contacts, accepting, reply>>

(* The process ends; the tables stay as the last statement left them, and  *)
(* the next process opens a connection of its own.                         *)
Crash ==
  /\ connection' = "up"
  /\ accepting' = {}
  /\ reply' = "none"
  /\ UNCHANGED tables

Init ==
  /\ registered = {}
  /\ requests = [p \in Ids \X Ids |-> 0]
  /\ contacts = [p \in Ids \X Ids |-> 0]
  /\ connection = "up"
  /\ accepting = {}
  /\ reply = "none"

Command(me, other) ==
  \/ InviteCreate(me, other)
  \/ InviteAccept(me, other)
  \/ InviteReject(me, other)
  \/ InviteCancel(me, other)
  \/ ContactDelete(me, other)

Next ==
  \/ \E me \in registered \cup {NoUser}, other \in Ids : Command(me, other)
  \/ CreateContact
  \/ CreateContactFails
  \/ Register
  \/ Crash

Spec == Init /\ [][Next]_vars

-----------------------------------------------------------------------------
(* Properties.                                                             *)

(* Rows that stand for something from u to v, an invitation that is being  *)
(* accepted included.                                                      *)
Rows(p) == requests[p] + contacts[p] + (IF p \in accepting THEN 1 ELSE 0)

RowsBetween(u, v) == Rows(<<u, v>>) + (IF u = v THEN 0 ELSE Rows(<<v, u>>))

(* Although no table has a key, two users never have more than one row     *)
(* between them, nobody has more than one with oneself (which an id in     *)
(* other letters makes possible, db_responder.cpp:234), and every row      *)
(* names registered users (invite_handler.cpp:28-51).                      *)
AtMostOneRelation ==
  \A u, v \in Ids :
    /\ RowsBetween(u, v) <= 1
    /\ RowsBetween(u, v) > 0 => u \in registered /\ v \in registered

(* The selections agree: between two commands every other user is found by *)
(* exactly one of search, incoming invites, outcoming invites and the      *)
(* contact check (four different SQL queries over two tables), and who is  *)
(* found by the last is on the contacts list (which has others as well).   *)
EveryUserInOneList ==
  Idle =>
    \A me \in registered : \A u \in registered \ {me} :
      LET found == << u \in SearchingList(me), u \in IncomingInvites(me),
                      u \in OutcomingInvites(me), ContactExists(me, u) >>
      IN  /\ \E i \in 1 .. 4 : \A j \in 1 .. 4 : found[j] <=> i = j
          /\ found[4] => u \in ContactsList(me)

(* Two users stop being related only because a command that said so        *)
(* answered OK, because an acceptance was cut between its statements, or   *)
(* because the answer to the deletion was lost: at most once in a process. *)
RelationEndsKnowingly ==
  [][\A u, v \in Ids :
       (RowsBetween(u, v) > 0 /\ RowsBetween(u, v)' = 0) =>
          \/ reply' = "SYS__OKEY"
          \/ accepting \cap {<<u, v>>, <<v, u>>} # {} /\ (CreateContactFails \/ Crash)
          \/ connection = "up" /\ AnswerLost]_vars

Invited == {p \in Ids \X Ids : requests[p] > 0} \cup accepting

Friends == {{p[1], p[2]} : p \in {q \in Ids \X Ids : contacts[q] > 0}}

Book == INSTANCE ContactBook WITH invited <- Invited, friends <- Friends

(* Whatever statement fails and whenever the process ends, the tables show *)
(* the contact book: a friendship comes only from an invitation of the     *)
(* other user, and an invitation only joins strangers.                     *)
ImplementsContactBook == Book!Spec
=============================================================================
