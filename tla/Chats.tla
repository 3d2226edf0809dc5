------------------------------- MODULE Chats --------------------------------
(***************************************************************************)
(* Chats, their members, their messages and the files behind file messages *)
(* (commands chat_create, chat_add, chat_leave and chat_post).             *)
(*                                                                         *)
(* The size column of a chat repeats what users_in_chats says, and decides *)
(* when a chat is full and when its row is deleted.  Adding and excluding  *)
(* a user are transactions; creating a chat is two statements that commit  *)
(* one by one, and a file message is a file followed by a row.  One thread *)
(* runs the handlers, so between the two parts only a failure or the end   *)
(* of the process can come.                                                *)
(***************************************************************************)
EXTENDS Integers, FiniteSets, Functions

CONSTANTS
  Users,           (* user ids that token_generator can return             *)
  NoUser,          (* the empty id of a session nobody logged into         *)
  ChatIds,         (* chat ids that token_generator can return             *)
  MessageIds,      (* message ids that token_generator can return          *)
  MaxChats,        (* chat_handler::max_chats_count_to_join                *)
  MaxParticipants  (* chat_add_handler::max_chat_participants_count        *)

ASSUME ChatsConstants ==
  /\ NoUser \notin Users
  /\ IsFiniteSet(Users)
  /\ MaxChats \in Nat
  /\ MaxParticipants \in Nat /\ MaxParticipants >= 2

VARIABLES
  registered,  (* ids with a row in table users                            *)
  contacts,    (* {u, v}: u and v are contacts (kept by the invitations)   *)
  chats,       (* table chats: id -> type and size                         *)
  members,     (* table users_in_chats: <<user, chat>>                     *)
  messages,    (* table messages: id -> chat, sender, type                 *)
  files,       (* files under files_storage_path: <<chat, message>>        *)
  creating,    (* chat row inserted, members not yet: <<chat, ids>>        *)
  posting,     (* file written, message row not yet: <<id, row>>           *)
  reply        (* status of the last response the handler thread built     *)

people == <<registered, contacts>>
rooms == <<chats, members>>
jobs == <<creating, posting>>
vars == <<registered, contacts, chats, members, messages, files, creating, posting, reply>>

Ids == Users \cup {NoUser}

ChatRow == [type : {"private", "public"}, size : Nat]

MessageRow == [chat : ChatIds, sender : Ids, type : {"text", "file"}]

StatusCodes ==
  { "none", "SYS__OKEY", "SYS__INTERNAL_SERVER_ERROR", "SYS__INVALID_COMMAND_ERROR",
    "CONTACT__NONEXISTEN_CONTACT_ERROR", "CHAT__INVALID_NAME_ERROR",
    "CHAT__JOINED_CHATS_LIMIT_EXCEEDED_ERROR", "CHAT__USER_NOT_A_PARTICIPANT_ERROR",
    "CHAT__USER_ALREADY_IN_CHAT", "CHAT__IMPOSSIBLE_ADD_TO_PRIVATE_CHAT_ERROR",
    "CHAT__CHAT_PARTICIPANTS_LIMIT_EXCEEDED_ERROR", "CHAT__TEXT_MESSAGE_TOO_LARGE",
    "CHAT__FILE_SIZE_TOO_LARGE" }

(* Tables have their types and obey their foreign keys. *)
TypeOK ==
  /\ registered \subseteq Users
  /\ contacts \subseteq {{u, v} : u \in registered, v \in registered}
  /\ DOMAIN chats \subseteq ChatIds
  /\ chats \in [DOMAIN chats -> ChatRow]
  /\ members \subseteq registered \X (DOMAIN chats)
  /\ DOMAIN messages \subseteq MessageIds
  /\ messages \in [DOMAIN messages -> MessageRow]
  /\ \A m \in DOMAIN messages : messages[m].chat \in DOMAIN chats
  /\ files \subseteq ChatIds \X MessageIds
  /\ creating \subseteq (DOMAIN chats) \X (SUBSET Ids)
  /\ posting \subseteq MessageIds \X MessageRow
  /\ reply \in StatusCodes

-----------------------------------------------------------------------------
(* Tables and the statements on them.                                      *)

Put(f, k, v) == [x \in DOMAIN f \cup {k} |-> IF x = k THEN v ELSE f[x]]

Remove(f, k) == Restrict(f, DOMAIN f \ {k})

Idle == creating = {} /\ posting = {}

Answer(code) ==
  reply' = code /\ UNCHANGED <<people, rooms, messages, files, jobs>>

(* A statement throws; a transaction it belongs to is rolled back. *)
DatabaseFails == Answer("SYS__INTERNAL_SERVER_ERROR")

(* What took effect is answered with OK, or with an error when the answer  *)
(* of the database was lost.                                               *)
Committed == reply' \in {"SYS__OKEY", "SYS__INTERNAL_SERVER_ERROR"}

Members(c) == {u \in registered : <<u, c>> \in members}

IsParticipant(u, c) == <<u, c>> \in members

UserChatsCount(u) == Cardinality({c \in DOMAIN chats : <<u, c>> \in members})

(* What get_users_relations may find.  Two texts of one id are not SELF    *)
(* when they differ in case, and a row of a user with himself may be there *)
(* or not: such rows (see Relations) are not followed here.                *)
MayBeContacts(u, v) == u = v \/ {u, v} \in contacts

MayBeStrangers(u, v) == u = v \/ {u, v} \notin contacts

(* Mutant of PrivateChatExists: having count(user_id) > 2.                 *)
PrivateChatExistsOverTwo(u, v) ==
  \E c \in DOMAIN chats :
    chats[c].type = "private" /\ Cardinality({u, v} \cap Members(c)) > 2

(* Some private chat counts more than one of the two as members. *)
PrivateChatExists(u, v) ==
  \E c \in DOMAIN chats :
    chats[c].type = "private" /\ Cardinality({u, v} \cap Members(c)) > 1

(* First statement of create_chat: it commits by itself, and is the last   *)
(* when its answer is lost.                                                *)
InsertChat(c, type, size, ids) ==
  /\ c \notin DOMAIN chats
  /\ chats' = Put(chats, c, [type |-> type, size |-> size])
  /\ \/ creating' = {<<c, ids>>} /\ UNCHANGED reply
     \/ reply' = "SYS__INTERNAL_SERVER_ERROR" /\ UNCHANGED creating
  /\ UNCHANGED <<people, members, messages, files, posting>>

(* Mutant of InsertMembers: every member is inserted by its own statement. *)
InsertMembersOneByOne ==
  \E job \in creating : \E u \in job[2] :
    /\ job[2] \subseteq registered
    /\ members' = members \cup {<<u, job[1]>>}
    /\ creating' = IF job[2] = {u} THEN {} ELSE {<<job[1], job[2] \ {u}>>}
    /\ Committed
    /\ UNCHANGED <<people, chats, messages, files, posting>>

(* Second statement: one insert of all the members, as many as the size    *)
(* says.  They are users, and no two of them one user (the primary key).   *)
InsertMembers ==
  \E job \in creating :
    /\ job[2] \subseteq registered
    /\ Cardinality(job[2]) = chats[job[1]].size
    /\ members' = members \cup (job[2] \X {job[1]})
    /\ creating' = {}
    /\ Committed
    /\ UNCHANGED <<people, chats, messages, files, posting>>

(* It fails or violates a key: the chat row stays. *)
InsertMembersFails ==
  /\ creating # {}
  /\ creating' = {}
  /\ reply' = "SYS__INTERNAL_SERVER_ERROR"
  /\ UNCHANGED <<people, rooms, messages, files, posting>>

-----------------------------------------------------------------------------
(* chat_create                                                             *)

ChatLimitReached(u) == UserChatsCount(u) = MaxChats

ChatCreatePublic(me, c, title) ==
  /\ Idle
  /\ \/ DatabaseFails
     \/ /\ ChatLimitReached(me)
        /\ Answer("CHAT__JOINED_CHATS_LIMIT_EXCEEDED_ERROR")
     \/ /\ ~ChatLimitReached(me) /\ title = "malformed"
        /\ Answer("CHAT__INVALID_NAME_ERROR")
     \/ /\ ~ChatLimitReached(me) /\ title = "valid"
        /\ InsertChat(c, "public", 1, {me})

ChatCreatePrivate(me, other, c) ==
  /\ Idle
  /\ \/ DatabaseFails
     \/ /\ ChatLimitReached(me)
        /\ Answer("CHAT__JOINED_CHATS_LIMIT_EXCEEDED_ERROR")
     \/ /\ ~ChatLimitReached(me) /\ MayBeStrangers(me, other)
        /\ Answer("CONTACT__NONEXISTEN_CONTACT_ERROR")
     \/ /\ ~ChatLimitReached(me) /\ MayBeContacts(me, other)
        /\ PrivateChatExists(me, other)
        /\ Answer("CHAT__USER_ALREADY_IN_CHAT")
     \/ /\ ~ChatLimitReached(me) /\ MayBeContacts(me, other)
        /\ ~PrivateChatExists(me, other)
        /\ \/ /\ ChatLimitReached(other)
              /\ Answer("CHAT__JOINED_CHATS_LIMIT_EXCEEDED_ERROR")
           \/ /\ ~ChatLimitReached(other)
              /\ InsertChat(c, "private", 2, {me, other})

-----------------------------------------------------------------------------
(* chat_add: membership and size change in one transaction.                *)

(* Mutant of AddUserToChat: the update of size is forgotten.               *)
AddUserUncounted(c, u) ==
  /\ members' = members \cup {<<u, c>>}
  /\ UNCHANGED chats

AddUserToChat(c, u) ==
  /\ members' = members \cup {<<u, c>>}
  /\ chats' = [chats EXCEPT ![c].size = @ + 1]

ChatIsFull(c) == chats[c].size >= MaxParticipants

ChatAdd(me, c, u) ==
  /\ Idle
  /\ \/ DatabaseFails
     \/ /\ ~IsParticipant(me, c)
        /\ Answer("CHAT__USER_NOT_A_PARTICIPANT_ERROR")
     \/ /\ IsParticipant(me, c) /\ chats[c].type = "private"
        /\ Answer("CHAT__IMPOSSIBLE_ADD_TO_PRIVATE_CHAT_ERROR")
     \/ /\ IsParticipant(me, c) /\ chats[c].type = "public"
        /\ \/ /\ ChatIsFull(c)
              /\ Answer("CHAT__CHAT_PARTICIPANTS_LIMIT_EXCEEDED_ERROR")
           \/ /\ ~ChatIsFull(c) /\ MayBeStrangers(me, u)
              /\ Answer("CONTACT__NONEXISTEN_CONTACT_ERROR")
           \/ /\ ~ChatIsFull(c) /\ MayBeContacts(me, u) /\ IsParticipant(u, c)
              /\ Answer("CHAT__USER_ALREADY_IN_CHAT")
           \/ /\ ~ChatIsFull(c) /\ MayBeContacts(me, u) /\ ~IsParticipant(u, c)
              /\ AddUserToChat(c, u)
              /\ Committed
              /\ UNCHANGED <<people, messages, files, jobs>>

-----------------------------------------------------------------------------
(* chat_leave: one transaction of three statements; the third deletes the  *)
(* chat, and its members and messages with it, by its new size.            *)

(* Mutant of ClosesAt: public and private exchanged.                       *)
ClosesSwapped(type) == IF type = "public" THEN 1 ELSE 0

ClosesAt(type) == IF type = "public" THEN 0 ELSE 1

(* Mutant of ExcludeUser: chat and members deleted, messages left behind.  *)
ExcludeWithoutCascade(u, c) ==
  LET left == chats[c].size - 1 IN
    /\ UNCHANGED messages
    /\ IF left = ClosesAt(chats[c].type)
         THEN /\ chats' = Remove(chats, c)
              /\ members' = {p \in members : p[2] # c}
         ELSE /\ chats' = [chats EXCEPT ![c].size = left]
              /\ members' = members \ {<<u, c>>}

ExcludeUser(u, c) ==
  LET left == chats[c].size - 1 IN
    IF left = ClosesAt(chats[c].type)
      THEN /\ chats' = Remove(chats, c)
           /\ members' = {p \in members : p[2] # c}
           /\ messages' = Restrict(messages, {m \in DOMAIN messages : messages[m].chat # c})
      ELSE /\ chats' = [chats EXCEPT ![c].size = left]
           /\ members' = members \ {<<u, c>>}
           /\ UNCHANGED messages

ChatLeave(me, c) ==
  /\ Idle
  /\ \/ DatabaseFails
     \/ /\ ~IsParticipant(me, c)
        /\ Answer("CHAT__USER_NOT_A_PARTICIPANT_ERROR")
     \/ /\ IsParticipant(me, c)
        /\ ExcludeUser(me, c)
        /\ Committed
        /\ UNCHANGED <<people, files, jobs>>

-----------------------------------------------------------------------------
(* chat_post                                                               *)

Message(c, u, type) == [chat |-> c, sender |-> u, type |-> type]

PostMessage(m, row) ==
  /\ messages' = Put(messages, m, row)
  /\ Committed
  /\ UNCHANGED <<people, rooms, creating>>

ChatPostText(me, c, m, content) ==
  /\ Idle
  /\ m \notin DOMAIN messages
  /\ \/ DatabaseFails
     \/ /\ ~IsParticipant(me, c)
        /\ Answer("CHAT__USER_NOT_A_PARTICIPANT_ERROR")
     \/ /\ IsParticipant(me, c) /\ content = "oversized"
        /\ Answer("CHAT__TEXT_MESSAGE_TOO_LARGE")
     \/ /\ IsParticipant(me, c) /\ content = "fits"
        /\ PostMessage(m, Message(c, me, "text"))
        /\ UNCHANGED <<files, posting>>

(* save_file: create_directories may throw out of the handler, and the     *)
(* server turns that into "invalid command"; a stream that cannot be       *)
(* opened or written reports nothing, and the handler goes on.             *)
SaveFile(c, m, row) ==
  \/ Answer("SYS__INVALID_COMMAND_ERROR")
  \/ /\ files' = files \cup {<<c, m>>} \/ UNCHANGED files
     /\ posting' = {<<m, row>>}
     /\ UNCHANGED <<people, rooms, messages, creating, reply>>

(* Mutant of ChatPostFile: is_user_chat_participant is not asked.          *)
ChatPostFileUnasked(me, c, m, content) ==
  /\ Idle
  /\ c \in DOMAIN chats /\ me \in registered /\ m \notin DOMAIN messages
  /\ content = "fits"
  /\ SaveFile(c, m, Message(c, me, "file"))

ChatPostFile(me, c, m, content) ==
  /\ Idle
  /\ m \notin DOMAIN messages
  /\ \/ DatabaseFails
     \/ /\ ~IsParticipant(me, c)
        /\ Answer("CHAT__USER_NOT_A_PARTICIPANT_ERROR")
     \/ /\ IsParticipant(me, c) /\ content = "oversized"
        /\ Answer("CHAT__FILE_SIZE_TOO_LARGE")
     \/ /\ IsParticipant(me, c) /\ content = "fits"
        /\ SaveFile(c, m, Message(c, me, "file"))

(* The message row of a file whose file has been handled. *)
PostFileMessage ==
  \E job \in posting :
    /\ PostMessage(job[1], job[2])
    /\ posting' = {}
    /\ UNCHANGED files

PostFileMessageFails ==
  /\ posting # {}
  /\ posting' = {}
  /\ reply' = "SYS__INTERNAL_SERVER_ERROR"
  /\ UNCHANGED <<people, rooms, messages, files, creating>>

-----------------------------------------------------------------------------
(* The world around the chat handlers.                                     *)

Register ==
  /\ Idle
  /\ \E u \in Users \ registered : registered' = registered \cup {u}
  /\ UNCHANGED <<contacts, rooms, messages, files, jobs, reply>>

(* An invitation of another user is accepted or a contact deleted. *)
ContactsChange ==
  /\ Idle
  /\ \E u, v \in registered :
       /\ u # v
       /\ contacts' = IF {u, v} \in contacts THEN contacts \ {{u, v}} ELSE contacts \cup {{u, v}}
  /\ UNCHANGED <<registered, rooms, messages, files, jobs, reply>>

(* The process ends: a transaction in progress is rolled back, statements  *)
(* that committed by themselves stay.                                      *)
Crash ==
  /\ creating' = {} /\ posting' = {}
  /\ reply' = "none"
  /\ UNCHANGED <<people, rooms, messages, files>>

Empty == [x \in {} |-> x]

Init ==
  /\ registered = {} /\ contacts = {}
  /\ chats = Empty /\ members = {}
  /\ messages = Empty /\ files = {}
  /\ creating = {} /\ posting = {}
  /\ reply = "none"

RoomCommand(me, c) ==
  \/ \E title \in {"valid", "malformed"} : ChatCreatePublic(me, c, title)
  \/ \E other \in Ids : ChatCreatePrivate(me, other, c)
  \/ \E u \in Ids : ChatAdd(me, c, u)
  \/ ChatLeave(me, c)

PostCommand(me, c) ==
  \E m \in MessageIds, content \in {"fits", "oversized"} :
    ChatPostText(me, c, m, content) \/ ChatPostFile(me, c, m, content)

Next ==
  \/ \E me \in registered \cup {NoUser}, c \in ChatIds : RoomCommand(me, c) \/ PostCommand(me, c)
  \/ InsertMembers
  \/ InsertMembersFails
  \/ PostFileMessage
  \/ PostFileMessageFails
  \/ Register
  \/ ContactsChange
  \/ Crash

Spec == Init /\ [][Next]_vars

-----------------------------------------------------------------------------
(* Properties.                                                             *)

(* A chat somebody is in records how many are in it; the column decides    *)
(* when the chat is full and when chat_leave deletes it                    *)
(* (db_queries_generator.cpp:536-576).                                     *)
SizeCountsMembers ==
  \A c \in DOMAIN chats :
    Members(c) # {} => chats[c].size = Cardinality(Members(c))

(* A private chat somebody is in has exactly two members, so the scalar    *)
(* subquery that titles it (db_queries_generator.cpp:506-511) has one row. *)
PrivateChatsHaveTwo ==
  \A c \in DOMAIN chats :
    chats[c].type = "private" /\ Members(c) # {} => Cardinality(Members(c)) = 2

(* Two users share at most one private chat, also after their contact was  *)
(* deleted and made again (chat_create_handler.cpp:57-59).                 *)
OnePrivateChatPerPair ==
  \A c, d \in DOMAIN chats :
    /\ chats[c].type = "private" /\ chats[d].type = "private"
    /\ Members(c) # {} /\ Members(c) = Members(d)
    => c = d

(* No chat has more members than the limit (chat_add_handler.cpp:30-34).   *)
ParticipantsLimit == \A c \in DOMAIN chats : Cardinality(Members(c)) <= MaxParticipants

(* Rows that no command can reach any more: a chat without members whose   *)
(* creation is over.                                                       *)
Orphans == {c \in DOMAIN chats : Members(c) = {} /\ \A job \in creating : job[1] # c}

(* A chat row that is new and not to get members is one whose answer was   *)
(* lost: its creator is told of an error.                                  *)
CreationUnheard ==
  \E c \in DOMAIN chats' \ DOMAIN chats :
    Orphans' = Orphans \cup {c} /\ reply' = "SYS__INTERNAL_SERVER_ERROR"

(* Only an interrupted creation leaves an orphan: leaving a chat deletes   *)
(* it together with its last member.                                       *)
OrphansOnlyByFault ==
  [][Orphans' \subseteq Orphans \/ InsertMembersFails \/ Crash \/ CreationUnheard]_vars

(* Every message is in a chat somebody can read: the chat of a message is  *)
(* deleted with its last readers, and its messages with it.                *)
MessagesAreReadable == \A m \in DOMAIN messages : Members(messages[m].chat) # {}

(* A message row appears only while its sender is in the chat, although    *)
(* the check (chat_post_handler.cpp:67-68) comes before the file is saved. *)
OnlyMembersPost ==
  [][\A m \in DOMAIN messages' \ DOMAIN messages :
       IsParticipant(messages'[m].sender, messages'[m].chat)]_vars

Party == [c \in ChatIds |-> Members(c)]

Kind == [c \in ChatIds |-> IF Members(c) = {} THEN "none" ELSE chats[c].type]

Rooms == INSTANCE ChatRooms WITH Chats <- ChatIds, party <- Party, kind <- Kind

(* With the size column, the half created chats and the orphans hidden,    *)
(* the tables behave as rooms that open and close at once.                 *)
ImplementsChatRooms == Rooms!Spec
=============================================================================
