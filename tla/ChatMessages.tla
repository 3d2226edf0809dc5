---------------------------- MODULE ChatMessages ----------------------------
(***************************************************************************)
(* Reading chats (commands chat_messages_list, chats_list and              *)
(* chat_party_list) while others post.                                     *)
(*                                                                         *)
(* A message carries the time of the database in milliseconds, and every   *)
(* selection is by that time: pages are counted from the newest message,   *)
(* "new" means strictly later than the last message the client knows.      *)
(* That is a column datetime, so it goes back when the clock is set back   *)
(* or summer time ends.                                                    *)
(* Neither the pages nor "new" take a snapshot, so what a reader gets to   *)
(* see depends on what is posted between two of its commands.              *)
(***************************************************************************)
EXTENDS Chats, Sequences

CONSTANTS
  MaxTime,   (* bound on the clock of the database                         *)
  PageSize   (* the limit a reader asks for                                *)

ASSUME MessagesConstants ==
  /\ IsFiniteSet(MessageIds)
  /\ MaxTime \in Nat
  /\ PageSize \in Nat \ {0}

VARIABLES
  now,     (* sysdate(3)                                                   *)
  times,   (* column time of table messages                                *)
  late,    (* history: messages that were not the newest when posted       *)
  reader   (* one client that reads a chat, or nobody                      *)

SequenceOps == INSTANCE SequencesExt

timedVars == <<vars, now, times, late, reader>>

Nobody == [user |-> NoUser, mode |-> "away"]

(* The client pages back through a chat with -any and then follows it      *)
(* with -new.  goal: what was in the chat when it began to page, or when   *)
(* it last asked for new messages.                                         *)
Reader ==
  [user : Ids, mode : {"paging", "following"}, chat : ChatIds, offset : Nat,
   last : MessageIds, shown : SUBSET MessageIds, goal : SUBSET MessageIds]

(* Every message is in a chat and has a time, and its sender has no other  *)
(* message of that time there.                                             *)
MessagesTypeOK ==
  /\ TypeOK
  /\ now \in 0 .. MaxTime
  /\ times \in [DOMAIN messages -> 0 .. MaxTime]
  /\ late \subseteq DOMAIN messages
  /\ reader \in Reader \cup {Nobody}
  /\ \A m, o \in DOMAIN messages :
       messages[m].chat = messages[o].chat /\ messages[m].sender = messages[o].sender
         /\ times[m] = times[o] => m = o

-----------------------------------------------------------------------------
(* The commands of Chats, with the time column.                            *)

(* An inserted message gets the time of its statement; the insert violates *)
(* the unique index, and fails, when its sender has already posted to the  *)
(* chat within the same millisecond.                                       *)
Stamp ==
  LET new == DOMAIN messages' \ DOMAIN messages
      NotEarlier(m) == {o \in DOMAIN messages : messages[o].chat = messages'[m].chat /\ times[o] >= now}
  IN
    /\ times' = [m \in DOMAIN messages' |-> IF m \in new THEN now ELSE times[m]]
    /\ \A m \in new, o \in DOMAIN messages :
         ~ /\ times[o] = now
           /\ messages[o].chat = messages'[m].chat
           /\ messages[o].sender = messages'[m].sender
    /\ late' = (late \cap DOMAIN messages') \cup {m \in new : NotEarlier(m) # {}}

(* With its chat deleted, a reader is done. *)
Write ==
  /\ Next
  /\ Stamp
  /\ reader' = IF reader # Nobody /\ reader.chat \notin DOMAIN chats' THEN Nobody ELSE reader
  /\ UNCHANGED now

(* The clock of the database goes on, or is set back. *)
Tick ==
  /\ \E time \in 0 .. MaxTime : time # now /\ now' = time
  /\ UNCHANGED <<vars, times, late, reader>>

-----------------------------------------------------------------------------
(* chat_messages_list                                                      *)

InChat(c) == {m \in DOMAIN messages : messages[m].chat = c}

(* order by time desc: messages of one time come in any order. *)
NewestFirst(S) ==
  {s \in SequenceOps!SetToSeqs(S) : \A i, j \in DOMAIN s : i < j => times[s[i]] >= times[s[j]]}

(* limit offset, size *)
Limit(s, offset, size) == SubSeq(s, offset + 1, IF Len(s) < offset + size THEN Len(s) ELSE offset + size)

(* Strictly later than the last known message; without it the subquery is  *)
(* null and nothing is selected.                                           *)
NewIn(c, last) ==
  {m \in InChat(c) : last \in DOMAIN messages /\ times[m] > times[last]}

Shown(r, rows) == [r EXCEPT !.shown = @ \cup Range(rows)]

(* The handler up to its selection: the participant check, or a failure. *)
ListingRefused(u, c) ==
  /\ Idle
  /\ \/ DatabaseFails
     \/ /\ ~IsParticipant(u, c)
        /\ Answer("CHAT__USER_NOT_A_PARTICIPANT_ERROR")
  /\ UNCHANGED <<now, times, late, reader>>

Listing(u, c) ==
  /\ Idle
  /\ IsParticipant(u, c)
  /\ Answer("SYS__OKEY")
  /\ UNCHANGED <<now, times, late>>

(* Mutant of AfterPage: the next offset is one too far.                    *)
AfterPageSkipping(r, rows) ==
  [Shown(r, rows) EXCEPT !.offset = @ + PageSize + 1,
                         !.mode = IF Len(rows) < PageSize THEN "following" ELSE "paging"]

(* The pages end with one that is not full. *)
AfterPage(r, rows) ==
  [Shown(r, rows) EXCEPT !.offset = @ + PageSize,
                         !.mode = IF Len(rows) < PageSize THEN "following" ELSE "paging"]

(* Somebody opens a chat: -any <> PageSize. *)
OpenChat(u, c) ==
  /\ reader = Nobody
  /\ Listing(u, c)
  /\ \E s \in NewestFirst(InChat(c)) :
       LET rows == Limit(s, 0, PageSize) IN
         reader' =
           IF rows = <<>> THEN Nobody
           ELSE AfterPage([user |-> u, mode |-> "paging", chat |-> c, offset |-> 0,
                           last |-> rows[1], shown |-> {}, goal |-> InChat(c)], rows)

(* -any offset PageSize *)
NextPage ==
  /\ reader # Nobody /\ reader.mode = "paging"
  /\ Listing(reader.user, reader.chat)
  /\ \E s \in NewestFirst(InChat(reader.chat)) :
       reader' = AfterPage(reader, Limit(s, reader.offset, PageSize))

(* -new last: no limit; the newest row becomes the last known message. *)
FollowChat ==
  /\ reader # Nobody /\ reader.mode = "following"
  /\ Listing(reader.user, reader.chat)
  /\ \E s \in NewestFirst(NewIn(reader.chat, reader.last)) :
       reader' = [Shown(reader, s) EXCEPT !.goal = InChat(reader.chat),
                                          !.last = IF s = <<>> THEN @ ELSE s[1]]

CloseChat ==
  /\ reader # Nobody
  /\ reader' = Nobody
  /\ UNCHANGED <<vars, now, times, late>>

-----------------------------------------------------------------------------
(* chats_list and chat_party_list, as the rows they are built from.        *)

UserChats(u) == {c \in DOMAIN chats : IsParticipant(u, c)}

(* get_chat_info: the rows of the subquery that names a private chat. *)
TitleRows(u, c) == Members(c) \ {u}

(* chat_party_list does not ask whether u is in the chat. *)
PartyList(u, c) == Members(c) \ {u}

(* The message shown with a chat in chats_list: selection 0, 1. *)
LastMessages(c) == {Limit(s, 0, 1) : s \in NewestFirst(InChat(c))}

-----------------------------------------------------------------------------
MessagesInit == Init /\ now = 0 /\ times = Empty /\ late = {} /\ reader = Nobody

ListCommand ==
  \/ \E u \in registered \cup {NoUser}, c \in ChatIds : ListingRefused(u, c)
  \/ \E u \in registered, c \in ChatIds : OpenChat(u, c)
  \/ NextPage
  \/ FollowChat

MessagesNext ==
  \/ Write
  \/ Tick
  \/ ListCommand
  \/ CloseChat

MessagesSpec == MessagesInit /\ [][MessagesNext]_timedVars

-----------------------------------------------------------------------------
(* Properties.                                                             *)

Simultaneous(m) ==
  \E o \in InChat(messages[m].chat) : o # m /\ times[o] = times[m]

(* docs/chat_messages_list.md:14 promises a reader ALL new messages after  *)
(* a given one.  The code does not keep that promise: it compares times,   *)
(* strictly (db_queries_generator.cpp:632-641).  What it does keep: a      *)
(* reader that pages back and then asks for what is new has been shown     *)
(* every message, whatever was posted between its commands, but for those  *)
(* that share their millisecond with another message and those that were   *)
(* late, posted when the clock stood at or before the time of a message    *)
(* already there.                                                          *)
ReadersMissOnlyTheLate ==
  (reader # Nobody /\ reader.mode = "following") =>
    \A m \in reader.goal \cap DOMAIN messages :
      m \in reader.shown \/ Simultaneous(m) \/ m \in late

(* The listings agree with each other: whoever is in a chat finds it with  *)
(* a size of himself and its party, a private chat with exactly one name   *)
(* for its title (a scalar subquery: more rows are an error), and as last  *)
(* message one that paging the chat shows first                            *)
(* (db_queries_generator.cpp:493-520, 647-676).                            *)
ListingsAgree ==
  \A u \in registered : \A c \in UserChats(u) :
    /\ chats[c].size = 1 + Cardinality(PartyList(u, c))
    /\ chats[c].type = "private" => Cardinality(TitleRows(u, c)) = 1
    /\ \A l \in LastMessages(c) :
         IF InChat(c) = {} THEN l = <<>>
         ELSE \A m \in InChat(c) : times[m] <= times[l[1]]

(* Files no message stands for, nor one that is just being posted. *)
OrphanFiles ==
  files \ ( {<<messages[m].chat, m>> : m \in DOMAIN messages}
              \cup {<<job[2].chat, job[1]>> : job \in posting} )

(* A file stays without its message only when its row failed or the        *)
(* process ended after it was written, or when its chat was deleted, which *)
(* leaves the files on disk (chat_post_handler.cpp:41).                    *)
OrphanFilesHaveACause ==
  [][ \/ OrphanFiles' \subseteq OrphanFiles
      \/ posting # {} /\ (PostFileMessageFails \/ Crash)
      \/ \E c \in DOMAIN chats \ DOMAIN chats' : \A f \in OrphanFiles' \ OrphanFiles : f[1] = c ]_timedVars

(* Messages come from members only, and files do not pile up without       *)
(* cause, whatever fails between the check, the file and the row           *)
(* (chat_post_handler.cpp:30-82).                                          *)
PostsAreSound == OnlyMembersPost /\ OrphanFilesHaveACause
=============================================================================
